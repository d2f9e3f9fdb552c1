-------------------------- MODULE StorefrontProofs --------------------------
(***************************************************************************)
(* Proofs about Storefront, for every set of workers and orders, every     *)
(* size of the catalogue and every list of items: the type invariant, the  *)
(* integrity of the orders, their prices, and the implementation of Shop.  *)
(***************************************************************************)
EXTENDS Storefront, SequenceTheorems, TLAPS

-----------------------------------------------------------------------------
(***************************************************************************)
(* The inductive invariant.                                                *)
(***************************************************************************)
\* A request has a line to make until it saves, and then at least one line.
RequestOnCourse(w) ==
  /\ request[w].step \in {"name", "price"} => Len(request[w].lines) < Len(request[w].items)
  /\ At(w, "save") => request[w].lines # <<>>

\* The lines made so far bear prices that were on offer since the request came in.
LinesWereOffered(w) ==
  ~At(w, "idle") =>
    \A n \in DOMAIN request[w].lines :
      [variant |-> request[w].lines[n].variant, price |-> request[w].lines[n].price] \in seen[w]

RequestsAreSound == \A w \in Workers : RequestOnCourse(w) /\ LinesWereOffered(w)

\* An order that is not in the table has no lines.
LinesHaveOrders == \A o \in Orders : placed[o] # "placed" => lines[o] = <<>>

\* A key that the sequence has not handed out, or that only the import knows, has no row.
KeysAreFresh ==
  /\ \A i \in Ids : i >= nextId \/ i \in fresh => variant[i] = Absent
  /\ \A i \in fresh : i < nextId

\* What the import has done so far: it clears orders that are in the table, it deletes variants of
\* the catalogue, and once it is done with them, all of the catalogue.
ImportOnCourse ==
  /\ \A o \in doomed : placed[o] = "placed"
  /\ dropped \subseteq {i \in Ids : IsListed(i)}
  /\ phase = "commit" => dropped = {i \in Ids : IsListed(i)}
  /\ phase \notin {"delete", "commit"} => dropped = {}
  /\ target # NoVariant => phase = "delete" /\ IsListed(target) /\ target \notin dropped
  /\ phase # "commit" => fresh = {}
  /\ phase \notin {"off", "commit"} => nextId + Batch <= MaxId + 1

\* What the locks are for: a variant whose line an order in its COMMIT has checked is in the
\* catalogue, and no import deletes it before the order is in the table.
LocksHold ==
  \A w \in Workers : At(w, "commit") =>
    /\ request[w].lines # <<>>
    /\ request[w].checked <= Len(request[w].lines)
    /\ \A n \in 1..request[w].checked :
         IsListed(request[w].lines[n].variant) /\ request[w].lines[n].variant \notin dropped

IInv ==
  /\ TypeOK
  /\ OrdersReferToVariants
  /\ RequestsAreSound
  /\ LinesHaveOrders
  /\ KeysAreFresh
  /\ ImportOnCourse
  /\ LocksHold

-----------------------------------------------------------------------------
(***************************************************************************)
(* Requests and their lines.                                               *)
(***************************************************************************)
LEMMA RequestShape ==
  ASSUME TypeOK, NEW w \in Workers, ~At(w, "idle")
  PROVE  /\ request[w].lines \in Seq(Line)
         /\ Len(request[w].lines) \in Nat
         /\ DOMAIN request[w].lines = 1..Len(request[w].lines)
         /\ ~At(w, "commit") => request[w] \in Work /\ request[w].items \in ItemLists
         /\ At(w, "commit") => /\ request[w] \in Saving
                               /\ request[w].lines \in Seq(Sold) /\ request[w].checked \in Nat
<1>1. request[w] \in Work \cup Saving
  BY DEF TypeOK, Request, Idle, At
<1>2. CASE request[w] \in Work
  <2>1. request[w].lines \in Seq(Line) /\ request[w].items \in ItemLists /\ ~At(w, "commit")
    BY <1>2 DEF Work, At
  <2> QED BY <1>2, <2>1, LenProperties
<1>3. CASE request[w] \in Saving
  <2>1. request[w].lines \in Seq(Sold) /\ request[w].checked \in Nat /\ At(w, "commit")
    BY <1>3 DEF Saving, At
  <2>2. Sold \subseteq Line
    BY DEF Sold
  <2>3. request[w].lines \in Seq(Line)
    BY <2>1, <2>2, SeqMonotonic
  <2> QED BY <1>3, <2>1, <2>3, LenProperties
<1> QED BY <1>1, <1>2, <1>3

\* The item a request is at is an item of its list.
LEMMA ItemShape ==
  ASSUME TypeOK, RequestsAreSound, NEW w \in Workers, request[w].step \in {"name", "price"}
  PROVE  Item(w).variant \in Ids /\ Item(w).quantity \in Nat \ {0}
<1> DEFINE Listable == [variant : Ids, quantity : Nat \ {0}]
<1>1. ~At(w, "idle") /\ ~At(w, "commit")
  BY DEF At
<1>2. request[w].items \in Seq(Listable)
  BY <1>1, RequestShape, ItemsAssumption
<1>3. Len(request[w].items) \in Nat
  BY <1>2, LenProperties
<1>4. Len(request[w].lines) + 1 \in 1..Len(request[w].items)
  BY <1>1, <1>3, RequestShape DEF RequestsAreSound, RequestOnCourse
<1> HIDE DEF Listable
<1>5. request[w].items[Len(request[w].lines) + 1] \in Listable
  BY <1>2, <1>4, ElementOfSeq
<1> QED BY <1>5 DEF Item, Listable

\* The lines that are saved have a price that fits.
LEMMA AcceptableLinesAreSold ==
  ASSUME NEW ls \in Seq(Line), Acceptable(ls)
  PROVE  ls \in Seq(Sold)
<1>1. Len(ls) \in Nat /\ ls \in [1..Len(ls) -> Line] /\ DOMAIN ls = 1..Len(ls)
  BY LenProperties
<1>2. ls \in [1..Len(ls) -> Sold]
  BY <1>1 DEF Acceptable, Sold
<1> QED BY <1>1, <1>2

LEMMA VariantsOfLines ==
  /\ VariantsOf(<<>>) = {}
  /\ \A ls \in Seq(Line) : VariantsOf(ls) \subseteq Ids
  /\ \A ls \in Seq(Line) : ls # <<>> => VariantsOf(ls) # {}
<1>1. VariantsOf(<<>>) = {}
  <2>1. DOMAIN <<>> = {}
    BY EmptySeq, LenProperties
  <2> QED BY <2>1 DEF VariantsOf
<1>2. ASSUME NEW ls \in Seq(Line) PROVE VariantsOf(ls) \subseteq Ids
  <2>1. ls \in [DOMAIN ls -> Line]
    BY LenProperties
  <2> QED BY <2>1 DEF VariantsOf, Line
<1>3. ASSUME NEW ls \in Seq(Line), ls # <<>> PROVE VariantsOf(ls) # {}
  <2>1. 1 \in DOMAIN ls
    BY <1>3, EmptySeq, LenProperties
  <2> QED BY <2>1 DEF VariantsOf
<1> QED BY <1>1, <1>2, <1>3

LEMMA SoldAreLines ==
  ASSUME TypeOK, NEW o \in Orders
  PROVE  lines[o] \in Seq(Line) /\ VariantsOf(lines[o]) \subseteq Ids
<1>1. lines[o] \in Seq(Sold) /\ Sold \subseteq Line
  BY DEF TypeOK, Sold
<1>2. lines[o] \in Seq(Line)
  BY <1>1, SeqMonotonic
<1> QED BY <1>2, VariantsOfLines

-----------------------------------------------------------------------------
(***************************************************************************)
(* Type correctness.                                                       *)
(***************************************************************************)
Offer == [variant : Ids, price : Prices \cup {NoPrice}]

LEMMA InitType == Init => TypeOK
<1> SUFFICES ASSUME Init PROVE TypeOK
  OBVIOUS
<1>1. <<>> \in Seq(Sold)
  BY EmptySeq
<1> QED BY <1>1, NumbersAssumption DEF Init, TypeOK, Request, Phases, Ids, NoVariant

\* What is on offer has a price, or NULL.
LEMMA OfferShape ==
  ASSUME TypeOK, NEW i \in OnOffer
  PROVE  i \in Ids /\ variant[i] \in Listed /\ variant[i].price \in Prices \cup {NoPrice}
<1>1. i \in Ids /\ variant[i] \in {Absent, Removed} \cup Listed /\ variant[i].state = "listed"
  BY DEF TypeOK, OnOffer, IsListed
<1>2. variant[i] \in Listed
  BY <1>1 DEF Absent, Removed
<1> QED BY <1>1, <1>2 DEF Listed

\* The steps that a request and the import make on their own, with what they leave alone.
RequestMoves(w) ==
  \/ \E items \in ItemLists : PlaceOrder(w, items)
  \/ ReadName(w) \/ ReadPrice(w) \/ SaveOrder(w) \/ CheckLine(w) \/ Finish(w)

ImportMoves ==
  \/ StartImport \/ ClearOrders \/ CheckProtected \/ (\E i \in Ids : ReachVariant(i))
  \/ DeleteVariant \/ CreateVariants
  \/ Rollback /\ UNCHANGED nextId

LEMMA Steps ==
  ASSUME Next
  PROVE  \/ (\E w \in Workers : RequestMoves(w)) /\ UNCHANGED <<variant, nextId, book, importer>>
         \/ \E w \in Workers, o \in Orders : CommitOrder(w, o)
         \/ \E i \in Ids, price \in Prices \cup {NoPrice}, active \in BOOLEAN :
              EditVariant(i, price, active)
         \/ ImportMoves /\ UNCHANGED <<variant, book, request>>
         \/ \E tariff \in [fresh -> GridPrices] : ImportCommits(tariff)
<1>1. ASSUME NEW w \in Workers, Proceed(w) \/ RequestDies(w)
      PROVE  \/ RequestMoves(w) /\ UNCHANGED <<variant, nextId, book, importer>>
             \/ \E o \in Orders : CommitOrder(w, o)
  BY <1>1 DEF Proceed, RequestMoves, ReadName, ReadPrice, SaveOrder, CheckLine, RefuseOrder,
              RequestDies
<1>2. ASSUME NEW w \in Workers, NEW items \in ItemLists, PlaceOrder(w, items)
      PROVE  RequestMoves(w) /\ UNCHANGED <<variant, nextId, book, importer>>
  BY <1>2 DEF RequestMoves, PlaceOrder
<1>3. ASSUME NEW w \in Workers, BreakDeadlock(w)
      PROVE  \/ RequestMoves(w) /\ UNCHANGED <<variant, nextId, book, importer>>
             \/ ImportMoves /\ UNCHANGED <<variant, book, request>>
  BY <1>3 DEF BreakDeadlock, RequestMoves, ImportMoves, Rollback, book
<1>4. CASE StartImport \/ ImportDies
  BY <1>4 DEF StartImport, ImportDies, ImportMoves, Rollback, book
<1>5. CASE ImportStep
  <2>1. ASSUME ClearOrders \/ CheckProtected \/ (\E i \in Ids : ReachVariant(i)) \/ DeleteVariant
               \/ CreateVariants
        PROVE  ImportMoves /\ UNCHANGED <<variant, book, request>>
    BY <2>1 DEF ImportMoves, ClearOrders, CheckProtected, ReachVariant, DeleteVariant,
                CreateVariants, Rollback, book
  <2>2. ASSUME ImportFails PROVE ImportMoves /\ UNCHANGED <<variant, book, request>>
    BY <2>2 DEF ImportMoves, ImportFails, Rollback, book
  <2> QED BY <1>5, <2>1, <2>2 DEF ImportStep
<1>6. ASSUME NEW i \in Edited, NEW price \in Prices \cup {NoPrice}, NEW active \in BOOLEAN,
             EditVariant(i, price, active)
      PROVE  i \in Ids
  BY EditedAssumption
<1> QED BY <1>1, <1>2, <1>3, <1>4, <1>5, <1>6 DEF Next, Detector

\* A request is left with a new step, more lines, another line checked, or nothing.
LEMMA RequestType ==
  ASSUME TypeOK, RequestsAreSound, NEW w \in Workers, RequestMoves(w)
  PROVE  request' \in [Workers -> Request]
<1> USE DEF TypeOK
<1>1. ASSUME NEW items \in ItemLists, PlaceOrder(w, items)
      PROVE  request' \in [Workers -> Request]
  <2>1. <<>> \in Seq(Line)
    BY EmptySeq
  <2>2. [step |-> "name", items |-> items, lines |-> <<>>] \in Work
    BY <2>1 DEF Work
  <2> QED BY <1>1, <2>2 DEF PlaceOrder, Request
<1>2. CASE Finish(w)
  BY <1>2 DEF Finish, Request
<1>3. CASE ReadName(w) /\ ~Finish(w)
  <2>1. request[w] \in Work
    BY <1>3, RequestShape DEF ReadName, At
  <2>2. request' = [request EXCEPT ![w] = [request[w] EXCEPT !.step = "price"]]
    BY <1>3 DEF ReadName
  <2>3. [request[w] EXCEPT !.step = "price"] \in Work
    BY <2>1 DEF Work
  <2> QED BY <2>2, <2>3 DEF Request
<1>4. CASE ReadPrice(w) /\ ~Finish(w)
  <2> DEFINE i    == Item(w).variant
             line == [variant |-> i, quantity |-> Item(w).quantity, price |-> variant[i].price]
             made == Append(request[w].lines, line)
  <2>1. request[w] \in Work /\ request[w].lines \in Seq(Line)
    BY <1>4, RequestShape DEF ReadPrice, At
  <2>2. i \in OnOffer /\ i \in Ids /\ Item(w).quantity \in Nat \ {0}
    BY <1>4, ItemShape DEF ReadPrice, PriceFound, At
  <2>3. variant[i].price \in Prices \cup {NoPrice}
    BY <2>2, OfferShape
  <2>4. line \in Line
    BY <2>2, <2>3 DEF Line
  <2>5. made \in Seq(Line)
    BY <2>1, <2>4, AppendProperties
  <2> HIDE DEF line
  <2>6. PICK step \in {"save", "name"} :
          request' = [request EXCEPT ![w].lines = made, ![w].step = step]
    BY <1>4 DEF ReadPrice, line
  <2> HIDE DEF made
  <2>7. request' = [request EXCEPT ![w] = [request[w] EXCEPT !.lines = made, !.step = step]]
    BY <2>6
  <2>8. [request[w] EXCEPT !.lines = made, !.step = step] \in Work
    BY <2>1, <2>5 DEF Work
  <2> QED BY <2>7, <2>8 DEF Request
<1>5. CASE SaveOrder(w)
  <2>1. request[w].lines \in Seq(Sold)
    BY <1>5, RequestShape, AcceptableLinesAreSold DEF SaveOrder, At
  <2>2. [step |-> "commit", lines |-> request[w].lines, checked |-> 0] \in Saving
    BY <2>1 DEF Saving
  <2> QED BY <1>5, <2>2 DEF SaveOrder, Request
<1>6. CASE CheckLine(w)
  <2>1. request[w] \in Saving
    BY <1>6, RequestShape DEF CheckLine, Checking, At
  <2>2. request' = [request EXCEPT ![w] = [request[w] EXCEPT !.checked = request[w].checked + 1]]
    BY <1>6 DEF CheckLine
  <2>3. /\ request[w] = [step |-> "commit", lines |-> request[w].lines, checked |-> request[w].checked]
        /\ request[w].lines \in Seq(Sold) /\ request[w].checked + 1 \in Nat
    BY <2>1 DEF Saving
  <2>4. [request[w] EXCEPT !.checked = request[w].checked + 1]
          = [step |-> "commit", lines |-> request[w].lines, checked |-> request[w].checked + 1]
    BY <2>3
  <2>5. [request[w] EXCEPT !.checked = request[w].checked + 1] \in Saving
    BY <2>3, <2>4 DEF Saving
  <2> QED BY <2>2, <2>5 DEF Request
<1> QED BY <1>1, <1>2, <1>3, <1>4, <1>5, <1>6 DEF RequestMoves

LEMMA VariantType ==
  ASSUME TypeOK, Next
  PROVE  variant' \in [Ids -> {Absent, Removed} \cup Listed]
<1> USE DEF TypeOK
<1>1. ASSUME NEW i \in Ids, NEW price \in Prices \cup {NoPrice}, NEW active \in BOOLEAN,
             EditVariant(i, price, active)
      PROVE  variant' \in [Ids -> {Absent, Removed} \cup Listed]
  BY <1>1 DEF EditVariant, Listed
<1>2. ASSUME NEW tariff \in [fresh -> GridPrices], ImportCommits(tariff)
      PROVE  variant' \in [Ids -> {Absent, Removed} \cup Listed]
  BY <1>2 DEF ImportCommits, Listed, GridPrices
<1>3. UNCHANGED variant => variant' \in [Ids -> {Absent, Removed} \cup Listed]
  OBVIOUS
<1> QED BY <1>1, <1>2, <1>3, Steps DEF CommitOrder

LEMMA SeenType ==
  ASSUME TypeOK, Next
  PROVE  seen' \in [Workers -> SUBSET Offer]
<1>1. Offers \subseteq Offer
  BY DEF TypeOK, Offers, OnOffer, IsListed, Listed, Absent, Removed, Offer
<1>2. Offers' \subseteq Offer
  BY VariantType DEF Offers, OnOffer, IsListed, Listed, Absent, Removed, Offer
<1> QED BY <1>1, <1>2 DEF Next, Witness, TypeOK, Offer

LEMMA NextType == IInv /\ [Next]_vars => TypeOK'
<1> SUFFICES ASSUME IInv, [Next]_vars PROVE TypeOK'
  OBVIOUS
<1> USE DEF IInv
<1>1. CASE UNCHANGED vars
  BY <1>1 DEF vars, TypeOK
<1>2. CASE Next
  <2>1. variant' \in [Ids -> {Absent, Removed} \cup Listed]
    BY <1>2, VariantType
  <2>2. seen' \in [Workers -> SUBSET [variant : Ids, price : Prices \cup {NoPrice}]]
    BY <1>2, SeenType DEF Offer
  <2>3. request' \in [Workers -> Request]
    <3>1. ASSUME NEW w \in Workers, Finish(w) PROVE request' \in [Workers -> Request]
      BY <3>1 DEF Finish, TypeOK, Request
    <3> QED BY <1>2, <3>1, Steps, RequestType DEF TypeOK, CommitOrder, EditVariant, ImportCommits
  <2>4. /\ placed' \in [Orders -> {"none", "placed", "cleared"}]
        /\ lines' \in [Orders -> Seq(Sold)]
    <3>1. ASSUME NEW w \in Workers, NEW o \in Orders, CommitOrder(w, o)
          PROVE  /\ placed' \in [Orders -> {"none", "placed", "cleared"}]
                 /\ lines' \in [Orders -> Seq(Sold)]
      <4>1. request[w].lines \in Seq(Sold)
        BY <3>1, RequestShape DEF CommitOrder, At
      <4> QED BY <3>1, <4>1 DEF CommitOrder, TypeOK
    <3>2. ASSUME NEW tariff \in [fresh -> GridPrices], ImportCommits(tariff)
          PROVE  /\ placed' \in [Orders -> {"none", "placed", "cleared"}]
                 /\ lines' \in [Orders -> Seq(Sold)]
      <4>1. <<>> \in Seq(Sold)
        BY EmptySeq
      <4> QED BY <3>2, <4>1 DEF ImportCommits, TypeOK
    <3>3. UNCHANGED book => /\ placed' \in [Orders -> {"none", "placed", "cleared"}]
                            /\ lines' \in [Orders -> Seq(Sold)]
      BY DEF book, TypeOK
    <3> QED BY <1>2, <3>1, <3>2, <3>3, Steps DEF EditVariant
  <2>5. /\ phase' \in Phases /\ nextId' \in 1..(MaxId + 1) /\ target' \in Ids \cup {NoVariant}
        /\ doomed' \subseteq Orders /\ dropped' \subseteq Ids /\ fresh' \subseteq Ids
    <3>1. CASE UNCHANGED <<nextId, importer>>
      BY <3>1 DEF importer, TypeOK
    <3>2. CASE CreateVariants
      BY <3>2, NumbersAssumption DEF CreateVariants, TypeOK, ImportOnCourse, Phases, Ids
    <3>3. CASE ImportMoves /\ ~CreateVariants
      BY <3>3 DEF ImportMoves, StartImport, ClearOrders, CheckProtected, Rollback, ReachVariant,
                  DeleteVariant, TypeOK, Phases
    <3>4. ASSUME NEW tariff \in [fresh -> GridPrices], ImportCommits(tariff)
          PROVE  UNCHANGED <<nextId, target>> /\ phase' = "off"
                 /\ doomed' = {} /\ dropped' = {} /\ fresh' = {}
      BY <3>4 DEF ImportCommits
    <3> QED BY <1>2, <3>1, <3>2, <3>3, <3>4, Steps DEF TypeOK, Phases, CommitOrder, EditVariant
  <2> QED BY <2>1, <2>2, <2>3, <2>4, <2>5 DEF TypeOK
<1> QED BY <1>1, <1>2

-----------------------------------------------------------------------------
(***************************************************************************)
(* The import.                                                             *)
(***************************************************************************)
\* When an import commits, it has cleared every order that is in the table: an order placed after
\* ClearOrders refers to a variant that the import has deleted.
LEMMA CommitClearsAll ==
  ASSUME IInv, phase = "commit", NoKeyBreaks
  PROVE  doomed = {o \in Orders : placed[o] = "placed"}
<1>1. doomed \subseteq {o \in Orders : placed[o] = "placed"}
  BY DEF IInv, TypeOK, ImportOnCourse
<1>2. ASSUME NEW o \in Remaining PROVE FALSE
  <2>1. o \in Orders /\ placed[o] = "placed"
    BY <1>2 DEF Remaining
  <2>2. PICK i \in VariantsOf(lines[o]) : IsListed(i) /\ i \in Ids
    BY <2>1, SoldAreLines, VariantsOfLines DEF IInv, OrdersReferToVariants, KeysHold
  <2>3. i \in dropped
    BY <2>2 DEF IInv, ImportOnCourse
  <2> QED BY <1>2, <2>2, <2>3 DEF NoKeyBreaks
<1> QED BY <1>1, <1>2 DEF Remaining

LEMMA NextImport == IInv /\ [Next]_vars => ImportOnCourse'
<1> SUFFICES ASSUME IInv, Next PROVE ImportOnCourse'
  BY DEF vars, IInv, ImportOnCourse, IsListed
<1> USE DEF IInv
<1>1. ASSUME UNCHANGED importer, UNCHANGED <<nextId>>,
             \A o \in Orders : placed[o] = "placed" => placed'[o] = "placed",
             \A i \in Ids : variant'[i].state = variant[i].state
      PROVE  ImportOnCourse'
  BY <1>1 DEF ImportOnCourse, IsListed, importer, TypeOK
<1>2. ASSUME NEW w \in Workers, NEW o \in Orders, CommitOrder(w, o) PROVE ImportOnCourse'
  <2>1. \A p \in Orders : placed[p] = "placed" => placed'[p] = "placed"
    BY <1>2 DEF CommitOrder, TypeOK
  <2> QED BY <1>1, <1>2, <2>1 DEF CommitOrder
<1>3. ASSUME NEW i \in Ids, NEW price \in Prices \cup {NoPrice}, NEW active \in BOOLEAN,
             EditVariant(i, price, active)
      PROVE  ImportOnCourse'
  <2>1. \A j \in Ids : variant'[j].state = variant[j].state
    BY <1>3 DEF EditVariant, IsListed, TypeOK
  <2> QED BY <1>1, <1>3, <2>1 DEF EditVariant, book
<1>4. ASSUME NEW tariff \in [fresh -> GridPrices], ImportCommits(tariff) PROVE ImportOnCourse'
  BY <1>4 DEF ImportCommits, ImportOnCourse
<1>5. ASSUME ImportMoves, UNCHANGED <<variant, book, request>> PROVE ImportOnCourse'
  <2>1. CASE StartImport
    BY <2>1 DEF StartImport, ImportOnCourse, IsListed, book
  <2>2. CASE ClearOrders
    BY <2>2 DEF ClearOrders, ImportOnCourse, IsListed, book
  <2>3. CASE CheckProtected
    BY <2>3 DEF CheckProtected, Rollback, ImportOnCourse, IsListed, book
  <2>4. ASSUME NEW i \in Ids, ReachVariant(i) PROVE ImportOnCourse'
    BY <2>4 DEF ReachVariant, ImportOnCourse, IsListed, book
  <2>5. CASE DeleteVariant
    BY <2>5 DEF DeleteVariant, ImportOnCourse, IsListed, book, TypeOK
  <2>6. CASE CreateVariants
    BY <2>6 DEF CreateVariants, ImportOnCourse, IsListed, book, TypeOK, Ids, NoVariant
  <2>7. CASE Rollback /\ UNCHANGED nextId
    BY <2>7 DEF Rollback, ImportOnCourse, IsListed
  <2> QED BY <1>5, <2>1, <2>2, <2>3, <2>4, <2>5, <2>6, <2>7 DEF ImportMoves
<1> QED BY <1>1, <1>2, <1>3, <1>4, <1>5, Steps DEF book

LEMMA NextLocks == IInv /\ [Next]_vars => LocksHold'
<1> SUFFICES ASSUME IInv, [Next]_vars, NEW w \in Workers, At(w, "commit")'
             PROVE  /\ request'[w].lines # <<>>
                    /\ request'[w].checked <= Len(request'[w].lines)
                    /\ \A n \in 1..request'[w].checked :
                         /\ variant'[request'[w].lines[n].variant].state = "listed"
                         /\ request'[w].lines[n].variant \notin dropped'
  BY DEF LocksHold, IsListed
<1> USE DEF IInv
<1> DEFINE ls == request[w].lines
\* A request that stays as it is keeps its locks if the import lets it.
<1>1. ASSUME request'[w] = request[w],
             \A i \in Ids : IsListed(i) /\ i \notin dropped /\ Shares(w, i)
                           => IsListed(i)' /\ i \notin dropped'
      PROVE  /\ request'[w].lines # <<>>
             /\ request'[w].checked <= Len(request'[w].lines)
             /\ \A n \in 1..request'[w].checked :
                  /\ variant'[request'[w].lines[n].variant].state = "listed"
                  /\ request'[w].lines[n].variant \notin dropped'
  <2>1. At(w, "commit") /\ ~At(w, "idle")
    BY <1>1 DEF At
  <2>2. ls \in Seq(Sold) /\ request[w].checked \in Nat /\ DOMAIN ls = 1..Len(ls) /\ Len(ls) \in Nat
    BY <2>1, RequestShape
  <2>3. ls # <<>> /\ request[w].checked <= Len(ls)
    BY <2>1 DEF LocksHold
  <2>4. ASSUME NEW n \in 1..request[w].checked
        PROVE  /\ ls[n].variant \in Ids /\ Shares(w, ls[n].variant)
               /\ IsListed(ls[n].variant) /\ ls[n].variant \notin dropped
    <3>1. ls[n] \in Sold
      BY <2>2, <2>3, ElementOfSeq
    <3> QED BY <2>1, <3>1 DEF Sold, Line, Shares, LocksHold
  <2>5. ASSUME NEW n \in 1..request[w].checked
        PROVE  variant'[ls[n].variant].state = "listed" /\ ls[n].variant \notin dropped'
    <3>1. PICK i \in Ids : i = ls[n].variant /\ Shares(w, i) /\ IsListed(i) /\ i \notin dropped
      BY <2>4
    <3>2. IsListed(i)' /\ i \notin dropped'
      BY <1>1, <3>1
    <3>3. variant'[i].state = "listed"
      BY <3>2 DEF IsListed
    <3> QED BY <3>1, <3>2, <3>3
  <2> QED BY <1>1, <2>3, <2>5
<1>2. CASE UNCHANGED vars
  BY <1>1, <1>2 DEF vars, IsListed
<1>3. ASSUME NEW v \in Workers, v # w, RequestMoves(v), UNCHANGED <<variant, importer>>
      PROVE  /\ request'[w] = request[w]
             /\ \A i \in Ids : IsListed(i) /\ i \notin dropped => IsListed(i)' /\ i \notin dropped'
  BY <1>3 DEF RequestMoves, PlaceOrder, ReadName, ReadPrice, SaveOrder, CheckLine, Finish, TypeOK,
              IsListed, importer
<1>4. ASSUME RequestMoves(w), UNCHANGED <<variant, importer>>
      PROVE  SaveOrder(w) \/ CheckLine(w)
  <2>1. ASSUME Finish(w) PROVE FALSE
    BY <2>1 DEF Finish, TypeOK, At, Idle
  <2>2. ASSUME NEW items \in ItemLists, PlaceOrder(w, items) PROVE FALSE
    BY <2>2 DEF PlaceOrder, TypeOK, At
  <2>3. ASSUME ReadName(w), ~Finish(w) PROVE FALSE
    <3>1. request[w] \in Work
      BY <2>3, RequestShape DEF ReadName, At
    <3>2. request'[w] = [request[w] EXCEPT !.step = "price"]
      BY <2>3 DEF ReadName, TypeOK
    <3> QED BY <3>1, <3>2 DEF Work, At
  <2>4. ASSUME ReadPrice(w), ~Finish(w) PROVE FALSE
    <3>1. request[w] \in Work
      BY <2>4, RequestShape DEF ReadPrice, At
    <3> DEFINE line == [variant |-> Item(w).variant, quantity |-> Item(w).quantity,
                        price |-> variant[Item(w).variant].price]
               made == Append(request[w].lines, line)
    <3>2. PICK step \in {"save", "name"} :
            request' = [request EXCEPT ![w].lines = made, ![w].step = step]
      BY <2>4 DEF ReadPrice
    <3> HIDE DEF made
    <3>3. request'[w].step = step
      BY <3>1, <3>2 DEF TypeOK, Work
    <3> QED BY <3>3 DEF At
  <2> QED BY <1>4, <2>1, <2>2, <2>3, <2>4 DEF RequestMoves
<1>5. CASE SaveOrder(w)
  <2>1. request'[w] = [step |-> "commit", lines |-> ls, checked |-> 0]
    BY <1>5 DEF SaveOrder, TypeOK
  <2>2. ls # <<>> /\ Len(ls) \in Nat
    BY <1>5, RequestShape DEF SaveOrder, At, RequestsAreSound, RequestOnCourse
  <2> HIDE DEF ls
  <2> QED BY <2>1, <2>2
<1>6. CASE CheckLine(w)
  <2>1. /\ request[w] \in Saving /\ Len(ls) \in Nat /\ request[w].checked \in Nat
        /\ At(w, "commit") /\ request[w].checked < Len(ls)
    BY <1>6, RequestShape DEF CheckLine, Checking, At
  <2>2. request'[w] = [request[w] EXCEPT !.checked = request[w].checked + 1]
    BY <1>6 DEF CheckLine, TypeOK
  <2>3. request'[w].lines = ls /\ request'[w].checked = request[w].checked + 1
    BY <2>1, <2>2 DEF Saving
  <2>4. ASSUME NEW n \in 1..(request[w].checked + 1)
        PROVE  IsListed(ls[n].variant) /\ ls[n].variant \notin dropped
    <3>1. CASE n \in 1..request[w].checked
      BY <2>1, <3>1 DEF LocksHold
    <3>2. CASE n = request[w].checked + 1
      BY <1>6, <3>2 DEF CheckLine, Due
    <3> QED BY <2>1, <2>4, <3>1, <3>2
  <2>5. ls # <<>>
    BY <2>1 DEF LocksHold
  <2>6. UNCHANGED <<variant, dropped>>
    BY <1>6 DEF CheckLine, importer
  <2> HIDE DEF ls
  <2> QED BY <2>1, <2>3, <2>4, <2>5, <2>6 DEF IsListed
<1>7. ASSUME NEW v \in Workers, NEW o \in Orders, CommitOrder(v, o)
      PROVE  /\ request'[w] = request[w]
             /\ \A i \in Ids : IsListed(i) /\ i \notin dropped => IsListed(i)' /\ i \notin dropped'
  BY <1>7 DEF CommitOrder, Finish, TypeOK, At, Idle, IsListed, importer
<1>8. ASSUME NEW j \in Ids, NEW price \in Prices \cup {NoPrice}, NEW active \in BOOLEAN,
             EditVariant(j, price, active)
      PROVE  /\ request'[w] = request[w]
             /\ \A i \in Ids : IsListed(i) /\ i \notin dropped => IsListed(i)' /\ i \notin dropped'
  BY <1>8 DEF EditVariant, TypeOK, IsListed, importer
\* A row that is shared is not deleted.
<1>9. ASSUME ImportMoves, UNCHANGED <<variant, book, request>>
      PROVE  \A i \in Ids : IsListed(i) /\ i \notin dropped /\ Shares(w, i)
                           => IsListed(i)' /\ i \notin dropped'
  BY <1>9 DEF ImportMoves, StartImport, ClearOrders, CheckProtected, ReachVariant, DeleteVariant,
              CreateVariants, Rollback, IsListed
\* When the import commits, it has locked every variant: no line is checked.
<1>10. ASSUME NEW tariff \in [fresh -> GridPrices], ImportCommits(tariff)
       PROVE  /\ request'[w] = request[w]
              /\ \A i \in Ids : IsListed(i) => i \in dropped
  BY <1>10 DEF ImportCommits, ImportOnCourse
<1>11. CASE Next
  BY <1>1, <1>3, <1>4, <1>5, <1>6, <1>7, <1>8, <1>9, <1>10, <1>11, Steps
<1> QED BY <1>2, <1>11

LEMMA NextKeys == IInv /\ [Next]_vars => KeysAreFresh'
<1> SUFFICES ASSUME IInv, Next PROVE KeysAreFresh'
  BY DEF vars, IInv, KeysAreFresh
<1> USE DEF IInv
<1>1. ASSUME UNCHANGED <<variant, nextId>>, fresh' \subseteq fresh
      PROVE  KeysAreFresh'
  BY <1>1 DEF KeysAreFresh
<1>2. ASSUME NEW j \in Ids, NEW price \in Prices \cup {NoPrice}, NEW active \in BOOLEAN,
             EditVariant(j, price, active)
      PROVE  KeysAreFresh'
  BY <1>2 DEF EditVariant, IsListed, Absent, KeysAreFresh, TypeOK, importer
<1>3. CASE CreateVariants
  BY <1>3, NumbersAssumption DEF CreateVariants, KeysAreFresh, ImportOnCourse, TypeOK, Ids
<1>4. ASSUME NEW tariff \in [fresh -> GridPrices], ImportCommits(tariff) PROVE KeysAreFresh'
  <2>1. ASSUME NEW i \in Ids, i >= nextId PROVE i \notin fresh /\ i \notin dropped
    BY <1>4, <2>1 DEF ImportCommits, KeysAreFresh, ImportOnCourse, IsListed, Absent, TypeOK, Ids
  <2> QED BY <1>4, <2>1 DEF ImportCommits, KeysAreFresh, TypeOK
<1>5. ASSUME ImportMoves, UNCHANGED variant, ~CreateVariants
      PROVE  UNCHANGED nextId /\ fresh' \subseteq fresh
  BY <1>5 DEF ImportMoves, StartImport, ClearOrders, CheckProtected, ReachVariant, DeleteVariant,
              Rollback
<1> QED BY <1>1, <1>2, <1>3, <1>4, <1>5, Steps DEF importer, CommitOrder
-----------------------------------------------------------------------------
(***************************************************************************)
(* The orders.                                                             *)
(***************************************************************************)
\* An order whose lines are all checked refers to variants of the catalogue.
LEMMA CommittedKeysHold ==
  ASSUME IInv, NEW w \in Workers, NEW o \in Orders, CommitOrder(w, o)
  PROVE  request[w].lines # <<>> /\ KeysHold(request[w].lines)
<1>1. At(w, "commit") /\ ~At(w, "idle") /\ request[w].checked = Len(request[w].lines)
  BY DEF CommitOrder, At
<1>2. DOMAIN request[w].lines = 1..request[w].checked
  BY <1>1, RequestShape DEF IInv
<1> QED BY <1>1, <1>2 DEF IInv, LocksHold, KeysHold, VariantsOf

LEMMA NextOrders == IInv /\ [Next]_vars => LinesHaveOrders' /\ OrdersReferToVariants'
<1> SUFFICES ASSUME IInv, Next PROVE LinesHaveOrders' /\ OrdersReferToVariants'
  BY DEF vars, IInv, LinesHaveOrders, OrdersReferToVariants, KeysHold, IsListed
<1> USE DEF IInv
<1>1. ASSUME UNCHANGED book, \A i \in Ids : variant'[i].state = variant[i].state
      PROVE  LinesHaveOrders' /\ OrdersReferToVariants'
  BY <1>1, SoldAreLines
     DEF LinesHaveOrders, OrdersReferToVariants, KeysHold, IsListed, VariantsOf, book
<1>2. ASSUME NEW w \in Workers, NEW o \in Orders, CommitOrder(w, o)
      PROVE  LinesHaveOrders' /\ OrdersReferToVariants'
  <2>1. request[w].lines # <<>> /\ KeysHold(request[w].lines)
    BY <1>2, CommittedKeysHold
  <2> QED BY <1>2, <2>1
      DEF CommitOrder, LinesHaveOrders, OrdersReferToVariants, KeysHold, IsListed, VariantsOf, TypeOK
<1>3. ASSUME NEW i \in Ids, NEW price \in Prices \cup {NoPrice}, NEW active \in BOOLEAN,
             EditVariant(i, price, active)
      PROVE  LinesHaveOrders' /\ OrdersReferToVariants'
  <2>1. \A j \in Ids : variant'[j].state = variant[j].state
    BY <1>3 DEF EditVariant, IsListed, TypeOK
  <2> QED BY <1>1, <1>3, <2>1 DEF EditVariant
<1>4. ASSUME NEW tariff \in [fresh -> GridPrices], ImportCommits(tariff)
      PROVE  LinesHaveOrders' /\ OrdersReferToVariants'
  <2>1. \A o \in Orders : placed'[o] # "placed" /\ lines'[o] = <<>>
    BY <1>4, CommitClearsAll DEF ImportCommits, LinesHaveOrders, TypeOK
  <2> QED BY <2>1 DEF LinesHaveOrders, OrdersReferToVariants
<1> QED BY <1>1, <1>2, <1>3, <1>4, Steps

-----------------------------------------------------------------------------
(***************************************************************************)
(* The requests.                                                           *)
(***************************************************************************)
\* What a request has seen on offer it does not forget, and it sees what is on offer now.
LEMMA SeenGrows ==
  ASSUME TypeOK, Next, NEW w \in Workers, request'[w] # Idle
  PROVE  seen[w] \subseteq seen'[w] /\ Offers \subseteq seen'[w]
BY DEF Next, Witness, TypeOK

\* A worker whose request stays as it is stays sound.
LEMMA OthersStaySound ==
  ASSUME IInv, Next, NEW w \in Workers, request'[w] = request[w] \/ request'[w] = Idle
  PROVE  RequestOnCourse(w)' /\ LinesWereOffered(w)'
<1>1. CASE request'[w] = Idle
  BY <1>1 DEF RequestOnCourse, LinesWereOffered, At, Idle
<1>2. CASE request'[w] = request[w] /\ request[w] # Idle
  <2>1. seen[w] \subseteq seen'[w]
    BY <1>2, SeenGrows DEF IInv
  <2>2. ~At(w, "idle")
    BY <1>2 DEF IInv, TypeOK, Request, Work, Saving, At, Idle
  <2> QED BY <1>2, <2>1, <2>2 DEF IInv, RequestsAreSound, RequestOnCourse, LinesWereOffered, At
<1> QED BY <1>1, <1>2

\* The worker that makes a line from what it reads stays sound.
LEMMA ReadPriceIsSound ==
  ASSUME IInv, Next, NEW w \in Workers, ReadPrice(w), ~Finish(w)
  PROVE  RequestOnCourse(w)' /\ LinesWereOffered(w)'
<1> DEFINE i    == Item(w).variant
           line == [variant |-> i, quantity |-> Item(w).quantity, price |-> variant[i].price]
           made == Append(request[w].lines, line)
<1> USE DEF IInv
<1>1. /\ request[w] \in Work /\ request[w].lines \in Seq(Line)
      /\ Len(request[w].lines) \in Nat
      /\ DOMAIN request[w].lines = 1..Len(request[w].lines)
      /\ request[w].items \in ItemLists
  BY RequestShape DEF ReadPrice, At
<1>2. i \in OnOffer /\ i \in Ids /\ Item(w).quantity \in Nat \ {0}
  BY ItemShape DEF ReadPrice, PriceFound, At
<1>3. line \in Line
  <2>1. variant[i].price \in Prices \cup {NoPrice}
    BY <1>2, OfferShape
  <2> QED BY <1>2, <2>1 DEF Line
<1>4. [variant |-> line.variant, price |-> line.price] \in Offers
  BY <1>2 DEF Offers
<1>5. /\ request'[w].lines = made /\ request'[w].items = request[w].items
      /\ request'[w].step = IF Len(made) = Len(request[w].items) THEN "save" ELSE "name"
      /\ request'[w] # Idle
  <2> HIDE DEF made
  <2>1. request' = [request EXCEPT ![w].lines = made,
                     ![w].step = IF Len(made) = Len(request[w].items) THEN "save" ELSE "name"]
    BY DEF ReadPrice, made
  <2> QED BY <1>1, <2>1 DEF TypeOK, Work, Idle
<1> HIDE DEF line
<1>6. /\ made \in Seq(Line) /\ made # <<>> /\ Len(made) = Len(request[w].lines) + 1
      /\ \A n \in 1..Len(request[w].lines) : made[n] = request[w].lines[n]
      /\ made[Len(request[w].lines) + 1] = line
  BY <1>1, <1>3, AppendProperties
<1>7. DOMAIN made = 1..Len(made)
  BY <1>6, LenProperties
<1> HIDE DEF made
<1>8. Len(request[w].items) \in Nat /\ Len(request[w].lines) < Len(request[w].items)
  <2>1. request[w].items \in Seq([variant : Ids, quantity : Nat \ {0}])
    BY <1>1, ItemsAssumption
  <2> QED BY <2>1, LenProperties DEF ReadPrice, At, RequestsAreSound, RequestOnCourse
<1>9. RequestOnCourse(w)'
  BY <1>1, <1>5, <1>6, <1>8 DEF RequestOnCourse, At
<1>10. ASSUME NEW n \in DOMAIN made
       PROVE  [variant |-> made[n].variant, price |-> made[n].price] \in seen'[w]
  <2>1. seen[w] \subseteq seen'[w] /\ Offers \subseteq seen'[w]
    BY <1>5, SeenGrows
  <2>2. CASE n \in 1..Len(request[w].lines)
    <3>1. [variant |-> request[w].lines[n].variant, price |-> request[w].lines[n].price] \in seen[w]
      BY <1>1, <2>2 DEF RequestsAreSound, LinesWereOffered, ReadPrice, At
    <3> QED BY <1>6, <2>1, <2>2, <3>1
  <2>3. CASE n = Len(request[w].lines) + 1
    BY <1>4, <1>6, <2>1, <2>3
  <2> QED BY <1>1, <1>6, <1>7, <1>10, <2>2, <2>3
<1>11. LinesWereOffered(w)'
  BY <1>5, <1>10 DEF LinesWereOffered
<1> QED BY <1>9, <1>11

LEMMA NextRequests == IInv /\ [Next]_vars => RequestsAreSound'
<1> SUFFICES ASSUME IInv, Next, NEW w \in Workers
             PROVE  RequestOnCourse(w)' /\ LinesWereOffered(w)'
  BY DEF vars, IInv, RequestsAreSound, RequestOnCourse, LinesWereOffered, At
<1> USE DEF IInv
<1>1. CASE request'[w] = request[w] \/ request'[w] = Idle
  BY <1>1, OthersStaySound
<1>2. ASSUME NEW items \in ItemLists, PlaceOrder(w, items)
      PROVE  RequestOnCourse(w)' /\ LinesWereOffered(w)'
  <2>1. request'[w] = [step |-> "name", items |-> items, lines |-> <<>>]
    BY <1>2 DEF PlaceOrder, TypeOK
  <2>2. items # <<>> /\ items \in Seq([variant : Ids, quantity : Nat \ {0}])
    BY ItemsAssumption
  <2>3. Len(items) \in Nat \ {0} /\ Len(<<>>) = 0 /\ DOMAIN <<>> = {}
    BY <2>2, EmptySeq, LenProperties
  <2> QED BY <2>1, <2>3 DEF RequestOnCourse, LinesWereOffered, At
<1>3. CASE ReadName(w) /\ ~Finish(w)
  <2>1. request[w] \in Work
    BY <1>3, RequestShape DEF ReadName, At
  <2>2. request'[w] = [request[w] EXCEPT !.step = "price"]
    BY <1>3 DEF ReadName, TypeOK
  <2>3. request'[w] # Idle
    BY <2>1, <2>2 DEF Work, Idle
  <2>4. seen[w] \subseteq seen'[w]
    BY <2>3, SeenGrows
  <2>5. /\ request'[w].step = "price" /\ request'[w].lines = request[w].lines
        /\ request'[w].items = request[w].items
    BY <2>1, <2>2 DEF Work
  <2> QED BY <1>3, <2>4, <2>5
      DEF ReadName, RequestsAreSound, RequestOnCourse, LinesWereOffered, At
<1>4. CASE ReadPrice(w) /\ ~Finish(w)
  BY <1>4, ReadPriceIsSound
<1>5. CASE Finish(w)
  BY <1>1, <1>5 DEF Finish, TypeOK
<1>6. CASE SaveOrder(w)
  <2>1. request'[w] = [step |-> "commit", lines |-> request[w].lines, checked |-> 0]
    BY <1>6 DEF SaveOrder, TypeOK
  <2>2. request'[w].lines = request[w].lines /\ request'[w].step = "commit" /\ request'[w] # Idle
    BY <2>1 DEF Idle
  <2> QED BY <1>6, <2>2, SeenGrows
      DEF SaveOrder, RequestsAreSound, RequestOnCourse, LinesWereOffered, At
<1>7. CASE CheckLine(w)
  <2>1. request[w] \in Saving
    BY <1>7, RequestShape DEF CheckLine, Checking, At
  <2>2. request'[w] = [request[w] EXCEPT !.checked = request[w].checked + 1]
    BY <1>7 DEF CheckLine, TypeOK
  <2>3. request'[w].lines = request[w].lines /\ request'[w].step = "commit" /\ request'[w] # Idle
    BY <2>1, <2>2 DEF Saving, Idle
  <2> QED BY <1>7, <2>3, SeenGrows
      DEF CheckLine, Checking, RequestsAreSound, RequestOnCourse, LinesWereOffered, At
<1>8. ASSUME NEW v \in Workers, v # w,
             RequestMoves(v) \/ \E o \in Orders : CommitOrder(v, o)
      PROVE  request'[w] = request[w]
  BY <1>8 DEF RequestMoves, PlaceOrder, ReadName, ReadPrice, SaveOrder, CheckLine, CommitOrder,
              Finish, TypeOK
<1>9. \/ \E v \in Workers : RequestMoves(v) \/ \E o \in Orders : CommitOrder(v, o)
      \/ UNCHANGED request
  BY Steps DEF EditVariant, ImportCommits
<1>10. ASSUME NEW v \in Workers, v = w,
             RequestMoves(v) \/ \E o \in Orders : CommitOrder(v, o)
      PROVE  RequestOnCourse(w)' /\ LinesWereOffered(w)'
  BY <1>2, <1>3, <1>4, <1>5, <1>6, <1>7, <1>10 DEF RequestMoves, CommitOrder
<1> QED BY <1>1, <1>8, <1>9, <1>10

-----------------------------------------------------------------------------
(***************************************************************************)
(* The theorems.                                                           *)
(***************************************************************************)
LEMMA InitInv == Init => IInv
<1> SUFFICES ASSUME Init PROVE IInv
  OBVIOUS
<1>1. TypeOK
  BY InitType
<1>2. OrdersReferToVariants /\ LinesHaveOrders /\ KeysAreFresh
  BY DEF Init, OrdersReferToVariants, LinesHaveOrders, KeysAreFresh
<1>3. RequestsAreSound
  BY DEF Init, RequestsAreSound, RequestOnCourse, LinesWereOffered, At, Idle
<1>4. ImportOnCourse
  BY DEF Init, ImportOnCourse
<1>5. LocksHold
  BY DEF Init, LocksHold, At, Idle
<1> QED BY <1>1, <1>2, <1>3, <1>4, <1>5 DEF IInv

LEMMA NextInv == IInv /\ [Next]_vars => IInv'
BY NextType, NextOrders, NextRequests, NextKeys, NextImport, NextLocks DEF IInv

LEMMA SpecInv == Spec => []IInv
BY InitInv, NextInv, PTL DEF Spec

\* Every variable keeps its type; in particular no order holds a line without a price or with one
\* that its column cannot hold (order_service.py:31, orders/models.py:49).
THEOREM TypeCorrect == Spec => []TypeOK
<1>1. IInv => TypeOK
  BY DEF IInv
<1> QED BY <1>1, SpecInv, PTL

\* However requests, edits and imports interleave and die, every order in the table has lines and
\* each refers to a variant of the catalogue (orders/models.py:46, import_price_grid.py:108-113).
THEOREM NoOrderDangles == Spec => []OrdersReferToVariants
<1>1. IInv => OrdersReferToVariants
  BY DEF IInv
<1> QED BY <1>1, SpecInv, PTL

\* Every line is charged at a price at which its variant was on offer while the request was served
\* (order_service.py:21-29).
THEOREM PricesWereOffered == Spec => PricesAreOfTheMoment
<1> DEFINE Fair ==
      \A o \in Orders : placed[o] = "none" /\ placed'[o] = "placed" =>
        \E w \in Workers : \A n \in DOMAIN lines'[o] :
          [variant |-> lines'[o][n].variant, price |-> lines'[o][n].price] \in seen[w]
<1>1. ASSUME IInv, Next PROVE Fair
  <2> SUFFICES ASSUME NEW o \in Orders, placed[o] = "none", placed'[o] = "placed"
               PROVE  \E w \in Workers : \A n \in DOMAIN lines'[o] :
                        [variant |-> lines'[o][n].variant, price |-> lines'[o][n].price] \in seen[w]
    OBVIOUS
  <2> USE <1>1 DEF IInv
  <2>1. PICK w \in Workers : CommitOrder(w, o)
    BY Steps DEF TypeOK, CommitOrder, book, EditVariant, ImportCommits
  <2>2. lines'[o] = request[w].lines /\ ~At(w, "idle")
    BY <2>1 DEF CommitOrder, TypeOK, At
  <2> QED BY <2>2 DEF RequestsAreSound, LinesWereOffered
<1>2. IInv /\ [Next]_vars => [Fair]_vars
  BY <1>1
<1> QED BY <1>2, SpecInv, PTL DEF Spec, PricesAreOfTheMoment

-----------------------------------------------------------------------------
(***************************************************************************)
(* Storefront implements Shop.                                             *)
(***************************************************************************)
LEMMA InitRefines == Init => Counter!Init
<1> SUFFICES ASSUME Init PROVE Counter!Init
  OBVIOUS
<1>1. \A o \in Orders : VariantsOf(lines[o]) = {}
  BY VariantsOfLines DEF Init
<1>2. \A i \in Ids : ~IsListed(i) /\ variant[i] # Removed
  BY DEF Init, IsListed, Absent, Removed
<1> QED BY <1>1, <1>2 DEF Init, Counter!Init

\* A step that leaves the book alone, and every variant in its state, is a stutter of Shop.
LEMMA ShopStutters ==
  ASSUME TypeOK, TypeOK', UNCHANGED book, \A i \in Ids : variant'[i].state = variant[i].state
  PROVE  UNCHANGED Counter!shop
<1>1. ASSUME NEW i \in Ids PROVE variant[i] = Removed <=> variant[i].state = "removed"
  BY DEF TypeOK, Absent, Removed, Listed
<1>2. ASSUME NEW i \in Ids PROVE variant'[i] = Removed <=> variant'[i].state = "removed"
  BY DEF TypeOK, Absent, Removed, Listed
<1>3. /\ {i \in Ids : IsListed(i)}' = {i \in Ids : IsListed(i)}
      /\ {i \in Ids : variant[i] = Removed}' = {i \in Ids : variant[i] = Removed}
  BY <1>1, <1>2 DEF IsListed
<1> QED BY <1>3 DEF Counter!shop, book, VariantsOf

LEMMA OrderRefines ==
  ASSUME IInv, TypeOK', NEW w \in Workers, NEW o \in Orders, CommitOrder(w, o)
  PROVE  Counter!Next
<1> DEFINE made == request[w].lines
<1> USE DEF IInv
<1>1. made \in Seq(Line) /\ made # <<>>
  BY RequestShape, CommittedKeysHold DEF CommitOrder, At
<1>2. VariantsOf(made) \subseteq Ids /\ VariantsOf(made) # {}
  BY <1>1, VariantsOfLines
<1>3. VariantsOf(made) \subseteq {i \in Ids : IsListed(i)}
  BY <1>2, CommittedKeysHold DEF KeysHold
<1>4. placed[o] = "none" /\ placed' = [placed EXCEPT ![o] = "placed"]
  BY DEF CommitOrder
<1>5. [p \in Orders |-> VariantsOf(lines[p])]'
        = [[p \in Orders |-> VariantsOf(lines[p])] EXCEPT ![o] = VariantsOf(made)]
  <2>1. \A p \in Orders : lines'[p] = IF p = o THEN made ELSE lines[p]
    BY DEF CommitOrder, TypeOK
  <2> HIDE DEF made
  <2>2. \A p \in Orders :
          VariantsOf(lines[p])' = IF p = o THEN VariantsOf(made) ELSE VariantsOf(lines[p])
    BY <2>1 DEF VariantsOf
  <2> QED BY <2>2
<1>6. /\ {i \in Ids : IsListed(i)}' = {i \in Ids : IsListed(i)}
      /\ {i \in Ids : variant[i] = Removed}' = {i \in Ids : variant[i] = Removed}
  BY DEF CommitOrder, IsListed
<1> HIDE DEF made
<1>7. Counter!Place(o, VariantsOf(made))
  BY <1>2, <1>3, <1>4, <1>5, <1>6 DEF Counter!Place
<1> QED BY <1>2, <1>7 DEF Counter!Next

LEMMA CommitRefines ==
  ASSUME IInv, TypeOK', NEW tariff \in [fresh -> GridPrices], ImportCommits(tariff)
  PROVE  Counter!Next
<1> USE DEF IInv
<1>1. doomed = {o \in Orders : placed[o] = "placed"}
  BY CommitClearsAll DEF ImportCommits
<1>2. dropped = {i \in Ids : IsListed(i)}
  BY DEF ImportCommits, ImportOnCourse
<1>3. \A i \in fresh : i \in Ids /\ variant[i] = Absent
  BY DEF TypeOK, KeysAreFresh
<1>4. fresh \cap ({i \in Ids : IsListed(i)} \cup {i \in Ids : variant[i] = Removed}) = {}
  BY <1>3 DEF IsListed, Absent, Removed
<1>5. \A i \in Ids : variant'[i] =
        IF i \in fresh THEN [state |-> "listed", price |-> tariff[i], active |-> TRUE]
        ELSE IF i \in dropped THEN Removed ELSE variant[i]
  BY DEF ImportCommits
<1>6. {i \in Ids : IsListed(i)}' = fresh
  <2>1. ASSUME NEW i \in Ids PROVE variant'[i].state = "listed" <=> i \in fresh
    <3>1. CASE i \in fresh
      <4>1. variant'[i] = [state |-> "listed", price |-> tariff[i], active |-> TRUE]
        BY <1>5, <3>1
      <4> QED BY <3>1, <4>1
    <3>2. CASE i \notin fresh /\ i \in dropped
      <4>1. variant'[i] = Removed
        BY <1>5, <3>2
      <4> QED BY <3>2, <4>1 DEF Removed
    <3>3. CASE i \notin fresh /\ i \notin dropped
      BY <1>2, <1>5, <3>3 DEF IsListed
    <3> QED BY <3>1, <3>2, <3>3
  <2> QED BY <1>3, <2>1 DEF IsListed
<1>7. {i \in Ids : variant[i] = Removed}'
        = {i \in Ids : variant[i] = Removed} \cup {i \in Ids : IsListed(i)}
  <2>1. ASSUME NEW i \in Ids
        PROVE  variant'[i] = Removed <=> variant[i] = Removed \/ IsListed(i)
    <3>1. CASE i \in fresh
      <4>1. variant'[i].state = "listed" /\ variant[i].state = "absent"
        <5>1. variant'[i] = [state |-> "listed", price |-> tariff[i], active |-> TRUE]
          BY <1>5, <3>1
        <5> QED BY <1>3, <3>1, <5>1 DEF Absent
      <4> QED BY <4>1 DEF Removed, IsListed
    <3>2. CASE i \notin fresh /\ i \in dropped
      BY <1>2, <1>5, <3>2
    <3>3. CASE i \notin fresh /\ i \notin dropped
      BY <1>2, <1>5, <3>3
    <3> QED BY <3>1, <3>2, <3>3
  <2> QED BY <2>1
<1>8. placed' = [o \in Orders |-> IF placed[o] = "placed" THEN "cleared" ELSE placed[o]]
  BY <1>1 DEF ImportCommits
<1>9. [o \in Orders |-> VariantsOf(lines[o])]' = [o \in Orders |-> {}]
  <2>1. \A o \in Orders : lines'[o] = <<>>
    BY <1>1 DEF ImportCommits, LinesHaveOrders
  <2> QED BY <2>1, VariantsOfLines DEF VariantsOf
<1>10. PICK new \in SUBSET Ids : new = fresh
  BY DEF TypeOK
<1>11. Counter!Replace(new)
  BY <1>4, <1>6, <1>7, <1>8, <1>9, <1>10 DEF Counter!Replace
<1> QED BY <1>11 DEF Counter!Next

LEMMA NextRefines == IInv /\ IInv' /\ [Next]_vars => [Counter!Next]_(Counter!shop)
<1> SUFFICES ASSUME IInv, IInv', [Next]_vars PROVE Counter!Next \/ UNCHANGED Counter!shop
  OBVIOUS
<1> USE DEF IInv
<1>1. CASE UNCHANGED vars
  BY <1>1, ShopStutters DEF vars, book
<1>2. ASSUME NEW i \in Ids, NEW price \in Prices \cup {NoPrice}, NEW active \in BOOLEAN,
             EditVariant(i, price, active)
      PROVE  UNCHANGED Counter!shop
  <2>1. \A j \in Ids : variant'[j].state = variant[j].state
    BY <1>2 DEF EditVariant, IsListed, TypeOK
  <2> QED BY <1>2, <2>1, ShopStutters DEF EditVariant
<1>3. UNCHANGED <<book, variant>> => UNCHANGED Counter!shop
  BY ShopStutters
<1>4. CASE Next
  BY <1>2, <1>3, <1>4, Steps, OrderRefines, CommitRefines
<1> QED BY <1>1, <1>4

\* No step clears some orders and leaves others: what OrderFlow takes for one step, a deployment that
\* clears every order, is all that the import of many statements does to orders
\* (import_price_grid.py:107-121).
OrdersAreClearedTogether ==
  [][(\E o \in Orders : placed[o] # "cleared" /\ placed'[o] = "cleared") =>
       \A o \in Orders : placed'[o] = IF placed[o] = "placed" THEN "cleared" ELSE placed[o]]_vars

\* A cleared order is not placed again by a request that was saving it (order_repository.py:7-28).
OrdersNeverReturn ==
  [][\A o \in Orders : placed[o] = "cleared" => placed'[o] = "cleared"]_vars

LEMMA PlacedMoves ==
  ASSUME IInv, [Next]_vars
  PROVE  \/ \E o \in Orders : placed[o] = "none" /\ placed' = [placed EXCEPT ![o] = "placed"]
         \/ placed' = [o \in Orders |-> IF placed[o] = "placed" THEN "cleared" ELSE placed[o]]
         \/ placed' = placed
<1>1. CASE UNCHANGED vars
  BY <1>1 DEF vars
<1>2. ASSUME NEW w \in Workers, NEW o \in Orders, CommitOrder(w, o)
      PROVE  placed[o] = "none" /\ placed' = [placed EXCEPT ![o] = "placed"]
  BY <1>2 DEF CommitOrder
<1>3. ASSUME NEW tariff \in [fresh -> GridPrices], ImportCommits(tariff)
      PROVE  placed' = [o \in Orders |-> IF placed[o] = "placed" THEN "cleared" ELSE placed[o]]
  BY <1>3, CommitClearsAll DEF ImportCommits
<1>4. CASE Next
  BY <1>2, <1>3, <1>4, Steps DEF book, EditVariant
<1> QED BY <1>1, <1>4

\* An import that commits has cleared every order there is, also those placed while it ran, and
\* none comes back (import_price_grid.py:107-121).
THEOREM AClearingSparesNone == Spec => OrdersAreClearedTogether /\ OrdersNeverReturn
<1>1. IInv /\ [Next]_vars =>
        ((\E o \in Orders : placed[o] # "cleared" /\ placed'[o] = "cleared") =>
           \A o \in Orders : placed'[o] = IF placed[o] = "placed" THEN "cleared" ELSE placed[o])
  <2> SUFFICES ASSUME IInv, [Next]_vars, NEW q \in Orders,
                      placed[q] # "cleared", placed'[q] = "cleared"
               PROVE  \A o \in Orders :
                        placed'[o] = IF placed[o] = "placed" THEN "cleared" ELSE placed[o]
    OBVIOUS
  <2>1. placed \in [Orders -> {"none", "placed", "cleared"}]
    BY DEF IInv, TypeOK
  <2> QED BY <2>1, PlacedMoves
<1>2. IInv /\ [Next]_vars =>
        \A o \in Orders : placed[o] = "cleared" => placed'[o] = "cleared"
  <2> SUFFICES ASSUME IInv, [Next]_vars, NEW o \in Orders, placed[o] = "cleared"
               PROVE  placed'[o] = "cleared"
    OBVIOUS
  <2>1. placed \in [Orders -> {"none", "placed", "cleared"}]
    BY DEF IInv, TypeOK
  <2> QED BY <2>1, PlacedMoves
<1> QED BY SpecInv, <1>1, <1>2, PTL DEF Spec, OrdersAreClearedTogether, OrdersNeverReturn

\* Requests of many queries and imports of many statements amount to the one-step Place and
\* Replace of Shop; in particular an import that commits has cleared every order in the table
\* (order_repository.py:7-28, import_price_grid.py:107-121).
THEOREM ImplementsTheShop == Spec => ImplementsShop
<1>1. IInv /\ [Next]_vars => [Counter!Next]_(Counter!shop)
  BY NextInv, NextRefines
<1> QED BY InitRefines, <1>1, SpecInv, PTL DEF Spec, ImplementsShop, Counter!Spec
=============================================================================
