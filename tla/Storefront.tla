----------------------------- MODULE Storefront -----------------------------
(***************************************************************************)
(* Orders being placed while the catalogue under them is edited by an      *)
(* administrator and replaced by a container that starts.                  *)
(*                                                                         *)
(* POST /api/orders/ reads the name and the price of one item after the    *)
(* other, each by a query of its own, and inserts the order with its lines *)
(* in a transaction.  import_price_grid --clear is one long transaction of *)
(* many statements.  PostgreSQL runs both at READ COMMITTED: a statement   *)
(* sees what is committed when it starts, and the foreign keys, which      *)
(* Django declares DEFERRABLE INITIALLY DEFERRED, are checked at COMMIT,   *)
(* line after line: the check reads the variant FOR KEY SHARE, and the row *)
(* stays locked until the order has committed.  A DELETE locks one row     *)
(* after the other, until its transaction ends.                            *)
(*                                                                         *)
(* So what the import has deleted or created is invisible until it         *)
(* commits; an order that refers to a deleted variant waits for the import *)
(* to end, and the import waits for an order that has checked a line with  *)
(* the variant to be deleted next; when each waits for the other,          *)
(* PostgreSQL aborts one of them.  An import that deleted a variant which  *)
(* somebody has meanwhile ordered fails.                                   *)
(***************************************************************************)
EXTENDS Naturals, Sequences, FiniteSets, Functions

CONSTANTS
  Workers,      \* the gunicorn workers that place orders
  Orders,       \* primary keys of the table orders
  MaxId,        \* bound: the last primary key of a variant
  Batch,        \* the number of variants in the price grid
  Edited,       \* bound: the variants that the administrator edits
  Prices,       \* the prices of the price grid and of the administrator
  NoPrice,      \* NULL: the administrator may blank a price
  ItemLists,    \* the lists of items that customers send
  MaxQuantity,  \* MAX_QUANTITY_INDIVIDUAL
  MaxUnitPrice  \* the largest unit_price that a line can hold

Ids == 1..MaxId

ASSUME NumbersAssumption == MaxId \in Nat /\ Batch \in Nat \ {0} /\ MaxQuantity \in Nat
                              /\ MaxUnitPrice \in Nat
ASSUME EditedAssumption  == Edited \subseteq Ids
ASSUME PricesAssumption  == Prices \subseteq Nat /\ NoPrice \notin Nat
ASSUME ItemsAssumption   == ItemLists \subseteq Seq([variant : Ids, quantity : Nat \ {0}]) \ {<<>>}

VARIABLES
  variant,  \* variant[i]: the row of the variant i that everybody sees
  nextId,   \* the sequence of their primary keys; a rollback does not turn it back
  placed,   \* placed[o]: "none" before, "cleared" after the order is in the table
  lines,    \* lines[o]: its lines
  request,  \* request[w]: the request that worker w is serving
  phase,    \* the next statement of the import, "off" when none runs
  doomed,   \* the orders that the import has deleted
  target,   \* the variant whose row its DELETE has come to
  dropped,  \* the variants that it has deleted, each locked
  fresh,    \* the variants that it has created
  seen      \* history: seen[w], what has been on offer since the request of w came in

importer == <<phase, doomed, target, dropped, fresh>>
book     == <<placed, lines>>
vars     == <<variant, nextId, placed, lines, request, phase, doomed, target, dropped, fresh, seen>>

-----------------------------------------------------------------------------
\* PriceCell.prix_vente_ht has as many digits as a line, ProductVariant.price has more.
GridPrices == Prices \cap 0..MaxUnitPrice

Absent  == [state |-> "absent"]
Removed == [state |-> "removed"]
Listed  == [state : {"listed"}, price : Prices \cup {NoPrice}, active : BOOLEAN]
Line    == [variant : Ids, quantity : Nat \ {0}, price : Prices \cup {NoPrice}]
Sold    == {line \in Line : line.price \in 0..MaxUnitPrice}
Idle    == [step |-> "idle"]
Work    == [step : {"name", "price", "save"}, items : ItemLists, lines : Seq(Line)]
Saving  == [step : {"commit"}, lines : Seq(Sold), checked : Nat]
Request == {Idle} \cup Work \cup Saving
Phases  == {"off", "clear", "check", "delete", "commit"}

NoVariant == 0

IsListed(i) == variant[i].state = "listed"

\* What .get(id=..., is_active=True) finds.
OnOffer == {i \in Ids : IsListed(i) /\ variant[i].active}
Offers  == {[variant |-> i, price |-> variant[i].price] : i \in OnOffer}

\* The variants that a list of lines refers to.
VariantsOf(ls) == {ls[n].variant : n \in DOMAIN ls}

TypeOK ==
  /\ variant \in [Ids -> {Absent, Removed} \cup Listed]
  /\ nextId \in 1..(MaxId + 1)
  /\ placed \in [Orders -> {"none", "placed", "cleared"}]
  /\ lines \in [Orders -> Seq(Sold)]
  /\ request \in [Workers -> Request]
  /\ phase \in Phases
  /\ doomed \subseteq Orders
  /\ target \in Ids \cup {NoVariant}
  /\ dropped \subseteq Ids
  /\ fresh \subseteq Ids
  /\ seen \in [Workers -> SUBSET [variant : Ids, price : Prices \cup {NoPrice}]]

Init ==
  /\ variant = [i \in Ids |-> Absent]
  /\ nextId = 1
  /\ placed = [o \in Orders |-> "none"]
  /\ lines = [o \in Orders |-> <<>>]
  /\ request = [w \in Workers |-> Idle]
  /\ phase = "off" /\ doomed = {} /\ target = NoVariant /\ dropped = {} /\ fresh = {}
  /\ seen = [w \in Workers |-> {}]

-----------------------------------------------------------------------------
(***************************************************************************)
(* POST /api/orders/.                                                      *)
(***************************************************************************)
At(w, step) == request[w].step = step

Finish(w) == request' = [request EXCEPT ![w] = Idle]

\* The item whose line is being made.
Item(w) == request[w].items[Len(request[w].lines) + 1]

\* Bound: a request is accepted only if a key of Orders is left for it.
KeyLeft == Cardinality({w \in Workers : ~At(w, "idle")}) < Cardinality({o \in Orders : placed[o] = "none"})

PlaceOrder(w, items) ==
  /\ At(w, "idle")
  /\ KeyLeft
  /\ request' = [request EXCEPT ![w] = [step |-> "name", items |-> items, lines |-> <<>>]]
  /\ UNCHANGED <<variant, nextId, book, importer>>

\* The variant is read for its name.  Not found is a 500: nothing catches DoesNotExist.
ReadName(w) ==
  /\ At(w, "name")
  /\ IF Item(w).variant \in OnOffer
       THEN request' = [request EXCEPT ![w].step = "price"]
       ELSE Finish(w)
  /\ UNCHANGED <<variant, nextId, book, importer>>

\* Mutant of PriceFound: the query for the price forgets is_active.
RowFound(i) == IsListed(i)

\* The query for the price of i finds a row.
PriceFound(i) == i \in OnOffer

\* The price is read again, by another query, and the line is complete.
ReadPrice(w) ==
  LET i    == Item(w).variant
      made == Append(request[w].lines,
                     [variant |-> i, quantity |-> Item(w).quantity, price |-> variant[i].price])
  IN
  /\ At(w, "price")
  /\ IF PriceFound(i)
       THEN request' = [request EXCEPT
              ![w].lines = made,
              ![w].step  = IF Len(made) = Len(request[w].items) THEN "save" ELSE "name"]
       ELSE Finish(w)
  /\ UNCHANGED <<variant, nextId, book, importer>>

TotalQuantity(ls) == SumFunction([n \in DOMAIN ls |-> ls[n].quantity])

\* Mutant of Acceptable: a line without a price counts as free.
AcceptableIfFree(ls) ==
  /\ TotalQuantity(ls) <= MaxQuantity
  /\ \A n \in DOMAIN ls : ls[n].price = NoPrice \/ ls[n].price \in 0..MaxUnitPrice

\* No price is NULL (a TypeError otherwise), the order is not too large (a 422 otherwise), and
\* the prices fit their column (a DataError otherwise).
Acceptable(ls) ==
  /\ TotalQuantity(ls) <= MaxQuantity
  /\ \A n \in DOMAIN ls : ls[n].price \in 0..MaxUnitPrice

\* BEGIN and the INSERTs, which nobody else sees and which take no lock on a variant.
SaveOrder(w) ==
  LET made == request[w].lines IN
  /\ At(w, "save")
  /\ Acceptable(made)
  /\ request' = [request EXCEPT ![w] = [step |-> "commit", lines |-> made, checked |-> 0]]
  /\ UNCHANGED <<variant, nextId, book, importer>>

\* The line whose foreign key is to be checked, and its variant.
Checking(w) == At(w, "commit") /\ request[w].checked < Len(request[w].lines)
Due(w)      == request[w].lines[request[w].checked + 1].variant

\* The order of w holds the row of i FOR KEY SHARE.
Shares(w, i) ==
  At(w, "commit") /\ \E n \in 1..request[w].checked : request[w].lines[n].variant = i

\* COMMIT checks the next line.  It waits while the variant is deleted but not yet gone.
CheckLine(w) ==
  /\ Checking(w)
  /\ IsListed(Due(w)) /\ Due(w) \notin dropped
  /\ request' = [request EXCEPT ![w].checked = @ + 1]
  /\ UNCHANGED <<variant, nextId, book, importer>>

CommitOrder(w, o) ==
  /\ At(w, "commit")
  /\ request[w].checked = Len(request[w].lines)
  /\ placed[o] = "none"
  /\ placed' = [placed EXCEPT ![o] = "placed"]
  /\ lines' = [lines EXCEPT ![o] = request[w].lines]
  /\ Finish(w)
  /\ UNCHANGED <<variant, nextId, importer>>

\* The lines are refused, or a variant is gone when its line is checked (an IntegrityError).
RefuseOrder(w) ==
  /\ \/ At(w, "save") /\ ~Acceptable(request[w].lines)
     \/ Checking(w) /\ ~IsListed(Due(w))
  /\ Finish(w)
  /\ UNCHANGED <<variant, nextId, book, importer>>

\* gunicorn kills the worker after 60 s, or the database is away.
RequestDies(w) ==
  /\ ~At(w, "idle")
  /\ Finish(w)
  /\ UNCHANGED <<variant, nextId, book, importer>>

-----------------------------------------------------------------------------
(***************************************************************************)
(* The administrator edits the list of variants.  A row that the import    *)
(* has deleted is locked, and gone when the lock is.                       *)
(***************************************************************************)
EditVariant(i, price, active) ==
  /\ IsListed(i) /\ i \notin dropped
  /\ variant' = [variant EXCEPT ![i] = [state |-> "listed", price |-> price, active |-> active]]
  /\ UNCHANGED <<nextId, book, request, importer>>

-----------------------------------------------------------------------------
(***************************************************************************)
(* import_price_grid --clear, one statement that others can interfere with *)
(* after the other.                                                        *)
(***************************************************************************)
\* Mutant of Rollback: the failed transaction is left open, with its locks.
LeftOpen ==
  /\ phase' = "off" /\ doomed' = {} /\ target' = NoVariant /\ fresh' = {}
  /\ UNCHANGED <<variant, placed, lines, dropped>>

Rollback ==
  /\ phase' = "off" /\ doomed' = {} /\ target' = NoVariant /\ dropped' = {} /\ fresh' = {}
  /\ UNCHANGED <<variant, placed, lines>>

StartImport ==
  /\ phase = "off"
  /\ nextId + Batch <= MaxId + 1
  /\ phase' = "clear"
  /\ UNCHANGED <<variant, nextId, book, request, doomed, target, dropped, fresh>>

\* Mutant of ClearOrders: each deletion is a transaction of its own.
ClearOrdersAtOnce ==
  /\ phase = "clear"
  /\ doomed' = {}
  /\ placed' = [o \in Orders |-> IF placed[o] = "placed" THEN "cleared" ELSE placed[o]]
  /\ lines' = [o \in Orders |-> <<>>]
  /\ phase' = "check"
  /\ UNCHANGED <<variant, nextId, request, target, dropped, fresh>>

ClearOrders ==
  /\ phase = "clear"
  /\ doomed' = {o \in Orders : placed[o] = "placed"}
  /\ phase' = "check"
  /\ UNCHANGED <<variant, nextId, book, request, target, dropped, fresh>>

\* The orders that the transaction still sees.
Remaining == {o \in Orders : placed[o] = "placed"} \ doomed

\* PROTECT: Django looks for lines before it deletes the variants, ProtectedError if any.
Protected(i) == \E o \in Remaining : i \in VariantsOf(lines[o])

CheckProtected ==
  /\ phase = "check"
  /\ IF \E i \in Ids : IsListed(i) /\ Protected(i)
       THEN Rollback
       ELSE phase' = "delete" /\ UNCHANGED <<book, variant, doomed, target, dropped, fresh>>
  /\ UNCHANGED <<nextId, request>>

\* The DELETE comes to the row of i; which row is next is the planner's choice.
ReachVariant(i) ==
  /\ phase = "delete"
  /\ target = NoVariant
  /\ IsListed(i) /\ i \notin dropped
  /\ target' = i
  /\ UNCHANGED <<variant, nextId, book, request, phase, doomed, dropped, fresh>>

\* It locks and deletes the row, and waits while an order shares it.
DeleteVariant ==
  /\ target # NoVariant
  /\ \A w \in Workers : ~Shares(w, target)
  /\ dropped' = dropped \cup {target}
  /\ target' = NoVariant
  /\ UNCHANGED <<variant, nextId, book, request, phase, doomed, fresh>>

CreateVariants ==
  /\ phase = "delete"
  /\ dropped = {i \in Ids : IsListed(i)}
  /\ fresh' = nextId..(nextId + Batch - 1)
  /\ nextId' = nextId + Batch
  /\ phase' = "commit"
  /\ UNCHANGED <<variant, book, request, doomed, target, dropped>>

\* Mutant of NoKeyBreaks: the column has no constraint in the database.
Unconstrained == TRUE

\* No line refers to a deleted variant: PostgreSQL's deferred check of the foreign key.
NoKeyBreaks == \A o \in Remaining : VariantsOf(lines[o]) \cap dropped = {}

ImportCommits(tariff) ==
  /\ phase = "commit"
  /\ NoKeyBreaks
  /\ variant' = [i \in Ids |->
       IF i \in fresh THEN [state |-> "listed", price |-> tariff[i], active |-> TRUE]
       ELSE IF i \in dropped THEN Removed ELSE variant[i]]
  /\ placed' = [o \in Orders |-> IF o \in doomed THEN "cleared" ELSE placed[o]]
  /\ lines' = [o \in Orders |-> IF o \in doomed THEN <<>> ELSE lines[o]]
  /\ phase' = "off" /\ doomed' = {} /\ dropped' = {} /\ fresh' = {}
  /\ UNCHANGED <<nextId, request, target>>

ImportFails ==
  /\ phase = "commit"
  /\ ~NoKeyBreaks
  /\ Rollback
  /\ UNCHANGED <<nextId, request>>

\* The container dies at any statement.
ImportDies ==
  /\ phase # "off"
  /\ Rollback
  /\ UNCHANGED <<nextId, request>>

\* The import waits for the order of w, and the order of w for the import.
Deadlocked(w) ==
  /\ target # NoVariant /\ Shares(w, target)
  /\ Checking(w) /\ Due(w) \in dropped


\* PostgreSQL aborts whichever of the two first finds the cycle: a 500, or no new catalogue.
BreakDeadlock(w) ==
  /\ Deadlocked(w)
  /\ \/ Finish(w) /\ UNCHANGED <<variant, book, importer>>
     \/ Rollback /\ UNCHANGED request
  /\ UNCHANGED nextId

-----------------------------------------------------------------------------
Proceed(w) == ReadName(w) \/ ReadPrice(w) \/ SaveOrder(w) \/ CheckLine(w) \/ RefuseOrder(w)
                \/ \E o \in Orders : CommitOrder(w, o)

ImportStep == ClearOrders \/ CheckProtected \/ (\E i \in Ids : ReachVariant(i)) \/ DeleteVariant
                \/ CreateVariants \/ (\E tariff \in [fresh -> GridPrices] : ImportCommits(tariff))
                \/ ImportFails

Detector == \E w \in Workers : BreakDeadlock(w)

\* History: what was on offer at some moment of the request.
Witness ==
  seen' = [w \in Workers |-> IF request'[w] = Idle THEN {} ELSE seen[w] \cup Offers \cup Offers']

Next ==
  /\ \/ \E w \in Workers : Proceed(w) \/ RequestDies(w)
     \/ \E w \in Workers, items \in ItemLists : PlaceOrder(w, items)
     \/ \E i \in Edited, price \in Prices \cup {NoPrice}, active \in BOOLEAN :
          EditVariant(i, price, active)
     \/ StartImport
     \/ ImportStep \/ Detector \/ ImportDies
  /\ Witness

Spec == Init /\ [][Next]_vars

(***************************************************************************)
(* A worker goes on with its request and the import with its statements.   *)
(* Each may have to wait for the other's locks, is woken up whenever they  *)
(* are let go, and then has its turn before they are taken again, for      *)
(* which the other has a transaction to begin anew.  Nothing makes either  *)
(* of them die: a deadlock is ended by PostgreSQL, a second after it arose. *)
(***************************************************************************)
Fairness ==
  /\ \A w \in Workers : SF_vars(Proceed(w) /\ Witness)
  /\ SF_vars(ImportStep /\ Witness)
  /\ WF_vars(Detector /\ Witness)

FairSpec == Spec /\ Fairness

-----------------------------------------------------------------------------
(***************************************************************************)
(* Properties.                                                             *)
(***************************************************************************)
\* What orders/models.py:46 declares: a line refers to a variant of the table.
KeysHold(ls) == \A i \in VariantsOf(ls) : IsListed(i)

\* Every order in the table has lines, and each refers to a variant that is in the catalogue:
\* neither the order that was being placed while the catalogue was replaced, nor the import that
\* was replacing it, can leave the other's rows dangling (import_price_grid.py:108-113).
OrdersReferToVariants ==
  \A o \in Orders : placed[o] = "placed" => lines[o] # <<>> /\ KeysHold(lines[o])

\* Each line of an order is charged at a price at which that variant was on offer at some moment
\* between the request and the order, however the catalogue changed in between
\* (order_service.py:21-29).
PricesAreOfTheMoment ==
  [][\A o \in Orders : placed[o] = "none" /\ placed'[o] = "placed" =>
       \E w \in Workers : \A n \in DOMAIN lines'[o] :
         [variant |-> lines'[o][n].variant, price |-> lines'[o][n].price] \in seen[w]]_vars

\* The queries of a request and the statements of an import, interleaved as they may be and
\* dying where they may, amount to the one-step Place and Replace of Shop: the catalogue changes
\* hands at once, with all the orders on it, and no variant's key is ever given out again.
Counter == INSTANCE Shop WITH
  Variants <- Ids,
  listed   <- {i \in Ids : IsListed(i)},
  retired  <- {i \in Ids : variant[i] = Removed},
  book     <- placed,
  basket   <- [o \in Orders |-> VariantsOf(lines[o])]

ImplementsShop == Counter!Spec

\* A request whose COMMIT waits for the import to let go of a variant is answered in the end, also
\* when the import waits in turn for the variants that the order has checked
\* (order_repository.py:17-26, import_price_grid.py:113).
RequestsEnd == \A w \in Workers : ~At(w, "idle") ~> At(w, "idle")

=============================================================================
