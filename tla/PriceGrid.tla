----------------------------- MODULE PriceGrid -----------------------------
(***************************************************************************)
(* import_price_grid: how the tables of the catalogue follow the price     *)
(* grid from one file to the next, with --clear (at every container start) *)
(* or without.                                                             *)
(*                                                                         *)
(* A file gives every sign reference a schedule, or none if it is sold on  *)
(* quotation, and every schedule its cells.  The command first writes the  *)
(* cells, then, in the order of the file, one product for each reference   *)
(* and one variant for each cell of its schedule: get_or_create and        *)
(* update_or_create statement by statement, in one transaction.  Rows that *)
(* the file does not mention are left as they are.                         *)
(*                                                                         *)
(* Meanwhile the administrator edits variants.  The list form reads a row  *)
(* and saves the whole of it later; a row that the transaction has written *)
(* is locked until it ends, the others can still be saved.                 *)
(*                                                                         *)
(* Size, class and backing of a cell are one key.  Orders, which protect   *)
(* what they refer to, are in Storefront.                                  *)
(***************************************************************************)
EXTENDS Naturals, FiniteSets

CONSTANTS
  Refs,      \* the sign references, numbered in the order in which files list them
  SlugBase,  \* SlugBase[r]: the slug of r before it is made unique
  Codes,     \* the codes of the price schedules
  Keys,      \* size, class and backing
  Prices,
  Files,     \* the price grids that are ever imported
  Quote,     \* schedule of a reference without one
  Unlisted,  \* schedule of a reference that a file leaves out
  None,      \* no row
  Null,      \* NULL
  MaxImports, \* bound: how often the command is started
  MaxEdits   \* bound: how often the administrator saves a form

Cells == Codes \X Keys

Grid == [schedule : [Refs -> Codes \cup {Quote, Unlisted}], vente : [Cells -> Prices \cup {Null}]]

ASSUME BoundsAssumption == MaxImports \in Nat /\ MaxEdits \in Nat
ASSUME RefsAssumption  == Refs \subseteq Nat \ {0} /\ IsFiniteSet(Refs)
ASSUME NamesAssumption == Quote \notin Codes /\ Unlisted \notin Codes \cup {Quote}
                            /\ None \notin Prices /\ Null \notin Prices \cup {None}
\* scripts/build_price_grid.py gives a schedule to the references that have a price.
ASSUME FilesAssumption ==
  /\ Files \subseteq Grid
  /\ \A f \in Files, r \in Refs :
       f.schedule[r] \in Codes => \E k \in Keys : f.vente[<<f.schedule[r], k>>] # Null

Product == [schedule : Codes \cup {Quote}, slug : {SlugBase[r] : r \in Refs} \X Nat]
Variant == [code : Codes, price : Prices \cup {Null}, active : BOOLEAN]

ASSUME NoneAssumption == None \notin Cells \cup Files \cup Product \cup Variant

VARIABLES
  cell,       \* cell[c, k]: prix_vente_ht of the PriceCell
  product,    \* product[r]: schedule (Quote: is_quote) and slug
  variant,    \* variant[r, k]: its price_cell (by the schedule), price, is_active
  file,       \* the file that is being imported, None when none is
  clear,      \* --clear
  newCell, newProduct, newVariant, \* the rows that the transaction has written
  cellObjs,   \* cell_objs: the cells of this file
  seenSlugs,  \* seen_slugs
  left,       \* the cells that are left of the loop over the cells, of the file or of ref
  ref,        \* the reference whose variants are being written, 0 before the first
  form,       \* the row that the administrator's request has read, None when there is none
  calm,       \* history: the last import, None once a variant was edited after it
  offered,    \* history: offered[r, k], the prices in the files imported
  edited,     \* history: the variants whose price is the administrator's
  cleared,    \* history: the last import was with --clear
  imports, edits \* how often so far

tables      == <<cell, product, variant>>
written     == <<newCell, newProduct, newVariant>>
progress    == <<cellObjs, seenSlugs, left, ref>>
history     == <<calm, offered, edited, cleared>>
counts      == <<imports, edits>>
vars        == <<tables, file, clear, written, progress, form, history, counts>>

-----------------------------------------------------------------------------
Listed(f) == {r \in Refs : f.schedule[r] # Unlisted}

\* A table with the rows that a transaction has written.
Over(table, rows) == [x \in DOMAIN table |-> IF x \in DOMAIN rows THEN rows[x] ELSE table[x]]

Put(rows, x, row) == [y \in DOMAIN rows \cup {x} |-> IF y = x THEN row ELSE rows[y]]

Untouched == [x \in {} |-> None]

\* The first of slug, slug-2, slug-3 ... that is not in the set.
FirstFree(base, slugs) ==
  LET Free == {n \in 1..Cardinality(slugs) + 1 : <<base, n>> \notin slugs}
  IN <<base, CHOOSE n \in Free : \A m \in Free : n <= m>>

\* Mutant of UniqSlug: the slugs of the table count as seen.
UniqSlugInTable(r) ==
  FirstFree(SlugBase[r],
            seenSlugs \cup {product[q].slug : q \in {p \in Refs : product[p] # None}})

UniqSlug(r) == FirstFree(SlugBase[r], seenSlugs)

SlugIsTaken(r) ==
  LET now == Over(product, newProduct)
  IN \E q \in Refs \ {r} : now[q] # None /\ now[q].slug = UniqSlug(r)

\* Mutant of CellOf: cell_objs is keyed without the code of the schedule.
CellOfAnySchedule(code, k) ==
  IF \E c \in Codes : <<c, k>> \in cellObjs
  THEN CHOOSE x \in cellObjs : x[2] = k
  ELSE None

\* cell_objs.get(...)
CellOf(code, k) == IF <<code, k>> \in cellObjs THEN <<code, k>> ELSE None

-----------------------------------------------------------------------------
TypeOK ==
  /\ cell \in [Cells -> Prices \cup {None}]
  /\ product \in [Refs -> Product \cup {None}]
  /\ variant \in [Refs \X Keys -> Variant \cup {None}]
  /\ file \in Files \cup {None} /\ clear \in BOOLEAN
  /\ cellObjs \subseteq Cells /\ left \subseteq Cells
  /\ ref \in Refs \cup {0} /\ imports \in 0..MaxImports /\ edits \in 0..MaxEdits
  /\ offered \in [Refs \X Keys -> SUBSET Prices] /\ edited \subseteq Refs \X Keys
  /\ cleared \in BOOLEAN

Init ==
  /\ cell = [x \in Cells |-> None]
  /\ product = [r \in Refs |-> None]
  /\ variant = [x \in Refs \X Keys |-> None]
  /\ file = None /\ clear = FALSE
  /\ newCell = Untouched /\ newProduct = Untouched /\ newVariant = Untouched
  /\ cellObjs = {} /\ seenSlugs = {} /\ left = {} /\ ref = 0
  /\ form = None
  /\ calm = None /\ offered = [x \in Refs \X Keys |-> {}] /\ edited = {} /\ cleared = FALSE
  /\ imports = 0 /\ edits = 0

-----------------------------------------------------------------------------
(***************************************************************************)
(* The import.                                                             *)
(***************************************************************************)
\* Mutant of Emptied: --clear forgets the variants.
EmptiedButVariants(c, keys) ==
  IF c /\ keys # Refs \X Keys THEN [x \in keys |-> None] ELSE Untouched

\* With --clear the transaction starts by deleting every row of every table.
Emptied(c, keys) == IF c THEN [x \in keys |-> None] ELSE Untouched

StartImport(f, c) ==
  /\ file = None /\ imports < MaxImports
  /\ imports' = imports + 1
  /\ file' = f /\ clear' = c
  /\ newCell' = Emptied(c, Cells)
  /\ newProduct' = Emptied(c, Refs)
  /\ newVariant' = Emptied(c, Refs \X Keys)
  /\ cellObjs' = {} /\ seenSlugs' = {} /\ left' = Cells /\ ref' = 0
  /\ UNCHANGED <<tables, form, history, edits>>

\* The loops go through the cells in the order of the file, which does not matter.
IsFirst(x) == left # {} /\ x = CHOOSE y \in left : TRUE

\* Mutant of HasPrice: cells without a price are not skipped.
AnyCell(x) == x \in left

HasPrice(x) == file.vente[x] # Null

\* One cell of the file, skipped when it has no price.
UpsertCell(x) ==
  /\ file # None /\ ref = 0 /\ IsFirst(x)
  /\ left' = left \ {x}
  /\ \/ /\ ~HasPrice(x)
        /\ UNCHANGED <<newCell, cellObjs>>
     \/ /\ HasPrice(x)
        /\ newCell' = Put(newCell, x, file.vente[x])
        /\ cellObjs' = cellObjs \cup {x}
  /\ UNCHANGED <<tables, file, clear, newProduct, newVariant, seenSlugs, ref, form, history, counts>>

\* r is the next reference of the file.
IsNext(r) ==
  /\ file # None /\ left = {}
  /\ r \in Listed(file) /\ r > ref
  /\ \A q \in Listed(file) : q > ref => q >= r

UpsertProduct(r) ==
  /\ IsNext(r)
  /\ ~SlugIsTaken(r)
  /\ newProduct' = Put(newProduct, r, [schedule |-> file.schedule[r], slug |-> UniqSlug(r)])
  /\ seenSlugs' = seenSlugs \cup {UniqSlug(r)}
  /\ ref' = r
  /\ left' = IF file.schedule[r] = Quote THEN {} ELSE {file.schedule[r]} \X Keys
  /\ UNCHANGED <<tables, file, clear, newCell, newVariant, cellObjs, form, history, counts>>

\* The variant of a cell, with the cell's price, on sale again if it was not.
UpsertVariant(x) ==
  LET found == CellOf(x[1], x[2]) IN
  /\ file # None /\ ref # 0 /\ IsFirst(x)
  /\ left' = left \ {x}
  /\ \/ /\ found = None
        /\ UNCHANGED newVariant
     \/ /\ found # None
        /\ newVariant' = Put(newVariant, <<ref, x[2]>>,
                             [code |-> found[1], price |-> newCell[found], active |-> TRUE])
  /\ UNCHANGED <<tables, file, clear, newCell, newProduct, cellObjs, seenSlugs, ref, form, history, counts>>

TransactionEnds ==
  /\ file' = None /\ clear' = FALSE
  /\ newCell' = Untouched /\ newProduct' = Untouched /\ newVariant' = Untouched
  /\ cellObjs' = {} /\ seenSlugs' = {} /\ left' = {} /\ ref' = 0

OfferedBy(f, x) ==
  LET code == f.schedule[x[1]]
  IN IF code \in Codes THEN {f.vente[<<code, x[2]>>]} \ {Null} ELSE {}

\* The form of a row that is gone cannot be saved: so is its product.
ImportCommits ==
  /\ file # None /\ left = {}
  /\ \A r \in Listed(file) : r <= ref
  /\ cell' = Over(cell, newCell)
  /\ product' = Over(product, newProduct)
  /\ variant' = Over(variant, newVariant)
  /\ form' = IF clear THEN None ELSE form
  /\ calm' = [file |-> file, clear |-> clear]
  /\ offered' = [x \in Refs \X Keys |-> offered[x] \cup OfferedBy(file, x)]
  /\ edited' = edited \ DOMAIN newVariant
  /\ cleared' = clear
  /\ TransactionEnds
  /\ UNCHANGED counts

\* Mutant of Rollback: the command runs without transaction.atomic.
KeepWrites ==
  /\ cell' = Over(cell, newCell)
  /\ product' = Over(product, newProduct)
  /\ variant' = Over(variant, newVariant)

Rollback == UNCHANGED tables

\* A slug that another row holds, or the death of the container.
ImportFails ==
  /\ file # None
  /\ Rollback
  /\ TransactionEnds
  /\ UNCHANGED <<form, history, counts>>

-----------------------------------------------------------------------------
(***************************************************************************)
(* The administrator's list of variants.                                   *)
(***************************************************************************)
OpenForm(r, k) ==
  /\ form = None /\ edits < MaxEdits
  /\ variant[<<r, k>>] # None
  /\ form' = [at |-> <<r, k>>, row |-> variant[<<r, k>>]]
  /\ UNCHANGED <<tables, file, clear, written, progress, history, counts>>

\* save() writes every column: price and is_active as submitted, price_cell as read.
SaveForm(price, active) ==
  /\ form # None /\ edits < MaxEdits
  /\ edits' = edits + 1
  /\ form.at \notin DOMAIN newVariant
  /\ variant' = [variant EXCEPT ![form.at] =
                   [code |-> form.row.code, price |-> price, active |-> active]]
  /\ form' = None
  /\ calm' = None
  /\ edited' = edited \cup {form.at}
  /\ UNCHANGED <<cell, product, file, clear, written, progress, offered, cleared, imports>>

-----------------------------------------------------------------------------
Next ==
  \/ \E f \in Files, c \in BOOLEAN : StartImport(f, c)
  \/ \E x \in Cells : UpsertCell(x)
  \/ \E r \in Refs : UpsertProduct(r)
  \/ \E x \in Cells : UpsertVariant(x)
  \/ ImportCommits
  \/ ImportFails
  \/ \E r \in Refs, k \in Keys : OpenForm(r, k)
  \/ \E price \in Prices \cup {Null}, active \in BOOLEAN : SaveForm(price, active)

Spec == Init /\ [][Next]_vars

-----------------------------------------------------------------------------
(***************************************************************************)
(* Properties.                                                             *)
(***************************************************************************)
\* Unless the administrator set it, a variant has a price that a grid gave to its own reference
\* and key, whatever schedules came, went and shared keys since (import_price_grid.py:248-260).
PricesAreFromTheirGrid ==
  \A x \in Refs \X Keys :
    variant[x] # None /\ x \notin edited => variant[x].price \in offered[x]

\* As long as the last import was with --clear, the tables agree with each other: a variant is of
\* the schedule that its product has, in particular a product sold on quotation has none, and its
\* price is that of its cell unless the administrator set it (import_price_grid.py:225-265).
TablesAgree ==
  cleared => \A x \in Refs \X Keys : variant[x] # None =>
    /\ product[x[1]] # None /\ product[x[1]].schedule = variant[x].code
    /\ x \notin edited => variant[x].price = cell[<<variant[x].code, x[2]>>]

\* A file that was imported is imported again without effect, unless a variant was edited in
\* between, and neither then nor with --clear is there a clash of slugs
\* (import_price_grid.py:212-236: slugs start afresh each time).
Again == file # None /\ calm # None /\ calm.file = file /\ (clear => calm.clear)
ImportIsRepeatable ==
  /\ [][ImportCommits /\ Again => UNCHANGED tables]_vars
  /\ [](Again \/ clear => \A r \in Refs : IsNext(r) => ~SlugIsTaken(r))

\* The import of many statements, failing or not, among edits that overlap it, amounts to the
\* one-step import of Catalogue (import_price_grid.py:107).
Abstract == INSTANCE Catalogue
ImplementsCatalogue == Abstract!Spec
=============================================================================
