-------------------------- MODULE PriceGridProofs --------------------------
(***************************************************************************)
(* Proofs about PriceGrid, for all references, schedules and files.        *)
(***************************************************************************)
EXTENDS PriceGrid, FiniteSetTheorems, TLAPS

-----------------------------------------------------------------------------
(***************************************************************************)
(* The inductive invariant: what the transaction has written so far is     *)
(* exactly what Catalogue makes of the part of the file that is done.      *)
(***************************************************************************)
\* The references up to one of them, and those among them that share the slug of r.
Done(f, upto)         == {q \in Listed(f) : q <= upto}
Namesakes(f, upto, r) == {q \in Done(f, upto) : SlugBase[q] = SlugBase[r]}

\* The variants that are made when the cells in rest are left of the loop of the last of them.
Made(f, upto, rest) ==
  {x \in Refs \X Keys :
     /\ Abstract!IsSold(f, x[1], x[2])
     /\ x[1] < upto \/ (x[1] = upto /\ <<f.schedule[upto], x[2]>> \notin rest)}

\* The rows of a file, as Catalogue has them.
ProductIn(f, r) == [schedule |-> f.schedule[r], slug |-> Abstract!Slug(f, r)]
VariantIn(f, x) == [code |-> f.schedule[x[1]], active |-> TRUE,
                    price |-> f.vente[<<f.schedule[x[1]], x[2]>>]]

CellsAreWritten ==
  file # None =>
    /\ cellObjs = {x \in Cells : HasPrice(x) /\ (ref = 0 => x \notin left)}
    /\ newCell = [x \in IF clear THEN Cells ELSE cellObjs |->
                    IF x \in cellObjs THEN file.vente[x] ELSE None]

ProductsAreWritten ==
  file # None =>
    newProduct = [r \in IF clear THEN Refs ELSE Done(file, ref) |->
                    IF r \in Done(file, ref) THEN ProductIn(file, r) ELSE None]

VariantsAreWritten ==
  file # None =>
    newVariant = [x \in IF clear THEN Refs \X Keys ELSE Made(file, ref, left) |->
                    IF x \in Made(file, ref, left) THEN VariantIn(file, x) ELSE None]

\* The loops are at a reference of the file, and at cells of its schedule.
LoopsAreOnCourse ==
  file # None =>
    /\ ref = 0 \/ ref \in Listed(file)
    /\ ref # 0 => \A x \in left : x[1] = file.schedule[ref]

\* Of each slug the numbers seen are one up to the number of references that have it.
SlugsAreCounted ==
  file # None =>
    /\ IsFiniteSet(seenSlugs)
    /\ \A q \in Done(file, ref) : Abstract!Slug(file, q) \in seenSlugs
    /\ \A r \in Refs :
         {s \in seenSlugs : s[1] = SlugBase[r]} = {SlugBase[r]} \X (1..Cardinality(Namesakes(file, ref, r)))

\* The unique index on Product.slug.
Distinct(table) ==
  \A q, r \in Refs : q # r /\ table[q] # None /\ table[r] # None => table[q].slug # table[r].slug

SlugsAreUnique ==
  Distinct(product) /\ (file # None => Distinct(Over(product, newProduct)))

\* While nothing was edited, the tables are as the last import left them.
CalmIsAsImported ==
  calm # None =>
    /\ calm.file \in Files
    /\ \A x \in Cells :
         /\ calm.file.vente[x] # Null => cell[x] = calm.file.vente[x]
         /\ calm.file.vente[x] = Null /\ calm.clear => cell[x] = None
    /\ \A r \in Refs :
         /\ r \in Listed(calm.file) => product[r] = ProductIn(calm.file, r)
         /\ r \notin Listed(calm.file) /\ calm.clear => product[r] = None
    /\ \A x \in Refs \X Keys :
         /\ Abstract!IsSold(calm.file, x[1], x[2]) => variant[x] = VariantIn(calm.file, x)
         /\ ~Abstract!IsSold(calm.file, x[1], x[2]) /\ calm.clear => variant[x] = None

\* The row in the form is of a variant that is there, and of its schedule if nothing else can be.
FormIsARow ==
  form # None =>
    /\ form.at \in Refs \X Keys /\ form.row \in Variant
    /\ variant[form.at] # None
    /\ cleared => variant[form.at].code = form.row.code

TransactionIsOnCourse ==
  /\ CellsAreWritten /\ ProductsAreWritten /\ VariantsAreWritten
  /\ LoopsAreOnCourse /\ SlugsAreCounted

TablesAreOnCourse ==
  /\ PricesAreFromTheirGrid /\ TablesAgree /\ CalmIsAsImported /\ FormIsARow

IInv == TypeOK /\ TransactionIsOnCourse /\ SlugsAreUnique /\ TablesAreOnCourse

-----------------------------------------------------------------------------
(***************************************************************************)
(* Tables, files and rows.                                                 *)
(***************************************************************************)
LEMMA FileShape ==
  ASSUME NEW f \in Files
  PROVE  /\ f # None
         /\ f.schedule \in [Refs -> Codes \cup {Quote, Unlisted}]
         /\ f.vente \in [Cells -> Prices \cup {Null}]
  BY FilesAssumption, NoneAssumption DEF Grid

LEMMA RefsAreCounted ==
  ASSUME NEW S, S \subseteq Refs
  PROVE  IsFiniteSet(S) /\ Cardinality(S) \in Nat
  BY RefsAssumption, FS_Subset, FS_CardinalityType

LEMMA ProductInShape ==
  ASSUME NEW f \in Files, NEW r \in Listed(f)
  PROVE  /\ ProductIn(f, r) \in Product /\ ProductIn(f, r) # None
         /\ ProductIn(f, r).schedule = f.schedule[r]
         /\ ProductIn(f, r).slug = Abstract!Slug(f, r)
<1> DEFINE same == {q \in Refs : f.schedule[q] # Unlisted /\ q <= r /\ SlugBase[q] = SlugBase[r]}
<1>1. r \in Refs /\ f.schedule[r] \in Codes \cup {Quote}
  BY FileShape DEF Listed
<1>2. Cardinality(same) \in Nat
  BY RefsAreCounted
<1>3. Abstract!Slug(f, r) = <<SlugBase[r], Cardinality(same)>>
  BY DEF Abstract!Slug, Abstract!Cardinality, Cardinality
<1> HIDE DEF same
<1>4. Abstract!Slug(f, r) \in {SlugBase[q] : q \in Refs} \X Nat
  BY <1>1, <1>2, <1>3
<1>5. ProductIn(f, r) \in Product
  BY <1>1, <1>4 DEF ProductIn, Product
<1> QED BY <1>5, NoneAssumption DEF ProductIn

LEMMA VariantInShape ==
  ASSUME NEW f \in Files, NEW x \in Refs \X Keys, Abstract!IsSold(f, x[1], x[2])
  PROVE  /\ VariantIn(f, x) \in Variant /\ VariantIn(f, x) # None
         /\ VariantIn(f, x).code = f.schedule[x[1]]
         /\ x[1] \in Listed(f)
         /\ <<f.schedule[x[1]], x[2]>> \in Cells
         /\ f.vente[<<f.schedule[x[1]], x[2]>>] \in Prices
         /\ VariantIn(f, x).price = f.vente[<<f.schedule[x[1]], x[2]>>]
         /\ VariantIn(f, x).price \in OfferedBy(f, x)
<1> DEFINE price == f.vente[<<f.schedule[x[1]], x[2]>>]
<1>1. x[1] \in Refs /\ x[2] \in Keys
  OBVIOUS
<1>2. f.schedule[x[1]] \in Codes /\ price # Null
  BY DEF Abstract!IsSold
<1>3. <<f.schedule[x[1]], x[2]>> \in Cells
  BY <1>1, <1>2 DEF Cells
<1>4. price \in Prices
  BY <1>2, <1>3, FileShape
<1>5. x[1] \in Listed(f)
  BY <1>1, <1>2, NamesAssumption DEF Listed
<1>6. price \in OfferedBy(f, x)
  BY <1>2 DEF OfferedBy
<1>7. VariantIn(f, x) = [code |-> f.schedule[x[1]], active |-> TRUE, price |-> price]
  BY DEF VariantIn
<1> HIDE DEF price
<1>8. VariantIn(f, x) \in Variant
  BY <1>2, <1>4, <1>7 DEF Variant
<1>9. VariantIn(f, x) # None
  BY <1>8, NoneAssumption
<1>10. VariantIn(f, x).code = f.schedule[x[1]] /\ VariantIn(f, x).price = price
  BY <1>7
<1> QED BY <1>3, <1>4, <1>5, <1>6, <1>8, <1>9, <1>10 DEF price

\* Before the first reference nothing is done.
LEMMA NothingIsDone ==
  ASSUME NEW f, NEW rest
  PROVE  /\ Done(f, 0) = {} /\ Made(f, 0, rest) = {}
         /\ \A r \in Refs : Namesakes(f, 0, r) = {}
<1>1. \A q \in Refs : q \in Nat /\ q # 0
  BY RefsAssumption
<1>2. Done(f, 0) = {}
  BY <1>1 DEF Done, Listed
<1>3. \A x \in Refs \X Keys : ~(x[1] < 0) /\ x[1] # 0
  BY <1>1
<1>4. Made(f, 0, rest) = {}
  BY <1>3 DEF Made
<1> QED BY <1>2, <1>4 DEF Namesakes

\* What is left alone stays as it must be.
LEMMA TransactionStays ==
  ASSUME TransactionIsOnCourse,
         UNCHANGED <<file, clear, written, progress>>
  PROVE  TransactionIsOnCourse'
<1>2. CellsAreWritten'
  BY DEF TransactionIsOnCourse, CellsAreWritten, HasPrice, written, progress
<1>3. ProductsAreWritten' /\ VariantsAreWritten'
  BY DEF TransactionIsOnCourse, ProductsAreWritten, VariantsAreWritten, written, progress
<1>4. LoopsAreOnCourse'
  BY DEF TransactionIsOnCourse, LoopsAreOnCourse, progress
<1>5. SlugsAreCounted'
  BY DEF TransactionIsOnCourse, SlugsAreCounted, progress
<1> QED BY <1>2, <1>3, <1>4, <1>5 DEF TransactionIsOnCourse

LEMMA TablesStay ==
  ASSUME TablesAreOnCourse,
         UNCHANGED <<tables, form, history>>
  PROVE  TablesAreOnCourse'
  BY DEF TablesAreOnCourse, PricesAreFromTheirGrid, TablesAgree, CalmIsAsImported, FormIsARow,
         tables, history

-----------------------------------------------------------------------------
(***************************************************************************)
(* The steps of the transaction.                                           *)
(***************************************************************************)
LEMMA FirstIsLeft ==
  ASSUME NEW x, IsFirst(x)
  PROVE  x \in left
  BY DEF IsFirst

LEMMA NoFileNoTransaction ==
  ASSUME file' = None
  PROVE  TransactionIsOnCourse'
  BY DEF TransactionIsOnCourse, CellsAreWritten, ProductsAreWritten, VariantsAreWritten,
         LoopsAreOnCourse, SlugsAreCounted

LEMMA StartIsOnCourse ==
  ASSUME NEW f \in Files, NEW c \in BOOLEAN, StartImport(f, c)
  PROVE  TransactionIsOnCourse'
<1>1. /\ file' = f /\ clear' = c /\ ref' = 0 /\ left' = Cells /\ cellObjs' = {} /\ seenSlugs' = {}
      /\ newCell' = Emptied(c, Cells) /\ newProduct' = Emptied(c, Refs)
      /\ newVariant' = Emptied(c, Refs \X Keys)
  BY DEF StartImport
<1>2. Done(f, 0) = {} /\ Made(f, 0, Cells) = {} /\ \A r \in Refs : Namesakes(f, 0, r) = {}
  BY NothingIsDone
<1>3. CellsAreWritten'
  BY <1>1 DEF CellsAreWritten, Emptied, Untouched
<1>4. ProductsAreWritten'
  BY <1>1, <1>2 DEF ProductsAreWritten, Emptied, Untouched
<1>5. VariantsAreWritten'
  BY <1>1, <1>2 DEF VariantsAreWritten, Emptied, Untouched
<1>6. LoopsAreOnCourse'
  BY <1>1 DEF LoopsAreOnCourse
<1>7. IsFiniteSet({}) /\ Cardinality({}) = 0 /\ 1..0 = {}
  BY FS_EmptySet
<1>8. SlugsAreCounted'
  BY <1>1, <1>2, <1>7 DEF SlugsAreCounted
<1> QED BY <1>3, <1>4, <1>5, <1>6, <1>8 DEF TransactionIsOnCourse

LEMMA CellIsOnCourse ==
  ASSUME TypeOK, TransactionIsOnCourse, NEW x \in Cells, UpsertCell(x)
  PROVE  TransactionIsOnCourse'
<1>1. /\ file # None /\ file' = file /\ clear' = clear /\ ref = 0 /\ ref' = 0
      /\ newProduct' = newProduct /\ newVariant' = newVariant /\ seenSlugs' = seenSlugs
      /\ x \in left /\ left' = left \ {x} /\ left \subseteq Cells
  BY FirstIsLeft DEF UpsertCell, TypeOK
<1>2. \A y : HasPrice(y)' <=> HasPrice(y)
  BY <1>1 DEF HasPrice
<1>3. /\ cellObjs = {y \in Cells : HasPrice(y) /\ y \notin left}
      /\ newCell = [y \in IF clear THEN Cells ELSE cellObjs |->
                      IF y \in cellObjs THEN file.vente[y] ELSE None]
  BY <1>1 DEF TransactionIsOnCourse, CellsAreWritten
<1>4. cellObjs' = {y \in Cells : HasPrice(y) /\ y \notin left'}
  BY <1>1, <1>3 DEF UpsertCell
<1>5. newCell' = [y \in IF clear THEN Cells ELSE cellObjs' |->
                    IF y \in cellObjs' THEN file.vente[y] ELSE None]
  <2>1. CASE ~HasPrice(x)
    <3>1. newCell' = newCell /\ cellObjs' = cellObjs
      BY <2>1 DEF UpsertCell
    <3> QED BY <3>1, <1>3
  <2>2. CASE HasPrice(x)
    <3>1. newCell' = Put(newCell, x, file.vente[x]) /\ cellObjs' = cellObjs \cup {x}
      BY <2>2 DEF UpsertCell
    <3> QED BY <3>1, <1>3 DEF Put
  <2> QED BY <2>1, <2>2
<1>6. CellsAreWritten'
  BY <1>1, <1>2, <1>4, <1>5 DEF CellsAreWritten
<1>7. Made(file, 0, left) = {} /\ Made(file, 0, left') = {}
  BY NothingIsDone
<1>8. ProductsAreWritten' /\ VariantsAreWritten'
  BY <1>1, <1>7 DEF TransactionIsOnCourse, ProductsAreWritten, VariantsAreWritten
<1>9. LoopsAreOnCourse' /\ SlugsAreCounted'
  BY <1>1 DEF TransactionIsOnCourse, LoopsAreOnCourse, SlugsAreCounted
<1> QED BY <1>6, <1>8, <1>9 DEF TransactionIsOnCourse

LEMMA VariantIsOnCourse ==
  ASSUME TypeOK, TransactionIsOnCourse, NEW x \in Cells, UpsertVariant(x)
  PROVE  TransactionIsOnCourse'
<1>1. /\ file # None /\ file \in Files /\ file' = file /\ clear' = clear
      /\ ref \in Refs /\ ref # 0 /\ ref' = ref
      /\ newCell' = newCell /\ cellObjs' = cellObjs
      /\ newProduct' = newProduct /\ seenSlugs' = seenSlugs
      /\ x \in left /\ left' = left \ {x}
  BY FirstIsLeft DEF UpsertVariant, TypeOK
<1>2. CellsAreWritten'
  BY <1>1 DEF TransactionIsOnCourse, CellsAreWritten, HasPrice
<1>3. ProductsAreWritten' /\ LoopsAreOnCourse' /\ SlugsAreCounted'
  BY <1>1 DEF TransactionIsOnCourse, ProductsAreWritten, LoopsAreOnCourse, SlugsAreCounted
<1> DEFINE at == <<ref, x[2]>>
<1>4. /\ x = <<file.schedule[ref], x[2]>> /\ at \in Refs \X Keys
      /\ file.schedule[ref] \in Codes
  BY <1>1 DEF TransactionIsOnCourse, LoopsAreOnCourse, Cells
<1>5. CellOf(x[1], x[2]) = IF x \in cellObjs THEN x ELSE None
  BY <1>4 DEF CellOf
<1>6. x # None
  BY NoneAssumption
<1>7. x \in cellObjs <=> Abstract!IsSold(file, ref, x[2])
  BY <1>1, <1>4 DEF TransactionIsOnCourse, CellsAreWritten, HasPrice, Abstract!IsSold
<1>8. \A y \in Refs \X Keys :
        y[1] = ref => (<<file.schedule[ref], y[2]>> = x <=> y = at)
  BY <1>4
<1>9. Made(file, ref, left') =
        IF x \in cellObjs THEN Made(file, ref, left) \cup {at} ELSE Made(file, ref, left)
  BY <1>1, <1>4, <1>7, <1>8 DEF Made
<1>10. newVariant = [y \in IF clear THEN Refs \X Keys ELSE Made(file, ref, left) |->
                       IF y \in Made(file, ref, left) THEN VariantIn(file, y) ELSE None]
  BY <1>1 DEF TransactionIsOnCourse, VariantsAreWritten
<1>11. newVariant' = [y \in IF clear THEN Refs \X Keys ELSE Made(file, ref, left') |->
                        IF y \in Made(file, ref, left') THEN VariantIn(file, y) ELSE None]
  <2>1. CASE x \notin cellObjs
    <3>1. newVariant' = newVariant
      BY <2>1, <1>5, <1>6 DEF UpsertVariant
    <3> QED BY <2>1, <3>1, <1>9, <1>10
  <2>2. CASE x \in cellObjs
    <3>1. newVariant' = Put(newVariant, at, [code |-> x[1], price |-> newCell[x], active |-> TRUE])
      BY <2>2, <1>5, <1>6 DEF UpsertVariant
    <3>2. newCell[x] = file.vente[x]
      BY <2>2, <1>1 DEF TransactionIsOnCourse, CellsAreWritten
    <3>3. VariantIn(file, at) = [code |-> x[1], price |-> newCell[x], active |-> TRUE]
      <4>1. at[1] = ref /\ at[2] = x[2]
        OBVIOUS
      <4>2. file.schedule[ref] = x[1]
        BY <1>4
      <4> HIDE DEF at
      <4>3. file.vente[<<file.schedule[at[1]], at[2]>>] = newCell[x]
        BY <4>1, <3>2, <1>4
      <4> QED BY <4>1, <4>2, <4>3 DEF VariantIn
    <3>4. newVariant' = Put(newVariant, at, VariantIn(file, at))
      BY <3>1, <3>3
    <3> HIDE DEF at
    <3> QED BY <2>2, <3>4, <1>4, <1>9, <1>10 DEF Put
  <2> QED BY <2>1, <2>2
<1>12. VariantsAreWritten'
  BY <1>1, <1>11 DEF VariantsAreWritten
<1> QED BY <1>2, <1>3, <1>12 DEF TransactionIsOnCourse

-----------------------------------------------------------------------------
(***************************************************************************)
(* Slugs.                                                                  *)
(***************************************************************************)
LEMMA NamesakesShape ==
  ASSUME NEW f, NEW upto, NEW r
  PROVE  /\ IsFiniteSet(Namesakes(f, upto, r)) /\ Cardinality(Namesakes(f, upto, r)) \in Nat
         /\ IsFiniteSet(Namesakes(f, upto, r) \cup {r})
         /\ r \notin Namesakes(f, upto, r) =>
              Cardinality(Namesakes(f, upto, r) \cup {r}) = Cardinality(Namesakes(f, upto, r)) + 1
<1>1. Namesakes(f, upto, r) \subseteq Refs
  BY DEF Namesakes, Done, Listed
<1>2. IsFiniteSet(Namesakes(f, upto, r)) /\ Cardinality(Namesakes(f, upto, r)) \in Nat
  BY <1>1, RefsAreCounted
<1> QED BY <1>2, FS_AddElement

\* The first free number after one to m is m + 1.
LEMMA FirstFreeIsNext ==
  ASSUME NEW base, NEW slugs, IsFiniteSet(slugs), NEW m \in Nat,
         {s \in slugs : s[1] = base} = {base} \X (1..m)
  PROVE  FirstFree(base, slugs) = <<base, m + 1>> /\ <<base, m + 1>> \notin slugs
<1> DEFINE numbered == {base} \X (1..m)
<1>1. numbered \subseteq slugs
  OBVIOUS
<1>2. IsFiniteSet(1..m) /\ Cardinality(1..m) = m
  BY FS_Interval
<1>3. IsFiniteSet({base}) /\ Cardinality({base}) = 1
  BY FS_Singleton
<1>4. Cardinality(numbered) = m
  BY <1>2, <1>3, FS_Product
<1>5. Cardinality(slugs) \in Nat /\ m <= Cardinality(slugs)
  BY <1>1, <1>4, FS_Subset, FS_CardinalityType
<1>6. \A n \in Nat : <<base, n>> \in slugs <=> n \in 1..m
  BY <1>1
<1> DEFINE Free == {n \in 1..Cardinality(slugs) + 1 : <<base, n>> \notin slugs}
<1>7. m + 1 \in Free /\ \A n \in Free : m + 1 <= n /\ n \in Nat
  BY <1>5, <1>6
<1>8. (CHOOSE n \in Free : \A k \in Free : n <= k) = m + 1
  <2> HIDE DEF Free
  <2>1. \A n \in Free : (\A k \in Free : n <= k) => n = m + 1
    BY <1>7
  <2> QED BY <1>7, <2>1
<1>9. FirstFree(base, slugs) = <<base, m + 1>>
  BY <1>8 DEF FirstFree
<1> QED BY <1>6, <1>9

\* The next reference is the one after those that are done.
LEMMA NextIsAfter ==
  ASSUME TypeOK, NEW r \in Refs, IsNext(r)
  PROVE  /\ r \notin Done(file, ref) /\ Done(file, r) = Done(file, ref) \cup {r}
         /\ \A p \in Refs : Namesakes(file, r, p) =
              IF SlugBase[r] = SlugBase[p] THEN Namesakes(file, ref, p) \cup {r}
                                           ELSE Namesakes(file, ref, p)
<1>1. ref \in Nat /\ r \in Nat /\ r > ref /\ r \in Listed(file)
  BY RefsAssumption DEF TypeOK, IsNext
<1>2. \A q \in Listed(file) : q \in Nat /\ (q > ref => q >= r)
  BY RefsAssumption DEF Listed, IsNext
<1>3. r \notin Done(file, ref) /\ Done(file, r) = Done(file, ref) \cup {r}
  <2>1. \A q \in Listed(file) : q <= r <=> q <= ref \/ q = r
    BY <1>1, <1>2
  <2>2. ~(r <= ref)
    BY <1>1
  <2>3. r \notin Done(file, ref)
    BY <2>2 DEF Done
  <2>4. Done(file, r) = Done(file, ref) \cup {r}
    BY <1>1, <2>1 DEF Done
  <2> QED BY <2>3, <2>4
<1> QED BY <1>3 DEF Namesakes

LEMMA NextSlug ==
  ASSUME TypeOK, TransactionIsOnCourse, NEW r \in Refs, IsNext(r)
  PROVE  /\ UniqSlug(r) = <<SlugBase[r], Cardinality(Namesakes(file, ref, r)) + 1>>
         /\ UniqSlug(r) = Abstract!Slug(file, r)
         /\ UniqSlug(r) \notin seenSlugs
<1> DEFINE m == Cardinality(Namesakes(file, ref, r))
           same == {q \in Refs : file.schedule[q] # Unlisted /\ q <= r /\ SlugBase[q] = SlugBase[r]}
<1>1. file # None /\ file \in Files
  BY DEF IsNext, TypeOK
<1>2. m \in Nat
  BY NamesakesShape
<1>3. /\ IsFiniteSet(seenSlugs)
      /\ {s \in seenSlugs : s[1] = SlugBase[r]} = {SlugBase[r]} \X (1..m)
  BY <1>1 DEF TransactionIsOnCourse, SlugsAreCounted
<1>4. r \notin Namesakes(file, ref, r) /\ Namesakes(file, r, r) = Namesakes(file, ref, r) \cup {r}
  BY NextIsAfter DEF Namesakes
<1>5. same = Namesakes(file, r, r)
  BY DEF Namesakes, Done, Listed
<1>6. Cardinality(same) = m + 1
  <2>1. same = Namesakes(file, ref, r) \cup {r}
    BY <1>4, <1>5
  <2>2. Cardinality(Namesakes(file, ref, r) \cup {r}) = Cardinality(Namesakes(file, ref, r)) + 1
    BY <1>4, NamesakesShape
  <2> HIDE DEF same
  <2> QED BY <2>1, <2>2
<1>7. Abstract!Slug(file, r) = <<SlugBase[r], Cardinality(same)>>
  BY DEF Abstract!Slug, Abstract!Cardinality, Cardinality
<1> HIDE DEF m, same
<1>8. UniqSlug(r) = <<SlugBase[r], m + 1>> /\ UniqSlug(r) \notin seenSlugs
  <2>1. /\ FirstFree(SlugBase[r], seenSlugs) = <<SlugBase[r], m + 1>>
        /\ <<SlugBase[r], m + 1>> \notin seenSlugs
    BY <1>2, <1>3, FirstFreeIsNext, Zenon
  <2> QED BY <2>1 DEF UniqSlug
<1> QED BY <1>6, <1>7, <1>8 DEF m

LEMMA ProductIsOnCourse ==
  ASSUME TypeOK, TransactionIsOnCourse, NEW r \in Refs, UpsertProduct(r)
  PROVE  TransactionIsOnCourse'
<1>1. /\ IsNext(r) /\ file # None /\ file \in Files /\ left = {} /\ r \in Listed(file)
      /\ file' = file /\ clear' = clear /\ ref' = r /\ r # 0
      /\ newCell' = newCell /\ cellObjs' = cellObjs /\ newVariant' = newVariant
      /\ seenSlugs' = seenSlugs \cup {UniqSlug(r)}
      /\ left' = IF file.schedule[r] = Quote THEN {} ELSE {file.schedule[r]} \X Keys
  BY RefsAssumption DEF UpsertProduct, IsNext, TypeOK
<1>2. Done(file, r) = Done(file, ref) \cup {r}
  BY <1>1, NextIsAfter
<1>3. CellsAreWritten'
  BY <1>1 DEF TransactionIsOnCourse, CellsAreWritten, HasPrice
<1>4. ProductsAreWritten'
  <2>1. newProduct' = Put(newProduct, r, ProductIn(file, r))
    BY <1>1, NextSlug DEF UpsertProduct, ProductIn
  <2>2. newProduct = [q \in IF clear THEN Refs ELSE Done(file, ref) |->
                        IF q \in Done(file, ref) THEN ProductIn(file, q) ELSE None]
    BY <1>1 DEF TransactionIsOnCourse, ProductsAreWritten
  <2>3. newProduct' = [q \in IF clear THEN Refs ELSE Done(file, r) |->
                         IF q \in Done(file, r) THEN ProductIn(file, q) ELSE None]
    BY <2>1, <2>2, <1>2 DEF Put
  <2> QED BY <1>1, <2>3 DEF ProductsAreWritten
<1>5. LoopsAreOnCourse'
  BY <1>1 DEF LoopsAreOnCourse
<1>6. Made(file, r, left') = Made(file, ref, left)
  <2>1. ref \in Nat /\ \A q \in Refs : q \in Nat
    BY RefsAssumption DEF TypeOK
  <2>2. \A x \in Refs \X Keys : Abstract!IsSold(file, x[1], x[2]) =>
          /\ x[1] <= r => x[1] = r \/ x[1] <= ref
          /\ x[1] <= ref => x[1] < r
    <3> SUFFICES ASSUME NEW x \in Refs \X Keys, Abstract!IsSold(file, x[1], x[2])
                 PROVE  /\ x[1] <= r => x[1] = r \/ x[1] <= ref
                        /\ x[1] <= ref => x[1] < r
      OBVIOUS
    <3>1. x[1] \in Listed(file)
      BY <1>1, VariantInShape
    <3>2. r > ref /\ (x[1] > ref => x[1] >= r)
      BY <1>1, <3>1 DEF IsNext
    <3> QED BY <2>1, <3>2
  <2>3. \A x \in Refs \X Keys : Abstract!IsSold(file, x[1], x[2]) /\ x[1] = r =>
          <<file.schedule[r], x[2]>> \in left'
    BY <1>1, NamesAssumption DEF Abstract!IsSold
  <2> QED BY <1>1, <2>1, <2>2, <2>3 DEF Made
<1>7. VariantsAreWritten'
  BY <1>1, <1>6 DEF TransactionIsOnCourse, VariantsAreWritten
<1>8. SlugsAreCounted'
  <2>1. UniqSlug(r) = <<SlugBase[r], Cardinality(Namesakes(file, ref, r)) + 1>>
        /\ UniqSlug(r) = Abstract!Slug(file, r)
    BY <1>1, NextSlug
  <2>2. /\ IsFiniteSet(seenSlugs)
        /\ \A q \in Done(file, ref) : Abstract!Slug(file, q) \in seenSlugs
        /\ \A p \in Refs : {s \in seenSlugs : s[1] = SlugBase[p]}
                             = {SlugBase[p]} \X (1..Cardinality(Namesakes(file, ref, p)))
    BY <1>1 DEF TransactionIsOnCourse, SlugsAreCounted
  <2>3. IsFiniteSet(seenSlugs')
    BY <1>1, <2>2, FS_AddElement
  <2>4. \A q \in Done(file, r) : Abstract!Slug(file, q) \in seenSlugs'
    BY <1>1, <1>2, <2>1, <2>2
  <2>5. ASSUME NEW p \in Refs
        PROVE  {s \in seenSlugs' : s[1] = SlugBase[p]}
                 = {SlugBase[p]} \X (1..Cardinality(Namesakes(file, r, p)))
    <3> DEFINE m == Cardinality(Namesakes(file, ref, p))
    <3>1. m \in Nat
      BY NamesakesShape
    <3>2. CASE SlugBase[r] = SlugBase[p]
      <4>1. Namesakes(file, ref, r) = Namesakes(file, ref, p)
        BY <3>2 DEF Namesakes
      <4>2. Namesakes(file, r, p) = Namesakes(file, ref, r) \cup {r} /\ r \notin Namesakes(file, ref, r)
        BY <1>1, <3>2, <4>1, NextIsAfter DEF Namesakes
      <4>3. Cardinality(Namesakes(file, r, p)) = m + 1
        BY <4>1, <4>2, NamesakesShape
      <4>4. UniqSlug(r) = <<SlugBase[p], m + 1>>
        BY <2>1, <3>2, <4>1
      <4> HIDE DEF m
      <4>5. {s \in seenSlugs : s[1] = SlugBase[p]} = {SlugBase[p]} \X (1..m)
        BY <2>2 DEF m
      <4>6. {SlugBase[p]} \X (1..m + 1) = ({SlugBase[p]} \X (1..m)) \cup {<<SlugBase[p], m + 1>>}
        BY <3>1
      <4>7. {s \in seenSlugs' : s[1] = SlugBase[p]}
              = {s \in seenSlugs : s[1] = SlugBase[p]} \cup {UniqSlug(r)}
        BY <1>1, <4>4
      <4> QED BY <4>3, <4>4, <4>5, <4>6, <4>7
    <3>3. CASE SlugBase[r] # SlugBase[p]
      <4>1. Namesakes(file, r, p) = Namesakes(file, ref, p)
        BY <1>1, <3>3, NextIsAfter
      <4>2. {s \in seenSlugs' : s[1] = SlugBase[p]} = {s \in seenSlugs : s[1] = SlugBase[p]}
        BY <1>1, <2>1, <3>3
      <4> QED BY <4>1, <4>2, <2>2
    <3> QED BY <3>2, <3>3
  <2> QED BY <1>1, <2>3, <2>4, <2>5 DEF SlugsAreCounted
<1> QED BY <1>3, <1>4, <1>5, <1>7, <1>8 DEF TransactionIsOnCourse

-----------------------------------------------------------------------------
(***************************************************************************)
(* The commit.                                                             *)
(***************************************************************************)
\* At the end of the file everything in it is done.
LEMMA AllIsDone ==
  ASSUME TypeOK, TransactionIsOnCourse, ImportCommits
  PROVE  /\ file \in Files /\ file # None
         /\ newCell = [x \in IF clear THEN Cells ELSE {y \in Cells : file.vente[y] # Null} |->
                         IF file.vente[x] # Null THEN file.vente[x] ELSE None]
         /\ newProduct = [r \in IF clear THEN Refs ELSE Listed(file) |->
                            IF r \in Listed(file) THEN ProductIn(file, r) ELSE None]
         /\ newVariant =
              [x \in IF clear THEN Refs \X Keys
                              ELSE {y \in Refs \X Keys : Abstract!IsSold(file, y[1], y[2])} |->
                 IF Abstract!IsSold(file, x[1], x[2]) THEN VariantIn(file, x) ELSE None]
<1>1. /\ file # None /\ file \in Files /\ left = {}
      /\ \A r \in Listed(file) : r <= ref
  BY DEF ImportCommits, TypeOK
<1>2. cellObjs = {y \in Cells : file.vente[y] # Null}
  BY <1>1 DEF TransactionIsOnCourse, CellsAreWritten, HasPrice
<1>3. newCell = [x \in IF clear THEN Cells ELSE {y \in Cells : file.vente[y] # Null} |->
                   IF file.vente[x] # Null THEN file.vente[x] ELSE None]
  <2>1. newCell = [x \in IF clear THEN Cells ELSE cellObjs |->
                     IF x \in cellObjs THEN file.vente[x] ELSE None]
    BY <1>1 DEF TransactionIsOnCourse, CellsAreWritten
  <2> QED BY <2>1, <1>2
<1>4. Done(file, ref) = Listed(file)
  BY <1>1 DEF Done
<1>5. newProduct = [r \in IF clear THEN Refs ELSE Listed(file) |->
                      IF r \in Listed(file) THEN ProductIn(file, r) ELSE None]
  BY <1>1, <1>4 DEF TransactionIsOnCourse, ProductsAreWritten
<1>6. Made(file, ref, left) = {y \in Refs \X Keys : Abstract!IsSold(file, y[1], y[2])}
  <2>1. ref \in Nat /\ \A q \in Refs : q \in Nat
    BY RefsAssumption DEF TypeOK
  <2>2. \A x \in Refs \X Keys : Abstract!IsSold(file, x[1], x[2]) => x[1] \in Listed(file)
    BY <1>1, VariantInShape
  <2>3. \A x \in Refs \X Keys : Abstract!IsSold(file, x[1], x[2]) => x[1] < ref \/ x[1] = ref
    BY <1>1, <2>1, <2>2
  <2> QED BY <1>1, <2>3 DEF Made
<1>7. newVariant = [x \in IF clear THEN Refs \X Keys ELSE Made(file, ref, left) |->
                      IF x \in Made(file, ref, left) THEN VariantIn(file, x) ELSE None]
  BY <1>1 DEF TransactionIsOnCourse, VariantsAreWritten
<1> QED BY <1>1, <1>3, <1>5, <1>6, <1>7

\* The rows that a commit leaves are those of Catalogue.
LEMMA CommitIsImport ==
  ASSUME TypeOK, TransactionIsOnCourse, ImportCommits
  PROVE  Abstract!Import(file, clear)
<1>1. /\ DOMAIN cell = Cells /\ DOMAIN product = Refs /\ DOMAIN variant = Refs \X Keys
      /\ clear \in BOOLEAN
  BY DEF TypeOK
<1>2. /\ cell' = Over(cell, newCell) /\ product' = Over(product, newProduct)
      /\ variant' = Over(variant, newVariant)
  BY DEF ImportCommits
<1>3. cell' = [x \in Codes \X Keys |->
                 IF file.vente[x] # Null THEN file.vente[x]
                 ELSE IF clear THEN None ELSE cell[x]]
  BY <1>1, <1>2, AllIsDone DEF Over, Cells
<1>4. product' = [r \in Refs |->
                    IF file.schedule[r] # Unlisted
                    THEN [schedule |-> file.schedule[r], slug |-> Abstract!Slug(file, r)]
                    ELSE IF clear THEN None ELSE product[r]]
  <2>1. product' = [r \in Refs |->
                      IF r \in Listed(file) THEN ProductIn(file, r)
                      ELSE IF clear THEN None ELSE product[r]]
    BY <1>1, <1>2, AllIsDone DEF Over, Listed
  <2> QED BY <2>1 DEF Listed, ProductIn
<1>5. variant' = [x \in Refs \X Keys |->
                    IF Abstract!IsSold(file, x[1], x[2])
                    THEN [code |-> file.schedule[x[1]], active |-> TRUE,
                          price |-> file.vente[<<file.schedule[x[1]], x[2]>>]]
                    ELSE IF clear THEN None ELSE variant[x]]
  <2>1. variant' = [x \in Refs \X Keys |->
                      IF Abstract!IsSold(file, x[1], x[2]) THEN VariantIn(file, x)
                      ELSE IF clear THEN None ELSE variant[x]]
    BY <1>1, <1>2, AllIsDone DEF Over
  <2> QED BY <2>1 DEF VariantIn
<1> QED BY <1>3, <1>4, <1>5 DEF Abstract!Import

LEMMA ImportedRows ==
  ASSUME NEW f \in Files, NEW c \in BOOLEAN, Abstract!Import(f, c)
  PROVE  /\ \A x \in Cells : cell'[x] = IF f.vente[x] # Null THEN f.vente[x]
                                        ELSE IF c THEN None ELSE cell[x]
         /\ \A r \in Refs : product'[r] = IF r \in Listed(f) THEN ProductIn(f, r)
                                          ELSE IF c THEN None ELSE product[r]
         /\ \A x \in Refs \X Keys : variant'[x] = IF Abstract!IsSold(f, x[1], x[2])
                                                  THEN VariantIn(f, x)
                                                  ELSE IF c THEN None ELSE variant[x]
         /\ DOMAIN cell' = Cells /\ DOMAIN product' = Refs /\ DOMAIN variant' = Refs \X Keys
<1>1. DOMAIN cell' = Cells /\ \A x \in Cells : cell'[x] = IF f.vente[x] # Null THEN f.vente[x]
                                        ELSE IF c THEN None ELSE cell[x]
  BY DEF Abstract!Import, Cells
<1>2. DOMAIN product' = Refs
      /\ \A r \in Refs : product'[r] = IF r \in Listed(f) THEN ProductIn(f, r)
                                          ELSE IF c THEN None ELSE product[r]
  BY DEF Abstract!Import, ProductIn, Listed
<1>3. DOMAIN variant' = Refs \X Keys
      /\ \A x \in Refs \X Keys : variant'[x] = IF Abstract!IsSold(f, x[1], x[2])
                                                  THEN VariantIn(f, x)
                                                  ELSE IF c THEN None ELSE variant[x]
  BY DEF Abstract!Import, VariantIn
<1> QED BY <1>1, <1>2, <1>3

LEMMA CommitTypes ==
  ASSUME TypeOK, TransactionIsOnCourse, ImportCommits
  PROVE  TypeOK'
<1>1. file \in Files /\ clear \in BOOLEAN /\ Abstract!Import(file, clear)
  BY CommitIsImport DEF TypeOK, ImportCommits
<1>2. \A x \in Cells : cell'[x] \in Prices \cup {None}
  BY <1>1, ImportedRows, FileShape DEF TypeOK
<1>3. \A r \in Refs : product'[r] \in Product \cup {None}
  BY <1>1, ImportedRows, ProductInShape DEF TypeOK
<1>4. \A x \in Refs \X Keys : variant'[x] \in Variant \cup {None}
  <2> TAKE x \in Refs \X Keys
  <2>1. CASE Abstract!IsSold(file, x[1], x[2])
    <3>1. variant'[x] = VariantIn(file, x)
      BY <2>1, <1>1, ImportedRows
    <3>2. VariantIn(file, x) \in Variant
      BY <2>1, <1>1, VariantInShape
    <3> QED BY <3>1, <3>2
  <2>2. CASE ~Abstract!IsSold(file, x[1], x[2])
    <3>1. variant'[x] = None \/ variant'[x] = variant[x]
      BY <2>2, <1>1, ImportedRows
    <3> QED BY <3>1 DEF TypeOK
  <2> QED BY <2>1, <2>2
<1>5. /\ cell' \in [Cells -> Prices \cup {None}]
      /\ product' \in [Refs -> Product \cup {None}]
      /\ variant' \in [Refs \X Keys -> Variant \cup {None}]
  <2>1. cell' \in [Cells -> Prices \cup {None}]
    BY <1>2 DEF ImportCommits, Over, TypeOK
  <2>2. product' \in [Refs -> Product \cup {None}]
    BY <1>3 DEF ImportCommits, Over, TypeOK
  <2>3. variant' \in [Refs \X Keys -> Variant \cup {None}]
    BY <1>4 DEF ImportCommits, Over, TypeOK
  <2> QED BY <2>1, <2>2, <2>3
<1>6. offered' \in [Refs \X Keys -> SUBSET Prices]
  <2>1. \A x \in Refs \X Keys : OfferedBy(file, x) \subseteq Prices
    BY <1>1, FileShape DEF OfferedBy, Cells
  <2> QED BY <2>1 DEF ImportCommits, TypeOK
<1>7. file' \in Files \cup {None} /\ clear' \in BOOLEAN /\ cleared' \in BOOLEAN
      /\ cellObjs' \subseteq Cells /\ left' \subseteq Cells /\ ref' \in Refs \cup {0}
      /\ imports' = imports /\ edits' = edits /\ edited' \subseteq Refs \X Keys
  BY <1>1 DEF ImportCommits, TransactionEnds, counts, TypeOK
<1> QED BY <1>5, <1>6, <1>7 DEF TypeOK

LEMMA CommitLeavesTablesOnCourse ==
  ASSUME TypeOK, TransactionIsOnCourse, TablesAreOnCourse, ImportCommits
  PROVE  TablesAreOnCourse'
<1>1. file \in Files /\ file # None /\ clear \in BOOLEAN /\ Abstract!Import(file, clear)
  BY CommitIsImport DEF TypeOK, ImportCommits
<1>2. /\ calm' = [file |-> file, clear |-> clear] /\ cleared' = clear
      /\ form' = IF clear THEN None ELSE form
      /\ edited' = edited \ DOMAIN newVariant
      /\ \A x \in Refs \X Keys : offered'[x] = offered[x] \cup OfferedBy(file, x)
  BY DEF ImportCommits
<1>3. PricesAreFromTheirGrid'
  <2> SUFFICES ASSUME NEW x \in Refs \X Keys, variant'[x] # None, x \notin edited'
               PROVE  variant'[x].price \in offered'[x]
    BY DEF PricesAreFromTheirGrid
  <2>1. CASE Abstract!IsSold(file, x[1], x[2])
    <3>1. variant'[x] = VariantIn(file, x) /\ VariantIn(file, x).price \in OfferedBy(file, x)
      <4>1. variant'[x] = VariantIn(file, x)
        BY <2>1, <1>1, ImportedRows
      <4>2. VariantIn(file, x).price \in OfferedBy(file, x)
        BY <2>1, <1>1, VariantInShape
      <4> QED BY <4>1, <4>2
    <3> QED BY <3>1, <1>2
  <2>2. CASE ~Abstract!IsSold(file, x[1], x[2])
    <3>1. ~clear /\ variant'[x] = variant[x]
      BY <2>2, <1>1, ImportedRows
    <3>2. x \notin DOMAIN newVariant
      BY <3>1, <2>2, AllIsDone
    <3>3. x \notin edited
      BY <3>2, <1>2
    <3> QED BY <3>1, <3>3, <1>2 DEF TablesAreOnCourse, PricesAreFromTheirGrid
  <2> QED BY <2>1, <2>2
<1>4. TablesAgree'
  <2> SUFFICES ASSUME clear, NEW x \in Refs \X Keys, variant'[x] # None
               PROVE  /\ product'[x[1]] # None /\ product'[x[1]].schedule = variant'[x].code
                      /\ variant'[x].price = cell'[<<variant'[x].code, x[2]>>]
    BY <1>2 DEF TablesAgree
  <2>1. Abstract!IsSold(file, x[1], x[2]) /\ variant'[x] = VariantIn(file, x)
    BY <1>1, ImportedRows
  <2>2. x[1] \in Refs /\ x[1] \in Listed(file) /\ product'[x[1]] = ProductIn(file, x[1])
    BY <2>1, <1>1, ImportedRows, VariantInShape
  <2>3. product'[x[1]] # None /\ product'[x[1]].schedule = file.schedule[x[1]]
    BY <2>2, <1>1, ProductInShape
  <2> DEFINE at == <<file.schedule[x[1]], x[2]>>
  <2>4. /\ variant'[x].code = file.schedule[x[1]]
        /\ at \in Cells /\ variant'[x].price = file.vente[at]
    BY <2>1, <1>1, VariantInShape
  <2>5. file.vente[at] # Null
    BY <2>1 DEF Abstract!IsSold
  <2>6. cell'[at] = file.vente[at]
    BY <2>4, <2>5, <1>1, ImportedRows
  <2> QED BY <2>3, <2>4, <2>6
<1>5. CalmIsAsImported'
  <2>1. calm'.file = file /\ calm'.clear = clear
    BY <1>2
  <2>2. \A x \in Cells :
          /\ file.vente[x] # Null => cell'[x] = file.vente[x]
          /\ file.vente[x] = Null /\ clear => cell'[x] = None
    BY <1>1, ImportedRows
  <2>3. \A r \in Refs :
          /\ r \in Listed(file) => product'[r] = ProductIn(file, r)
          /\ r \notin Listed(file) /\ clear => product'[r] = None
    BY <1>1, ImportedRows
  <2>4. \A x \in Refs \X Keys :
          /\ Abstract!IsSold(file, x[1], x[2]) => variant'[x] = VariantIn(file, x)
          /\ ~Abstract!IsSold(file, x[1], x[2]) /\ clear => variant'[x] = None
    BY <1>1, ImportedRows
  <2> QED BY <1>1, <2>1, <2>2, <2>3, <2>4 DEF CalmIsAsImported
<1>6. FormIsARow'
  <2> SUFFICES ASSUME ~clear, form # None
               PROVE  /\ form.at \in Refs \X Keys /\ form.row \in Variant
                      /\ variant'[form.at] # None
    BY <1>2 DEF FormIsARow
  <2>1. /\ form.at \in Refs \X Keys /\ form.row \in Variant
        /\ variant[form.at] # None
    BY DEF TablesAreOnCourse, FormIsARow
  <2>2. CASE Abstract!IsSold(file, form.at[1], form.at[2])
    <3>1. variant'[form.at] = VariantIn(file, form.at)
      BY <2>1, <2>2, <1>1, ImportedRows
    <3>2. VariantIn(file, form.at) # None
      BY <2>1, <2>2, <1>1, VariantInShape
    <3> QED BY <2>1, <3>1, <3>2
  <2>3. CASE ~Abstract!IsSold(file, form.at[1], form.at[2])
    BY <2>1, <2>3, <1>1, ImportedRows
  <2> QED BY <2>1, <2>2, <2>3
<1> QED BY <1>3, <1>4, <1>5, <1>6 DEF TablesAreOnCourse

-----------------------------------------------------------------------------
(***************************************************************************)
(* The administrator's forms.                                              *)
(***************************************************************************)
LEMMA SaveIsEdit ==
  ASSUME TypeOK, TablesAreOnCourse, NEW price \in Prices \cup {Null}, NEW active \in BOOLEAN,
         SaveForm(price, active)
  PROVE  /\ form.at \in Refs \X Keys /\ form.row.code \in Codes
         /\ Abstract!Edit(form.at, form.row.code, price, active)
<1>1. form.at \in Refs \X Keys /\ form.row \in Variant /\ variant[form.at] # None
  BY DEF SaveForm, TablesAreOnCourse, FormIsARow
<1>2. form.row.code \in Codes
  BY <1>1 DEF Variant
<1>3. variant' = [variant EXCEPT ![form.at] =
                    [code |-> form.row.code, price |-> price, active |-> active]]
  BY DEF SaveForm
<1>4. cell' = cell /\ product' = product
  BY DEF SaveForm
<1> QED BY <1>1, <1>2, <1>3, <1>4 DEF Abstract!Edit

LEMMA SaveLeavesTablesOnCourse ==
  ASSUME TypeOK, TablesAreOnCourse, NEW price \in Prices \cup {Null}, NEW active \in BOOLEAN,
         SaveForm(price, active)
  PROVE  TablesAreOnCourse' /\ variant' \in [Refs \X Keys -> Variant \cup {None}]
         /\ edited' \subseteq Refs \X Keys
<1> DEFINE at  == form.at
           row == [code |-> form.row.code, price |-> price, active |-> active]
<1>1. /\ at \in Refs \X Keys /\ form.row.code \in Codes
      /\ variant[at] # None /\ variant' = [variant EXCEPT ![at] = row]
      /\ cell' = cell /\ product' = product
  BY SaveIsEdit DEF Abstract!Edit
<1>2. /\ form' = None /\ calm' = None /\ edited' = edited \cup {at}
      /\ offered' = offered /\ cleared' = cleared
  BY DEF SaveForm
<1>3. row \in Variant /\ row.code = form.row.code
  <2>1. form.row.code \in Codes /\ active \in BOOLEAN
    BY <1>1
  <2>2. row \in [code : Codes, price : Prices \cup {Null}, active : BOOLEAN]
    BY <2>1
  <2> QED BY <2>2 DEF Variant
<1>4. form # None /\ (cleared => variant[at].code = form.row.code)
  BY DEF SaveForm, TablesAreOnCourse, FormIsARow
<1> HIDE DEF row, at
<1>5. /\ DOMAIN variant = Refs \X Keys /\ variant'[at] = row
      /\ \A x \in Refs \X Keys : x # at => variant'[x] = variant[x]
      /\ variant' \in [Refs \X Keys -> Variant \cup {None}]
  BY <1>1, <1>3 DEF TypeOK
<1>6. PricesAreFromTheirGrid'
  <2> SUFFICES ASSUME NEW x \in Refs \X Keys, variant'[x] # None, x \notin edited'
               PROVE  variant'[x].price \in offered'[x]
    BY DEF PricesAreFromTheirGrid
  <2>1. x # at /\ x \notin edited
    BY <1>2
  <2> QED BY <2>1, <1>2, <1>5 DEF TablesAreOnCourse, PricesAreFromTheirGrid
<1>7. TablesAgree'
  <2> SUFFICES ASSUME cleared', NEW x \in Refs \X Keys, variant'[x] # None
               PROVE  /\ product'[x[1]] # None /\ product'[x[1]].schedule = variant'[x].code
                      /\ x \notin edited' => variant'[x].price = cell'[<<variant'[x].code, x[2]>>]
    BY DEF TablesAgree
  <2>1. CASE x = at
    <3>1. x \in edited' /\ variant'[x].code = variant[x].code
      BY <2>1, <1>2, <1>3, <1>4, <1>5
    <3> QED BY <3>1, <2>1, <1>1, <1>2 DEF TablesAreOnCourse, TablesAgree
  <2>2. CASE x # at
    <3>1. variant'[x] = variant[x] /\ (x \notin edited' => x \notin edited)
      BY <2>2, <1>2, <1>5
    <3> QED BY <3>1, <1>1, <1>2 DEF TablesAreOnCourse, TablesAgree
  <2> QED BY <2>1, <2>2
<1>8. CalmIsAsImported' /\ FormIsARow'
  BY <1>2 DEF CalmIsAsImported, FormIsARow
<1>9. edited' \subseteq Refs \X Keys
  BY <1>1, <1>2 DEF TypeOK
<1> QED BY <1>5, <1>6, <1>7, <1>8, <1>9 DEF TablesAreOnCourse

LEMMA OpenLeavesTablesOnCourse ==
  ASSUME TypeOK, TablesAreOnCourse, NEW r \in Refs, NEW k \in Keys, OpenForm(r, k)
  PROVE  TablesAreOnCourse'
<1>1. /\ UNCHANGED <<tables, history>> /\ variant[<<r, k>>] # None
      /\ form' = [at |-> <<r, k>>, row |-> variant[<<r, k>>]]
  BY DEF OpenForm
<1>2. <<r, k>> \in Refs \X Keys /\ variant[<<r, k>>] \in Variant
  BY <1>1 DEF TypeOK
<1>3. FormIsARow'
  BY <1>1, <1>2 DEF FormIsARow, tables, history
<1>4. PricesAreFromTheirGrid' /\ TablesAgree' /\ CalmIsAsImported'
  BY <1>1 DEF TablesAreOnCourse, PricesAreFromTheirGrid, TablesAgree, CalmIsAsImported,
              tables, history
<1> QED BY <1>3, <1>4 DEF TablesAreOnCourse

-----------------------------------------------------------------------------
(***************************************************************************)
(* The steps together.                                                     *)
(***************************************************************************)
LEMMA TypeStep ==
  ASSUME TypeOK, TransactionIsOnCourse, TablesAreOnCourse, [Next]_vars
  PROVE  TypeOK'
<1>1. ASSUME NEW f \in Files, NEW c \in BOOLEAN, StartImport(f, c)
      PROVE  TypeOK'
  BY <1>1, BoundsAssumption DEF StartImport, TypeOK, tables, history
<1>2. ASSUME NEW x \in Cells, UpsertCell(x)
      PROVE  TypeOK'
  BY <1>2 DEF UpsertCell, TypeOK, tables, history, counts
<1>3. ASSUME NEW r \in Refs, UpsertProduct(r)
      PROVE  TypeOK'
  <2>1. file \in Files /\ r \in Listed(file)
    BY <1>3 DEF UpsertProduct, IsNext, TypeOK
  <2>2. left' \subseteq Cells
    BY <1>3, <2>1, FileShape DEF UpsertProduct, Listed, Cells
  <2> QED BY <1>3, <2>2 DEF UpsertProduct, TypeOK, tables, history, counts
<1>4. ASSUME NEW x \in Cells, UpsertVariant(x)
      PROVE  TypeOK'
  BY <1>4 DEF UpsertVariant, TypeOK, tables, history, counts
<1>5. CASE ImportCommits
  BY <1>5, CommitTypes
<1>6. CASE ImportFails
  BY <1>6 DEF ImportFails, Rollback, TransactionEnds, TypeOK, tables, history, counts
<1>7. ASSUME NEW r \in Refs, NEW k \in Keys, OpenForm(r, k)
      PROVE  TypeOK'
  BY <1>7 DEF OpenForm, TypeOK, tables, history, counts, progress
<1>8. ASSUME NEW price \in Prices \cup {Null}, NEW active \in BOOLEAN, SaveForm(price, active)
      PROVE  TypeOK'
  <2>1. variant' \in [Refs \X Keys -> Variant \cup {None}] /\ edited' \subseteq Refs \X Keys
    BY <1>8, SaveLeavesTablesOnCourse
  <2> QED BY <1>8, <2>1, BoundsAssumption DEF SaveForm, TypeOK, progress
<1>9. CASE UNCHANGED vars
  BY <1>9 DEF vars, TypeOK, tables, history, counts, progress
<1> QED BY <1>1, <1>2, <1>3, <1>4, <1>5, <1>6, <1>7, <1>8, <1>9 DEF Next

LEMMA TransactionStep ==
  ASSUME TypeOK, TransactionIsOnCourse, [Next]_vars
  PROVE  TransactionIsOnCourse'
<1>1. ASSUME NEW f \in Files, NEW c \in BOOLEAN, StartImport(f, c)
      PROVE  TransactionIsOnCourse'
  BY <1>1, StartIsOnCourse
<1>2. ASSUME NEW x \in Cells, UpsertCell(x)
      PROVE  TransactionIsOnCourse'
  BY <1>2, CellIsOnCourse
<1>3. ASSUME NEW r \in Refs, UpsertProduct(r)
      PROVE  TransactionIsOnCourse'
  BY <1>3, ProductIsOnCourse
<1>4. ASSUME NEW x \in Cells, UpsertVariant(x)
      PROVE  TransactionIsOnCourse'
  BY <1>4, VariantIsOnCourse
<1>5. CASE ImportCommits \/ ImportFails
  BY <1>5, NoFileNoTransaction DEF ImportCommits, ImportFails, TransactionEnds
<1>6. ASSUME NEW r \in Refs, NEW k \in Keys, OpenForm(r, k)
      PROVE  TransactionIsOnCourse'
  BY <1>6, TransactionStays DEF OpenForm
<1>7. ASSUME NEW price \in Prices \cup {Null}, NEW active \in BOOLEAN, SaveForm(price, active)
      PROVE  TransactionIsOnCourse'
  BY <1>7, TransactionStays DEF SaveForm
<1>8. CASE UNCHANGED vars
  BY <1>8, TransactionStays DEF vars
<1> QED BY <1>1, <1>2, <1>3, <1>4, <1>5, <1>6, <1>7, <1>8 DEF Next

LEMMA TablesStep ==
  ASSUME TypeOK, TransactionIsOnCourse, TablesAreOnCourse, [Next]_vars
  PROVE  TablesAreOnCourse'
<1>1. ASSUME NEW f \in Files, NEW c \in BOOLEAN, StartImport(f, c)
      PROVE  TablesAreOnCourse'
  BY <1>1, TablesStay DEF StartImport
<1>2. ASSUME NEW x \in Cells, UpsertCell(x) \/ UpsertVariant(x)
      PROVE  TablesAreOnCourse'
  BY <1>2, TablesStay DEF UpsertCell, UpsertVariant
<1>3. ASSUME NEW r \in Refs, UpsertProduct(r)
      PROVE  TablesAreOnCourse'
  BY <1>3, TablesStay DEF UpsertProduct
<1>4. CASE ImportCommits
  BY <1>4, CommitLeavesTablesOnCourse
<1>5. CASE ImportFails
  BY <1>5, TablesStay DEF ImportFails, Rollback
<1>6. ASSUME NEW r \in Refs, NEW k \in Keys, OpenForm(r, k)
      PROVE  TablesAreOnCourse'
  BY <1>6, OpenLeavesTablesOnCourse
<1>7. ASSUME NEW price \in Prices \cup {Null}, NEW active \in BOOLEAN, SaveForm(price, active)
      PROVE  TablesAreOnCourse'
  BY <1>7, SaveLeavesTablesOnCourse
<1>8. CASE UNCHANGED vars
  BY <1>8, TablesStay DEF vars
<1> QED BY <1>1, <1>2, <1>3, <1>4, <1>5, <1>6, <1>7, <1>8 DEF Next

LEMMA SlugStep ==
  ASSUME TypeOK, TransactionIsOnCourse, SlugsAreUnique, [Next]_vars
  PROVE  SlugsAreUnique'
<1>1. ASSUME NEW f \in Files, NEW c \in BOOLEAN, StartImport(f, c)
      PROVE  SlugsAreUnique'
  <2>1. product' = product /\ newProduct' = Emptied(c, Refs) /\ DOMAIN product = Refs
    BY <1>1 DEF StartImport, tables, TypeOK
  <2>2. \A r \in Refs : Over(product', newProduct')[r] \in {None, product[r]}
    BY <2>1 DEF Over, Emptied, Untouched
  <2> QED BY <2>1, <2>2 DEF SlugsAreUnique, Distinct
<1>2. ASSUME NEW x \in Cells, UpsertCell(x) \/ UpsertVariant(x)
      PROVE  SlugsAreUnique'
  BY <1>2 DEF UpsertCell, UpsertVariant, tables, SlugsAreUnique
<1>3. ASSUME NEW r \in Refs, UpsertProduct(r)
      PROVE  SlugsAreUnique'
  <2> DEFINE now == Over(product, newProduct)
             row == [schedule |-> file.schedule[r], slug |-> UniqSlug(r)]
  <2>1. /\ product' = product /\ newProduct' = Put(newProduct, r, row)
        /\ file # None /\ DOMAIN product = Refs
    BY <1>3 DEF UpsertProduct, IsNext, tables, TypeOK
  <2>2. \A q \in Refs \ {r} : now[q] # None => now[q].slug # UniqSlug(r)
    BY <1>3 DEF UpsertProduct, SlugIsTaken
  <2>3. Distinct(product) /\ Distinct(now)
    BY <2>1 DEF SlugsAreUnique
  <2>4. row.slug = UniqSlug(r)
    OBVIOUS
  <2> HIDE DEF row
  <2>5. \A q \in Refs : Over(product', newProduct')[q] = IF q = r THEN row ELSE now[q]
    BY <2>1 DEF Over, Put
  <2> HIDE DEF now
  <2>6. Distinct(Over(product', newProduct'))
    BY <2>2, <2>3, <2>4, <2>5 DEF Distinct
  <2> QED BY <2>1, <2>3, <2>6 DEF SlugsAreUnique
<1>4. CASE ImportCommits
  BY <1>4 DEF ImportCommits, TransactionEnds, SlugsAreUnique
<1>5. CASE ImportFails
  BY <1>5 DEF ImportFails, Rollback, tables, TransactionEnds, SlugsAreUnique
<1>6. ASSUME NEW r \in Refs, NEW k \in Keys, OpenForm(r, k)
      PROVE  SlugsAreUnique'
  BY <1>6 DEF OpenForm, tables, written, SlugsAreUnique
<1>7. ASSUME NEW price \in Prices \cup {Null}, NEW active \in BOOLEAN, SaveForm(price, active)
      PROVE  SlugsAreUnique'
  BY <1>7 DEF SaveForm, written, SlugsAreUnique
<1>8. CASE UNCHANGED vars
  BY <1>8 DEF vars, tables, written, SlugsAreUnique
<1> QED BY <1>1, <1>2, <1>3, <1>4, <1>5, <1>6, <1>7, <1>8 DEF Next

LEMMA InitOnCourse ==
  ASSUME Init
  PROVE  IInv
<1>1. TypeOK
  <2>1. cell \in [Cells -> Prices \cup {None}] /\ product \in [Refs -> Product \cup {None}]
        /\ variant \in [Refs \X Keys -> Variant \cup {None}]
        /\ offered \in [Refs \X Keys -> SUBSET Prices]
    BY DEF Init
  <2>2. clear \in BOOLEAN /\ cleared \in BOOLEAN
    BY DEF Init
  <2> QED BY <2>1, <2>2, BoundsAssumption DEF Init, TypeOK
<1>2. TransactionIsOnCourse
  BY DEF Init, TransactionIsOnCourse, CellsAreWritten, ProductsAreWritten, VariantsAreWritten,
         LoopsAreOnCourse, SlugsAreCounted
<1>3. SlugsAreUnique
  BY DEF Init, SlugsAreUnique, Distinct
<1>4. TablesAreOnCourse
  BY DEF Init, TablesAreOnCourse, PricesAreFromTheirGrid, TablesAgree, CalmIsAsImported, FormIsARow
<1> QED BY <1>1, <1>2, <1>3, <1>4 DEF IInv

\* The tables and the transaction are at every moment what the finished part of the file makes
\* of them (import_price_grid.py:107-275).
THEOREM OnCourse == Spec => []IInv
<1>1. Init => IInv
  BY InitOnCourse
<1>2. IInv /\ [Next]_vars => IInv'
  BY TypeStep, TransactionStep, TablesStep, SlugStep DEF IInv
<1> QED BY <1>1, <1>2, PTL DEF Spec

-----------------------------------------------------------------------------
(***************************************************************************)
(* The theorems.                                                           *)
(***************************************************************************)
\* Every row that an import or an edit leaves is a cell's, a product's or a variant's
\* (import_price_grid.py:191-270, catalog/admin.py).
THEOREM TypeCorrect == Spec => []TypeOK
<1>1. IInv => TypeOK
  BY DEF IInv
<1> QED BY OnCourse, <1>1, PTL

\* No variant has another reference's price, however schedules come, go and share keys
\* (import_price_grid.py:248-260).
THEOREM NoPriceStrays == Spec => []PricesAreFromTheirGrid
<1>1. IInv => PricesAreFromTheirGrid
  BY DEF IInv, TablesAreOnCourse
<1> QED BY OnCourse, <1>1, PTL

\* After an import with --clear and whatever edits follow it, no variant is of another schedule
\* than its product, and none has a price that is neither its cell's nor the administrator's
\* (import_price_grid.py:225-265).
THEOREM TablesStayInAgreement == Spec => []TablesAgree
<1>1. IInv => TablesAgree
  BY DEF IInv, TablesAreOnCourse
<1> QED BY OnCourse, <1>1, PTL

\* A commit of the file that the tables are already as leaves them so.
LEMMA RepeatChangesNothing ==
  ASSUME IInv, ImportCommits, Again
  PROVE  UNCHANGED tables
<1>1. /\ file \in Files /\ clear \in BOOLEAN /\ calm # None /\ calm.file = file
      /\ clear => calm.clear
  BY DEF IInv, TypeOK, Again
<1>2. Abstract!Import(file, clear)
  BY CommitIsImport DEF IInv
<1>3. CalmIsAsImported
  BY DEF IInv, TablesAreOnCourse
<1>4. \A x \in Cells : cell'[x] = cell[x]
  BY <1>1, <1>2, <1>3, ImportedRows DEF CalmIsAsImported
<1>5. \A r \in Refs : product'[r] = product[r]
  BY <1>1, <1>2, <1>3, ImportedRows DEF CalmIsAsImported
<1>6. \A x \in Refs \X Keys : variant'[x] = variant[x]
  BY <1>1, <1>2, <1>3, ImportedRows DEF CalmIsAsImported
<1>7. /\ cell \in [Cells -> Prices \cup {None}] /\ cell' \in [Cells -> Prices \cup {None}]
      /\ product \in [Refs -> Product \cup {None}] /\ product' \in [Refs -> Product \cup {None}]
      /\ variant \in [Refs \X Keys -> Variant \cup {None}]
      /\ variant' \in [Refs \X Keys -> Variant \cup {None}]
  BY CommitTypes DEF IInv, TypeOK
<1>8. cell' = cell
  BY <1>4, <1>7
<1>9. product' = product
  BY <1>5, <1>7
<1>10. variant' = variant
  BY <1>6, <1>7
<1> QED BY <1>8, <1>9, <1>10 DEF tables

\* The slugs that the transaction sees are those of the references it has done; any other row
\* that is left is where the last import of this file put it.
LEMMA NoClash ==
  ASSUME IInv, Again \/ clear, NEW r \in Refs, IsNext(r)
  PROVE  ~SlugIsTaken(r)
<1> DEFINE now == Over(product, newProduct)
<1>1. /\ file # None /\ file \in Files /\ DOMAIN product = Refs /\ r \in Listed(file)
      /\ clear \in BOOLEAN
  BY DEF IsNext, IInv, TypeOK
<1>2. newProduct = [q \in IF clear THEN Refs ELSE Done(file, ref) |->
                      IF q \in Done(file, ref) THEN ProductIn(file, q) ELSE None]
  BY <1>1 DEF IInv, TransactionIsOnCourse, ProductsAreWritten
<1>3. UniqSlug(r) = Abstract!Slug(file, r) /\ UniqSlug(r) \notin seenSlugs
  BY NextSlug DEF IInv
<1> SUFFICES ASSUME NEW q \in Refs \ {r}, now[q] # None
             PROVE  now[q].slug # UniqSlug(r)
  BY DEF SlugIsTaken
<1>4. CASE q \in Done(file, ref)
  <2>1. now[q] = ProductIn(file, q)
    BY <1>1, <1>2, <1>4 DEF Over
  <2>2. Abstract!Slug(file, q) \in seenSlugs
    BY <1>1, <1>4 DEF IInv, TransactionIsOnCourse, SlugsAreCounted
  <2> QED BY <2>1, <2>2, <1>3 DEF ProductIn
<1>5. CASE q \notin Done(file, ref)
  <2>1. ~clear /\ now[q] = product[q]
    BY <1>1, <1>2, <1>5 DEF Over
  <2>2. product[r] = ProductIn(file, r)
    BY <2>1, <1>1 DEF Again, IInv, TablesAreOnCourse, CalmIsAsImported
  <2>3. product[r] # None /\ product[r].slug = Abstract!Slug(file, r)
    BY <2>2, <1>1, ProductInShape
  <2>4. product[q].slug # product[r].slug
    BY <2>1, <2>3 DEF IInv, SlugsAreUnique, Distinct
  <2> QED BY <2>1, <2>3, <2>4, <1>3
<1> QED BY <1>4, <1>5

\* Importing the same file again changes nothing, and fails neither then nor with --clear: the
\* container can always start once more (import_price_grid.py:107-121, 212-236).
THEOREM ImportsRepeat == Spec => ImportIsRepeatable
<1>1. IInv /\ [Next]_vars => [ImportCommits /\ Again => UNCHANGED tables]_vars
  BY RepeatChangesNothing
<1>2. IInv => (Again \/ clear => \A r \in Refs : IsNext(r) => ~SlugIsTaken(r))
  BY NoClash
<1> QED BY OnCourse, <1>1, <1>2, PTL DEF Spec, ImportIsRepeatable

\* Each statement of the import is a stutter of Catalogue, its commit the one-step import, and
\* an edit that overlaps it the edit of one variant (import_price_grid.py:107-275).
LEMMA StepRefines ==
  ASSUME IInv, [Next]_vars
  PROVE  [Abstract!Next]_Abstract!catalogue
<1> USE DEF IInv
<1>1. ASSUME ImportCommits
      PROVE  Abstract!Next
  <2>1. file \in Files /\ clear \in BOOLEAN
    BY <1>1 DEF TypeOK, ImportCommits
  <2> QED BY <1>1, <2>1, CommitIsImport DEF Abstract!Next
<1>2. ASSUME NEW price \in Prices \cup {Null}, NEW active \in BOOLEAN, SaveForm(price, active)
      PROVE  Abstract!Next
  BY <1>2, SaveIsEdit DEF Abstract!Next
<1>3. ASSUME NEW f \in Files, NEW c \in BOOLEAN, StartImport(f, c)
      PROVE  UNCHANGED tables
  BY <1>3 DEF StartImport
<1>4. ASSUME NEW x \in Cells, UpsertCell(x) \/ UpsertVariant(x)
      PROVE  UNCHANGED tables
  BY <1>4 DEF UpsertCell, UpsertVariant
<1>5. ASSUME NEW r \in Refs, UpsertProduct(r)
      PROVE  UNCHANGED tables
  BY <1>5 DEF UpsertProduct
<1>6. ASSUME ImportFails
      PROVE  UNCHANGED tables
  BY <1>6 DEF ImportFails, Rollback
<1>7. ASSUME NEW r \in Refs, NEW k \in Keys, OpenForm(r, k)
      PROVE  UNCHANGED tables
  BY <1>7 DEF OpenForm
<1>8. ASSUME UNCHANGED vars
      PROVE  UNCHANGED tables
  BY <1>8 DEF vars
<1>9. Abstract!Next \/ UNCHANGED tables
  BY <1>1, <1>2, <1>3, <1>4, <1>5, <1>6, <1>7, <1>8 DEF Next
<1> QED BY <1>9 DEF tables, Abstract!catalogue

\* Within one file the slugs differ, so only rows of earlier files can stop an import of it
\* (import_price_grid.py:212-219).
THEOREM SlugsOfAFileDiffer ==
  ASSUME NEW f \in Files, NEW q \in Listed(f), NEW r \in Listed(f), q # r
  PROVE  Abstract!Slug(f, q) # Abstract!Slug(f, r)
<1> DEFINE upto(p) == {x \in Refs : f.schedule[x] # Unlisted /\ x <= p /\ SlugBase[x] = SlugBase[p]}
<1>1. \A p \in Refs : p \in Nat
  BY RefsAssumption
<1>2. ASSUME NEW p \in Listed(f)
      PROVE  p \in Refs /\ p \in upto(p) /\ Abstract!Slug(f, p) = <<SlugBase[p], Cardinality(upto(p))>>
  BY <1>1 DEF Listed, Abstract!Slug, Abstract!Cardinality, Cardinality
<1>3. ASSUME NEW p \in Listed(f), NEW s \in Listed(f), p < s, SlugBase[p] = SlugBase[s]
      PROVE  Cardinality(upto(p)) # Cardinality(upto(s))
  <2>1. p \in Nat /\ s \in Nat /\ ~(s <= p) /\ \A x \in Refs : x <= p => x <= s
    BY <1>1, <1>3 DEF Listed
  <2>2. upto(p) \subseteq upto(s)
    BY <2>1, <1>3
  <2>3. s \in upto(s) /\ s \notin upto(p)
    BY <1>2, <2>1
  <2>4. IsFiniteSet(upto(s))
    BY RefsAreCounted
  <2> HIDE DEF upto
  <2> QED BY <2>2, <2>3, <2>4, FS_Subset
<1>4. q < r \/ r < q
  BY <1>1 DEF Listed
<1> HIDE DEF upto
<1> QED BY <1>2, <1>3, <1>4

\* Imports of many statements, failing or not, among edits that overlap them, amount to the
\* one-step imports of Catalogue (import_price_grid.py:107).
THEOREM ImportsAreAtomic == Spec => ImplementsCatalogue
<1>1. Init => Abstract!Init
  BY DEF Init, Abstract!Init, Cells
<1>2. IInv /\ [Next]_vars => [Abstract!Next]_Abstract!catalogue
  BY StepRefines
<1> QED BY OnCourse, <1>1, <1>2, PTL DEF Spec, ImplementsCatalogue, Abstract!Spec

=============================================================================
