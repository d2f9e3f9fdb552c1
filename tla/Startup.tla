------------------------------ MODULE Startup ------------------------------
(***************************************************************************)
(* Container images are built and containers start.                        *)
(*                                                                         *)
(* The build makes thumbnails of the product images.  The command of the   *)
(* container is a chain of programs joined by "&&": the seeding of two     *)
(* accounts, the import of the price grid, the linking of the images, and  *)
(* only then gunicorn.  A program that fails or dies ends the container.   *)
(* Every program may find what an earlier, interrupted chain has left, and *)
(* may run beside the chain of another container or beside the orders that *)
(* an older one still takes.                                               *)
(*                                                                         *)
(* The import is one transaction, modelled statement by statement in       *)
(* Storefront and PriceGrid; here it begins, and commits or fails.  The    *)
(* two other programs commit each statement by itself.                     *)
(***************************************************************************)
EXTENDS Naturals, FiniteSets

CONSTANTS
  Containers,
  Refs,      \* references of products
  Grid,      \* Grid[c]: the references in the price grid of the build of c
  Png,       \* Png[c]: those with a PNG file in the build of c
  MaxStarts  \* bound: how many times containers start

Widths == {240, 480}

ASSUME BuildsAssumption == Grid \in [Containers -> SUBSET Refs] /\ Png \in [Containers -> SUBSET Refs]
ASSUME BoundsAssumption == MaxStarts \in Nat

VARIABLES
  build,    \* build[c]: the PNG files of c of which thumbnails are still to be made
  thumbs,   \* thumbs[c]: the files <reference>_<width>.webp of c
  job,      \* job[c]: the program that c runs, and how far it is
  starts,   \* how much of the bound is spent
  account,  \* the accounts that are in the database
  product,  \* product[r]: the row of the reference r
  imports,  \* how many imports have committed; it numbers the rows that they create
  troubled, \* the containers in whose import an order or another import has come
  spoiled,  \* history: spoiled[c], the PNG files of which c could not make a thumbnail
  abandoned,\* history: a chain ended between the insert of the user and that of its customer
  rough,    \* history: the containers whose chain died, or met another chain or an order
  pictured  \* history: the containers since whose linking nobody else wrote products

files    == <<build, thumbs, spoiled>>
database == <<account, product, imports>>
vars     == <<files, job, starts, database, troubled, abandoned, rough, pictured>>

-----------------------------------------------------------------------------
None == [id |-> 0]
Row  == [id : Nat \ {0}, image : {"", "png"}]

Accounts == {"admin", "user", "customer"}
Seeding  == {"check_admin", "create_admin", "check_user", "create_user", "create_customer"}
Job      == [step : Seeding \cup {"off", "import", "link", "serve"}]
              \cup [step : {"importing"}, from : Nat]
              \cup [step : {"linking"}, seen : [Refs -> Row \cup {None}], left : SUBSET Refs]

TypeOK ==
  /\ build \in [Containers -> SUBSET Refs]
  /\ thumbs \in [Containers -> SUBSET (Refs \X Widths)]
  /\ spoiled \in [Containers -> SUBSET Refs]
  /\ job \in [Containers -> Job]
  /\ starts \in 0..MaxStarts
  /\ account \subseteq Accounts
  /\ product \in [Refs -> Row \cup {None}]
  /\ imports \in Nat
  /\ troubled \subseteq Containers
  /\ abandoned \in BOOLEAN
  /\ rough \subseteq Containers
  /\ pictured \subseteq Containers

Init ==
  /\ build = Png
  /\ thumbs = [c \in Containers |-> {}] /\ spoiled = [c \in Containers |-> {}]
  /\ job = [c \in Containers |-> [step |-> "off"]] /\ starts = 0
  /\ account = {} /\ product = [r \in Refs |-> None] /\ imports = 0
  /\ troubled = {} /\ abandoned = FALSE /\ rough = {} /\ pictured = {}

-----------------------------------------------------------------------------
At(c, step) == job[c].step = step

GoTo(c, step) == job' = [job EXCEPT ![c] = [step |-> step]]

\* A program exits with an error, and && stops the chain.
Exit(c) == GoTo(c, "off")

Runs(c) == job[c].step \notin {"off", "serve"}

\* The other chains that are under way meet this one.
Others(c) == {q \in Containers \ {c} : Runs(q)}

-----------------------------------------------------------------------------
(***************************************************************************)
(* docker build: generate_thumbnails.  A file that cannot be read or       *)
(* converted is counted, and the next one taken; the small width is first. *)
(***************************************************************************)
MakeThumbnails(c, ref, made) ==
  /\ ref \in build[c]
  /\ build' = [build EXCEPT ![c] = @ \ {ref}]
  /\ thumbs' = [thumbs EXCEPT ![c] = @ \cup ({ref} \X made)]
  /\ spoiled' = IF made = Widths THEN spoiled ELSE [spoiled EXCEPT ![c] = @ \cup {ref}]
  /\ UNCHANGED <<job, starts, database, troubled, abandoned, rough, pictured>>

Start(c) ==
  /\ At(c, "off")
  /\ build[c] = {}
  /\ starts < MaxStarts
  /\ starts' = starts + 1
  /\ GoTo(c, "check_admin")
  /\ rough' = rough \ {c}
  /\ UNCHANGED <<files, database, troubled, abandoned, pictured>>

-----------------------------------------------------------------------------
(***************************************************************************)
(* seed_users.  The customer of the regular user is a commit of its own.   *)
(***************************************************************************)
\* Mutant of AfterAdmin: one account there, both accounts there.
ImportAfterAdmin == "import"

\* What follows when the superuser is found.
AfterAdmin == "check_user"

CheckAdmin(c) ==
  /\ At(c, "check_admin")
  /\ GoTo(c, IF "admin" \in account THEN AfterAdmin ELSE "create_admin")
  /\ UNCHANGED <<files, starts, database, troubled, abandoned, rough, pictured>>

\* Mutant of CheckUser: the user is created without a look whether it is there.
CreateUserAnyway(c) ==
  /\ At(c, "check_user")
  /\ GoTo(c, "create_user")
  /\ UNCHANGED <<files, starts, database, troubled, abandoned, rough, pictured>>

CheckUser(c) ==
  /\ At(c, "check_user")
  /\ GoTo(c, IF "user" \in account THEN "import" ELSE "create_user")
  /\ UNCHANGED <<files, starts, database, troubled, abandoned, rough, pictured>>

\* The email is unique: an IntegrityError if another chain has inserted it since the check.
Insert(c, name, next) ==
  /\ IF name \in account THEN Exit(c) /\ UNCHANGED <<account, rough>>
                         ELSE GoTo(c, next) /\ account' = account \cup {name} /\ rough' = rough \cup Others(c)
  /\ UNCHANGED <<files, starts, product, imports, troubled, abandoned, pictured>>

CreateAdmin(c)    == At(c, "create_admin") /\ Insert(c, "admin", "check_user")
CreateUser(c)     == At(c, "create_user") /\ Insert(c, "user", "create_customer")
CreateCustomer(c) == At(c, "create_customer") /\ Insert(c, "customer", "import")

-----------------------------------------------------------------------------
(***************************************************************************)
(* import_price_grid --clear.                                              *)
(***************************************************************************)
Importing == {c \in Containers : At(c, "importing")}

StartImport(c) ==
  /\ At(c, "import")
  /\ job' = [job EXCEPT ![c] = [step |-> "importing", from |-> imports]]
  /\ IF Importing = {}
       THEN troubled' = troubled \ {c} /\ rough' = rough \cup Others(c)
       ELSE troubled' = troubled \cup Importing \cup {c} /\ rough' = rough \cup Others(c) \cup {c}
  /\ UNCHANGED <<files, starts, database, abandoned, pictured>>

\* What another import has committed since this one deleted the rows: they are found by the
\* upserts, or left where they are, as the statements happen to meet.
Foreign(c) == {r \in Refs : product[r].id > job[c].from}

CommitImport(c, kept) ==
  /\ At(c, "importing")
  /\ kept \subseteq Foreign(c)
  /\ imports' = imports + 1
  /\ product' = [r \in Refs |-> IF r \in kept THEN product[r]
                                ELSE IF r \in Grid[c] THEN [id |-> imports + 1, image |-> ""]
                                ELSE None]
  /\ GoTo(c, "link")
  /\ rough' = rough \cup Others(c)
  /\ pictured' = {}
  /\ UNCHANGED <<files, starts, account, troubled, abandoned>>

\* An order or another import is in its way: ProtectedError, IntegrityError, a deadlock.
ImportFails(c) ==
  /\ At(c, "importing")
  /\ c \in troubled
  /\ Exit(c)
  /\ UNCHANGED <<files, starts, database, troubled, abandoned, rough, pictured>>

\* An order is taken by a container that serves.
TakeOrder(c) ==
  /\ At(c, "serve")
  /\ Importing \ troubled # {}
  /\ troubled' = troubled \cup Importing
  /\ rough' = rough \cup Importing
  /\ UNCHANGED <<files, job, starts, database, abandoned, pictured>>

-----------------------------------------------------------------------------
(***************************************************************************)
(* link_product_images: the products are read by one query and saved one   *)
(* by one, each by its id and the column image alone.                      *)
(***************************************************************************)
ReadProducts(c) ==
  /\ At(c, "link")
  /\ job' = [job EXCEPT ![c] = [step |-> "linking", seen |-> product,
                                left |-> {r \in Refs : product[r] # None}]]
  /\ pictured' = pictured \cup {c}
  /\ UNCHANGED <<files, starts, database, troubled, abandoned, rough>>

\* Mutants of Cleared and of Wanted: NULL for no image, and links that are only ever added.
ClearedToNull == "NULL"
WantedIfAny(c, ref) == IF ref \in Png[c] THEN "png" ELSE job[c].seen[ref].image

Cleared == ""

Wanted(c, ref) == IF ref \in Png[c] THEN "png" ELSE Cleared

\* save(update_fields=["image"]) of a row that is gone raises DatabaseError.
LinkProduct(c, ref) ==
  LET seen == job[c].seen[ref] IN
  /\ At(c, "linking")
  /\ ref \in job[c].left
  /\ IF seen.image = Wanted(c, ref) \/ product[ref].id = seen.id
       THEN job' = [job EXCEPT ![c].left = @ \ {ref}]
       ELSE Exit(c)
  /\ IF seen.image # Wanted(c, ref) /\ product[ref].id = seen.id
       THEN product' = [product EXCEPT ![ref].image = Wanted(c, ref)] /\ pictured' = pictured \cap {c}
       ELSE UNCHANGED <<product, pictured>>
  /\ UNCHANGED <<files, starts, account, imports, troubled, abandoned, rough>>

Serve(c) ==
  /\ At(c, "linking")
  /\ job[c].left = {}
  /\ GoTo(c, "serve")
  /\ UNCHANGED <<files, starts, database, troubled, abandoned, rough, pictured>>

\* The container is stopped or killed, while it starts or while it serves.
Dies(c) ==
  /\ ~At(c, "off")
  /\ Exit(c)
  /\ abandoned' = (abandoned \/ At(c, "create_customer"))
  /\ rough' = rough \cup {c}
  /\ UNCHANGED <<files, starts, database, troubled, pictured>>

-----------------------------------------------------------------------------
Seed(c)    == CheckAdmin(c) \/ CreateAdmin(c) \/ CheckUser(c) \/ CreateUser(c) \/ CreateCustomer(c)
Import(c)  == StartImport(c) \/ (\E kept \in SUBSET Refs : CommitImport(c, kept)) \/ ImportFails(c)
Link(c)    == ReadProducts(c) \/ (\E ref \in Refs : LinkProduct(c, ref)) \/ Serve(c)
Proceed(c) == Seed(c) \/ Import(c) \/ Link(c)

Next ==
  \E c \in Containers :
    \/ \E ref \in Refs, made \in {{}, {240}, Widths} : MakeThumbnails(c, ref, made)
    \/ Start(c) \/ Proceed(c) \/ TakeOrder(c) \/ Dies(c)

Spec == Init /\ [][Next]_vars

\* A program that runs goes on, or the container is killed.
FairSpec == Spec /\ \A c \in Containers : WF_vars(Proceed(c))

-----------------------------------------------------------------------------
(***************************************************************************)
(* Properties.                                                             *)
(***************************************************************************)
\* A container that serves has both accounts, and the user has its customer, whatever chains were
\* cut off before or run beside it.  The one exception is that of seed_users.py:32-33: a chain
\* that ends between the two inserts leaves a user whom no later chain completes.
SeededAccountsAreWhole ==
  /\ (\E c \in Containers : At(c, "serve")) => {"admin", "user"} \subseteq account
  /\ "user" \in account =>
       "customer" \in account \/ abandoned \/ \E c \in Containers : At(c, "create_customer")

\* A container that serves shows the images of its own build: each product has one exactly if the
\* file is there, and each image has its two thumbnails unless the file could not be converted,
\* whatever was linked before by chains of other builds, cut off or not.  Only products that
\* another chain has written since it linked them may differ (link_product_images.py:36-60).
PicturesAreOfTheBuild ==
  \A c \in pictured : At(c, "serve") =>
    \A r \in Refs : product[r] # None =>
      /\ product[r].image = (IF r \in Png[c] THEN "png" ELSE "")
      /\ r \in Png[c] \ spoiled[c] => {r} \X Widths \subseteq thumbs[c]

\* A chain that nobody meets, neither another chain nor an order during its import, starts its
\* server, whatever earlier chains have left in the database (Dockerfile:26).
StartsUnlessDisturbed ==
  \A c \in Containers : At(c, "check_admin") ~> At(c, "serve") \/ c \in rough
=============================================================================
