--------------------------- MODULE StartupProofs ---------------------------
(***************************************************************************)
(* Proofs about Startup, for every set of containers and references, every *)
(* price grid and set of images of a build, and every number of starts.    *)
(***************************************************************************)
EXTENDS Startup, TLAPS

-----------------------------------------------------------------------------
(***************************************************************************)
(* The inductive invariant.                                                *)
(***************************************************************************)
\* The accounts that a chain has found or made by the time it comes to a step.
Seeded(c) ==
  /\ job[c].step \in {"check_user", "create_user", "create_customer"} => "admin" \in account
  /\ At(c, "create_customer") => "user" \in account
  /\ job[c].step \in {"import", "importing", "link", "linking", "serve"} =>
       {"admin", "user"} \subseteq account

SeedingOnCourse == SeededAccountsAreWhole /\ \A c \in Containers : Seeded(c)

\* A container starts when its image is built, and then each PNG file has had its turn.
BuildOnCourse(c) ==
  /\ ~At(c, "off") => build[c] = {}
  /\ \A r \in Png[c] \ (build[c] \cup spoiled[c]) : {r} \X Widths \subseteq thumbs[c]

\* A chain has products to link that it has read, and until another writes them they are as read,
\* or as the chain wants them.
LinkingOnCourse(c) ==
  /\ At(c, "linking") => \A r \in job[c].left : job[c].seen[r] # None
  /\ At(c, "linking") /\ c \in pictured => \A r \in Refs :
       /\ r \in job[c].left => product[r] = job[c].seen[r]
       /\ r \notin job[c].left /\ product[r] # None => product[r].image = Wanted(c, r)
  /\ At(c, "serve") /\ c \in pictured => \A r \in Refs :
       product[r] # None => product[r].image = Wanted(c, r)

IInv ==
  /\ TypeOK
  /\ SeedingOnCourse
  /\ \A c \in Containers : BuildOnCourse(c)
  /\ \A c \in Containers : LinkingOnCourse(c)

-----------------------------------------------------------------------------
(***************************************************************************)
(* Containers and their jobs.                                              *)
(***************************************************************************)
Linking == [step : {"linking"}, seen : [Refs -> Row \cup {None}], left : SUBSET Refs]

LEMMA JobShape ==
  ASSUME TypeOK, NEW c \in Containers
  PROVE  /\ At(c, "linking") => job[c] \in Linking
         /\ At(c, "importing") => job[c].from \in Nat
<1>1. job[c] \in Job
  BY DEF TypeOK
<1>2. At(c, "linking") => job[c] \in Linking
  BY <1>1 DEF Job, Seeding, At, Linking
<1>3. At(c, "importing") => job[c].from \in Nat
  BY <1>1 DEF Job, Seeding, At
<1> QED BY <1>2, <1>3

\* A step from one program to another changes one job.
LEMMA GoToType ==
  ASSUME TypeOK, NEW c \in Containers, NEW step \in Seeding \cup {"off", "import", "link", "serve"},
         GoTo(c, step)
  PROVE  job' \in [Containers -> Job]
<1>1. [step |-> step] \in Job
  BY DEF Job
<1> HIDE DEF Job
<1> QED BY <1>1 DEF GoTo, TypeOK

LEMMA GoToMoves ==
  ASSUME TypeOK, NEW c \in Containers, NEW step, GoTo(c, step)
  PROVE  job'[c].step = step /\ \A q \in Containers \ {c} : job'[q] = job[q]
<1>1. DOMAIN job = Containers
  BY DEF TypeOK
<1> QED BY <1>1 DEF GoTo

LEMMA OthersAreContainers == \A c \in Containers : Others(c) \subseteq Containers
  BY DEF Others

-----------------------------------------------------------------------------
(***************************************************************************)
(* Type correctness.                                                       *)
(***************************************************************************)
LEMMA InitType == Init => TypeOK
<1> SUFFICES ASSUME Init PROVE TypeOK
  OBVIOUS
<1>1. [step |-> "off"] \in Job
  BY DEF Job
<1>2. job \in [Containers -> Job]
  <2> HIDE DEF Job
  <2> QED BY <1>1 DEF Init
<1>3. product \in [Refs -> Row \cup {None}] /\ imports \in Nat /\ starts \in 0..MaxStarts
  <2> HIDE DEF Row, None
  <2> QED BY BoundsAssumption DEF Init
<1>4. /\ build \in [Containers -> SUBSET Refs]
      /\ thumbs \in [Containers -> SUBSET (Refs \X Widths)]
      /\ spoiled \in [Containers -> SUBSET Refs]
  BY BuildsAssumption DEF Init
<1> QED BY <1>2, <1>3, <1>4 DEF Init, TypeOK

LEMMA MakeThumbnailsType ==
  ASSUME TypeOK, NEW c \in Containers, NEW r \in Refs, NEW made \in {{}, {240}, Widths},
         MakeThumbnails(c, r, made)
  PROVE  TypeOK'
<1>1. {r} \X made \subseteq Refs \X Widths
  BY DEF Widths
<1>2. thumbs' \in [Containers -> SUBSET (Refs \X Widths)]
  BY <1>1 DEF TypeOK, MakeThumbnails
<1>3. build' \in [Containers -> SUBSET Refs] /\ spoiled' \in [Containers -> SUBSET Refs]
  BY DEF TypeOK, MakeThumbnails
<1> QED BY <1>2, <1>3 DEF TypeOK, MakeThumbnails, database

LEMMA StartType ==
  ASSUME TypeOK, NEW c \in Containers, Start(c)
  PROVE  TypeOK'
<1>1. job' \in [Containers -> Job]
  BY GoToType DEF Start, Seeding
<1>2. starts' \in 0..MaxStarts
  BY BoundsAssumption DEF TypeOK, Start
<1> QED BY <1>1, <1>2 DEF TypeOK, Start, files, database

LEMMA SeedType ==
  ASSUME TypeOK, NEW c \in Containers, Seed(c)
  PROVE  TypeOK'
<1>1. CASE CheckAdmin(c) \/ CheckUser(c)
  <2>1. job' \in [Containers -> Job]
    BY <1>1, GoToType DEF CheckAdmin, CheckUser, AfterAdmin, Seeding
  <2> QED BY <1>1, <2>1 DEF TypeOK, CheckAdmin, CheckUser, files, database
<1>2. ASSUME NEW name \in Accounts, NEW next \in Seeding \cup {"import"}, Insert(c, name, next)
      PROVE  TypeOK'
  <2>1. job' \in [Containers -> Job]
    BY <1>2, GoToType DEF Insert, Exit
  <2>2. account' \subseteq Accounts /\ rough' \subseteq Containers
    BY <1>2, OthersAreContainers DEF TypeOK, Insert
  <2> QED BY <1>2, <2>1, <2>2 DEF TypeOK, Insert, files
<1> QED BY <1>1, <1>2 DEF Seed, CreateAdmin, CreateUser, CreateCustomer, Accounts, Seeding

LEMMA ImportType ==
  ASSUME TypeOK, NEW c \in Containers, Import(c)
  PROVE  TypeOK'
<1>1. CASE StartImport(c)
  <2>1. [step |-> "importing", from |-> imports] \in Job
    BY DEF TypeOK, Job
  <2>2. job' \in [Containers -> Job]
    <3> HIDE DEF Job
    <3> QED BY <1>1, <2>1 DEF TypeOK, StartImport
  <2>3. troubled' \subseteq Containers /\ rough' \subseteq Containers
    BY <1>1, OthersAreContainers DEF TypeOK, StartImport, Importing
  <2> QED BY <1>1, <2>2, <2>3 DEF TypeOK, StartImport, files, database
<1>2. ASSUME NEW kept \in SUBSET Refs, CommitImport(c, kept) PROVE TypeOK'
  <2>1. job' \in [Containers -> Job]
    BY <1>2, GoToType DEF CommitImport
  <2>2. [id |-> imports + 1, image |-> ""] \in Row /\ imports' \in Nat
    <3>1. imports \in Nat /\ imports' = imports + 1
      BY <1>2 DEF TypeOK, CommitImport
    <3>2. imports + 1 \in Nat \ {0}
      BY <3>1
    <3> QED BY <3>1, <3>2 DEF Row
  <2>3. product' \in [Refs -> Row \cup {None}]
    <3> HIDE DEF Row, None
    <3> QED BY <1>2, <2>2 DEF TypeOK, CommitImport
  <2>4. rough' \subseteq Containers
    BY <1>2, OthersAreContainers DEF TypeOK, CommitImport
  <2> QED BY <1>2, <2>1, <2>2, <2>3, <2>4 DEF TypeOK, CommitImport, files
<1>3. CASE ImportFails(c)
  <2>1. job' \in [Containers -> Job]
    BY <1>3, GoToType DEF ImportFails, Exit
  <2> QED BY <1>3, <2>1 DEF TypeOK, ImportFails, files, database
<1> QED BY <1>1, <1>2, <1>3 DEF Import

LEMMA TakeOrderType ==
  ASSUME TypeOK, NEW c \in Containers, TakeOrder(c)
  PROVE  TypeOK'
  BY DEF TypeOK, TakeOrder, Importing, files, database

\* A product that is saved is one that the chain has read.
LEMMA WrittenAreRows ==
  ASSUME IInv, NEW c \in Containers, NEW r \in Refs, At(c, "linking"), r \in job[c].left
  PROVE  /\ job[c].seen[r] \in Row
         /\ product[r].id = job[c].seen[r].id => product[r] \in Row
<1>1. job[c] \in Linking
  BY JobShape DEF IInv
<1>2. job[c].seen[r] \in Row
  BY <1>1 DEF IInv, LinkingOnCourse, Linking
<1>3. product[r] \in Row \cup {None}
  BY DEF IInv, TypeOK
<1>4. job[c].seen[r].id # 0
  BY <1>2 DEF Row
<1>5. None.id = 0
  BY DEF None
<1>6. product[r].id = job[c].seen[r].id => product[r] # None
  BY <1>4, <1>5
<1> HIDE DEF Row, None
<1> QED BY <1>2, <1>3, <1>6

LEMMA LinkType ==
  ASSUME IInv, NEW c \in Containers, Link(c)
  PROVE  TypeOK'
<1>0. TypeOK
  BY DEF IInv
<1>1. CASE ReadProducts(c)
  <2>1. [step |-> "linking", seen |-> product, left |-> {r \in Refs : product[r] # None}] \in Job
    BY <1>0 DEF TypeOK, Job
  <2>2. job' \in [Containers -> Job]
    <3> HIDE DEF Job
    <3> QED BY <1>0, <1>1, <2>1 DEF TypeOK, ReadProducts
  <2> QED BY <1>0, <1>1, <2>2 DEF TypeOK, ReadProducts, files, database
<1>2. ASSUME NEW r \in Refs, LinkProduct(c, r) PROVE TypeOK'
  <2>1. At(c, "linking") /\ r \in job[c].left
    BY <1>2 DEF LinkProduct
  <2>2. job[c] \in Linking
    BY <1>0, <2>1, JobShape
  <2>3. [job[c] EXCEPT !.left = @ \ {r}] \in Job
    BY <2>2 DEF Linking, Job
  <2>4. job' \in [Containers -> Job]
    <3>1. CASE job' = [job EXCEPT ![c].left = @ \ {r}]
      <4> HIDE DEF Job
      <4> QED BY <1>0, <2>3, <3>1 DEF TypeOK
    <3>2. CASE Exit(c)
      BY <1>0, <3>2, GoToType DEF Exit
    <3> QED BY <1>2, <3>1, <3>2 DEF LinkProduct
  <2>5. product' \in [Refs -> Row \cup {None}]
    <3>1. CASE product' = [product EXCEPT ![r].image = Wanted(c, r)] /\ product[r] \in Row
      <4>1. [product[r] EXCEPT !.image = Wanted(c, r)] \in Row
        BY <3>1 DEF Row, Wanted, Cleared
      <4> HIDE DEF Row, None
      <4> QED BY <1>0, <3>1, <4>1 DEF TypeOK
    <3>2. CASE product' = product
      BY <1>0, <3>2 DEF TypeOK
    <3> QED BY <1>2, <2>1, <3>1, <3>2, WrittenAreRows DEF LinkProduct
  <2>6. pictured' \subseteq Containers
    BY <1>0, <1>2 DEF TypeOK, LinkProduct
  <2> QED BY <1>0, <1>2, <2>4, <2>5, <2>6 DEF TypeOK, LinkProduct, files
<1>3. CASE Serve(c)
  <2>1. job' \in [Containers -> Job]
    BY <1>0, <1>3, GoToType DEF Serve
  <2> QED BY <1>0, <1>3, <2>1 DEF TypeOK, Serve, files, database
<1> QED BY <1>1, <1>2, <1>3 DEF Link

LEMMA DiesType ==
  ASSUME TypeOK, NEW c \in Containers, Dies(c)
  PROVE  TypeOK'
<1>1. job' \in [Containers -> Job]
  BY GoToType DEF Dies, Exit
<1>2. abandoned' \in BOOLEAN
  BY ZenonT(30) DEF TypeOK, Dies, At
<1> QED BY <1>1, <1>2 DEF TypeOK, Dies, files, database

LEMMA NextType == IInv /\ [Next]_vars => TypeOK'
<1> SUFFICES ASSUME IInv, [Next]_vars PROVE TypeOK'
  OBVIOUS
<1>0. TypeOK
  BY DEF IInv
<1>1. CASE UNCHANGED vars
  BY <1>0, <1>1 DEF TypeOK, vars, files, database
<1> QED
  BY <1>0, <1>1, MakeThumbnailsType, StartType, SeedType, ImportType, TakeOrderType, LinkType,
     DiesType DEF Next, Proceed

-----------------------------------------------------------------------------
(***************************************************************************)
(* What a step leaves alone.                                               *)
(***************************************************************************)
\* A chain that does not move, and finds the accounts that it found before.
LEMMA SeededStays ==
  ASSUME NEW q \in Containers, Seeded(q), job'[q] = job[q], account \subseteq account'
  PROVE  Seeded(q)'
  BY DEF Seeded, At

LEMMA BuildStays ==
  ASSUME NEW q \in Containers, BuildOnCourse(q), job'[q] = job[q], UNCHANGED files
  PROVE  BuildOnCourse(q)'
  BY DEF BuildOnCourse, At, files

LEMMA LinkingStays ==
  ASSUME NEW q \in Containers, LinkingOnCourse(q), job'[q] = job[q],
         q \in pictured' => q \in pictured /\ product' = product
  PROVE  LinkingOnCourse(q)'
  BY DEF LinkingOnCourse, At, Wanted

-----------------------------------------------------------------------------
(***************************************************************************)
(* The accounts.                                                           *)
(***************************************************************************)
\* A step that moves one chain and adds to the accounts at most: its own place is right, and no
\* user is left without a customer.
LEMMA SeedingMoves ==
  ASSUME IInv, NEW c \in Containers,
         \A q \in Containers \ {c} : job'[q] = job[q],
         account \subseteq account',
         Seeded(c)',
         "user" \in account' =>
           \/ "customer" \in account' \/ abandoned' \/ job'[c].step = "create_customer"
           \/ \E q \in Containers \ {c} : At(q, "create_customer")
  PROVE  SeedingOnCourse'
<1>1. \A q \in Containers : Seeded(q)'
  <2> TAKE q \in Containers
  <2>1. CASE q = c
    BY <2>1
  <2>2. CASE q # c
    BY <2>2, SeededStays DEF IInv, SeedingOnCourse
  <2> QED BY <2>1, <2>2
<1>2. (\E q \in Containers : At(q, "serve")') => {"admin", "user"} \subseteq account'
  BY <1>1 DEF Seeded, At
<1>3. "user" \in account' =>
        "customer" \in account' \/ abandoned' \/ \E q \in Containers : At(q, "create_customer")'
  BY DEF At
<1> QED BY <1>1, <1>2, <1>3 DEF SeedingOnCourse, SeededAccountsAreWhole

\* A chain that was not about to insert the customer moves, and the accounts stay.
LEMMA SeedingKeeps ==
  ASSUME IInv, NEW c \in Containers,
         \A q \in Containers \ {c} : job'[q] = job[q],
         UNCHANGED <<account, abandoned>>, ~At(c, "create_customer"), Seeded(c)'
  PROVE  SeedingOnCourse'
<1>1. "user" \in account' =>
        \/ "customer" \in account' \/ abandoned'
        \/ \E q \in Containers \ {c} : At(q, "create_customer")
  BY DEF IInv, SeedingOnCourse, SeededAccountsAreWhole
<1> QED BY <1>1, SeedingMoves

LEMMA SeedSeeding ==
  ASSUME IInv, NEW c \in Containers, Seed(c)
  PROVE  SeedingOnCourse'
<1>0. TypeOK /\ Seeded(c)
  BY DEF IInv, SeedingOnCourse
<1>1. CASE CheckAdmin(c) \/ CheckUser(c)
  <2>1. UNCHANGED <<account, abandoned>> /\ ~At(c, "create_customer")
    BY <1>1 DEF CheckAdmin, CheckUser, database, At
  <2>2. \A q \in Containers \ {c} : job'[q] = job[q]
    BY <1>0, <1>1, GoToMoves DEF CheckAdmin, CheckUser
  <2>3. Seeded(c)'
    BY <1>0, <1>1, <2>1, GoToMoves DEF Seeded, At, CheckAdmin, CheckUser, AfterAdmin
  <2> QED BY <2>1, <2>2, <2>3, SeedingKeeps
<1>2. ASSUME NEW name, NEW next, Insert(c, name, next)
      PROVE  /\ \A q \in Containers \ {c} : job'[q] = job[q]
             /\ account' = account \cup {name}
             /\ IF name \in account THEN At(c, "off")' ELSE At(c, next)'
             /\ abandoned' = abandoned
  BY <1>0, <1>2, GoToMoves DEF Insert, Exit, At
<1>3. CASE CreateAdmin(c)
  <2>1. Seeded(c)'
    BY <1>2, <1>3 DEF CreateAdmin, Seeded, At
  <2>2. "user" \in account' =>
          \/ "customer" \in account' \/ abandoned'
          \/ \E q \in Containers \ {c} : At(q, "create_customer")
    BY <1>2, <1>3 DEF CreateAdmin, At, IInv, SeedingOnCourse, SeededAccountsAreWhole
  <2> QED BY <1>2, <1>3, <2>1, <2>2, SeedingMoves DEF CreateAdmin
<1>4. CASE CreateUser(c)
  <2>1. Seeded(c)'
    BY <1>0, <1>2, <1>4 DEF CreateUser, Seeded, At
  <2>2. CASE "user" \in account
    <3>1. "user" \in account' =>
            \/ "customer" \in account' \/ abandoned'
            \/ \E q \in Containers \ {c} : At(q, "create_customer")
      BY <1>2, <1>4, <2>2 DEF CreateUser, At, IInv, SeedingOnCourse, SeededAccountsAreWhole
    <3> QED BY <1>2, <1>4, <2>1, <3>1, SeedingMoves DEF CreateUser
  <2>3. CASE "user" \notin account
    <3>1. job'[c].step = "create_customer"
      BY <1>2, <1>4, <2>3 DEF CreateUser, At
    <3> QED BY <1>2, <1>4, <2>1, <3>1, SeedingMoves DEF CreateUser
  <2> QED BY <2>2, <2>3
<1>5. CASE CreateCustomer(c)
  <2>1. Seeded(c)'
    BY <1>0, <1>2, <1>5 DEF CreateCustomer, Seeded, At
  <2>2. "customer" \in account'
    BY <1>2, <1>5 DEF CreateCustomer
  <2> QED BY <1>2, <1>5, <2>1, <2>2, SeedingMoves DEF CreateCustomer
<1> QED BY <1>1, <1>3, <1>4, <1>5 DEF Seed

LEMMA ImportSeeding ==
  ASSUME IInv, NEW c \in Containers, Import(c)
  PROVE  SeedingOnCourse'
<1>0. TypeOK /\ Seeded(c)
  BY DEF IInv, SeedingOnCourse
<1>1. UNCHANGED <<account, abandoned>> /\ ~At(c, "create_customer")
  BY DEF Import, StartImport, CommitImport, ImportFails, database, At
<1>2. /\ \A q \in Containers \ {c} : job'[q] = job[q]
      /\ job'[c].step \in {"importing", "link", "off"}
  <2>1. CASE StartImport(c)
    BY <1>0, <2>1 DEF StartImport, TypeOK
  <2>2. CASE \E kept \in SUBSET Refs : CommitImport(c, kept)
    BY <1>0, <2>2, GoToMoves DEF CommitImport
  <2>3. CASE ImportFails(c)
    BY <1>0, <2>3, GoToMoves DEF ImportFails, Exit
  <2> QED BY <2>1, <2>2, <2>3 DEF Import
<1>3. job[c].step \in {"import", "importing"}
  BY DEF Import, StartImport, CommitImport, ImportFails, At
<1>4. Seeded(c)'
  BY <1>0, <1>1, <1>2, <1>3 DEF Seeded, At
<1> QED BY <1>1, <1>2, <1>4, SeedingKeeps

LEMMA LinkSeeding ==
  ASSUME IInv, NEW c \in Containers, Link(c)
  PROVE  SeedingOnCourse'
<1>0. TypeOK /\ Seeded(c)
  BY DEF IInv, SeedingOnCourse
<1>1. UNCHANGED <<account, abandoned>> /\ ~At(c, "create_customer")
  BY DEF Link, ReadProducts, LinkProduct, Serve, database, At
<1>2. /\ \A q \in Containers \ {c} : job'[q] = job[q]
      /\ job'[c].step \in {"linking", "serve", "off"}
  <2>1. CASE ReadProducts(c)
    BY <1>0, <2>1 DEF ReadProducts, TypeOK
  <2>2. ASSUME NEW r \in Refs, LinkProduct(c, r)
        PROVE  (\A q \in Containers \ {c} : job'[q] = job[q]) /\ job'[c].step \in {"linking", "off"}
    <3>1. job[c] \in Linking
      BY <1>0, <2>2, JobShape DEF LinkProduct
    <3>2. CASE job' = [job EXCEPT ![c].left = @ \ {r}]
      BY <1>0, <3>1, <3>2 DEF TypeOK, Linking
    <3>3. CASE Exit(c)
      BY <1>0, <3>3, GoToMoves DEF Exit
    <3> QED BY <2>2, <3>2, <3>3 DEF LinkProduct
  <2>3. CASE Serve(c)
    BY <1>0, <2>3, GoToMoves DEF Serve
  <2> QED BY <2>1, <2>2, <2>3 DEF Link
<1>3. job[c].step \in {"link", "linking"}
  BY DEF Link, ReadProducts, LinkProduct, Serve, At
<1>4. Seeded(c)'
  BY <1>0, <1>1, <1>2, <1>3 DEF Seeded, At
<1> QED BY <1>1, <1>2, <1>4, SeedingKeeps

LEMMA DiesSeeding ==
  ASSUME IInv, NEW c \in Containers, Dies(c)
  PROVE  SeedingOnCourse'
<1>0. TypeOK
  BY DEF IInv
<1>1. (\A q \in Containers \ {c} : job'[q] = job[q]) /\ job'[c].step = "off"
  BY <1>0, GoToMoves DEF Dies, Exit
<1>2. account' = account /\ abandoned' = (abandoned \/ At(c, "create_customer"))
  BY DEF Dies, database
<1>3. Seeded(c)'
  BY <1>1 DEF Seeded, At
<1>4. "user" \in account' =>
        \/ "customer" \in account' \/ abandoned'
        \/ \E q \in Containers \ {c} : At(q, "create_customer")
  BY <1>2 DEF IInv, SeedingOnCourse, SeededAccountsAreWhole
<1> QED BY <1>1, <1>2, <1>3, <1>4, SeedingMoves

LEMMA NextSeeding == IInv /\ [Next]_vars => SeedingOnCourse'
<1> SUFFICES ASSUME IInv, [Next]_vars PROVE SeedingOnCourse'
  OBVIOUS
<1>0. TypeOK /\ SeedingOnCourse
  BY DEF IInv
<1>1. CASE UNCHANGED <<job, account, abandoned>>
  BY <1>0, <1>1 DEF SeedingOnCourse, SeededAccountsAreWhole, Seeded, At
<1>2. ASSUME NEW c \in Containers, Start(c) PROVE SeedingOnCourse'
  <2>1. UNCHANGED <<account, abandoned>> /\ ~At(c, "create_customer")
    BY <1>2 DEF Start, database, At
  <2>2. (\A q \in Containers \ {c} : job'[q] = job[q]) /\ job'[c].step = "check_admin"
    BY <1>0, <1>2, GoToMoves DEF Start
  <2>3. Seeded(c)'
    BY <2>2 DEF Seeded, At
  <2> QED BY <2>1, <2>2, <2>3, SeedingKeeps
<1>3. \A c \in Containers, r \in Refs, made \in {{}, {240}, Widths} :
        MakeThumbnails(c, r, made) \/ TakeOrder(c) => UNCHANGED <<job, account, abandoned>>
  BY DEF MakeThumbnails, TakeOrder, database
<1>4. UNCHANGED vars => UNCHANGED <<job, account, abandoned>>
  BY DEF vars, database
<1>5. CASE \E c \in Containers : TakeOrder(c)
  BY <1>1, <1>5 DEF TakeOrder, database
<1> QED
  BY <1>1, <1>2, <1>3, <1>4, <1>5, SeedSeeding, ImportSeeding, LinkSeeding, DiesSeeding
     DEF Next, Proceed

-----------------------------------------------------------------------------
(***************************************************************************)
(* The thumbnails.                                                         *)
(***************************************************************************)
\* Only the job of one chain changes, and a chain that runs has its image built.
LEMMA BuildMoves ==
  ASSUME IInv, NEW c \in Containers, build[c] = {}, UNCHANGED files,
         \A q \in Containers \ {c} : job'[q] = job[q]
  PROVE  \A q \in Containers : BuildOnCourse(q)'
<1> TAKE q \in Containers
<1>1. CASE q = c
  BY <1>1 DEF IInv, BuildOnCourse, files
<1>2. CASE q # c
  BY <1>2, BuildStays DEF IInv
<1> QED BY <1>1, <1>2

LEMMA MakeThumbnailsBuild ==
  ASSUME IInv, NEW c \in Containers, NEW r \in Refs, NEW made \in {{}, {240}, Widths},
         MakeThumbnails(c, r, made)
  PROVE  \A q \in Containers : BuildOnCourse(q)'
<1>0. /\ build \in [Containers -> SUBSET Refs]
      /\ thumbs \in [Containers -> SUBSET (Refs \X Widths)]
      /\ spoiled \in [Containers -> SUBSET Refs]
  BY DEF IInv, TypeOK
<1>1. /\ r \in build[c] /\ job' = job
      /\ build' = [build EXCEPT ![c] = build[c] \ {r}]
      /\ thumbs' = [thumbs EXCEPT ![c] = thumbs[c] \cup ({r} \X made)]
      /\ spoiled' = IF made = Widths THEN spoiled ELSE [spoiled EXCEPT ![c] = spoiled[c] \cup {r}]
  BY DEF MakeThumbnails
<1> TAKE q \in Containers
<1>2. BuildOnCourse(q)
  BY DEF IInv
<1>3. CASE q # c
  BY <1>0, <1>1, <1>2, <1>3 DEF BuildOnCourse, At
<1>4. CASE q = c
  <2>1. build'[c] = build[c] \ {r} /\ thumbs'[c] = thumbs[c] \cup ({r} \X made)
    BY <1>0, <1>1
  <2>2. spoiled[c] \subseteq spoiled'[c] /\ (made = Widths \/ r \in spoiled'[c])
    BY <1>0, <1>1
  <2>3. ASSUME NEW p \in Png[c], p \notin build'[c], p \notin spoiled'[c]
        PROVE  {p} \X Widths \subseteq thumbs'[c]
    <3>1. CASE p = r
      BY <2>1, <2>2, <2>3, <3>1
    <3>2. CASE p # r
      <4>1. p \notin build[c] /\ p \notin spoiled[c]
        BY <2>1, <2>2, <2>3, <3>2
      <4> QED BY <1>2, <1>4, <2>1, <4>1 DEF BuildOnCourse
    <3> QED BY <3>1, <3>2
  <2>4. ~At(c, "off")' => build'[c] = {}
    BY <1>1, <1>2, <1>4, <2>1 DEF BuildOnCourse, At
  <2> QED BY <1>4, <2>3, <2>4 DEF BuildOnCourse
<1> QED BY <1>3, <1>4

\* What a chain does, or its end, moves no other.
LEMMA ProceedMoves ==
  ASSUME TypeOK, NEW c \in Containers, Proceed(c) \/ Dies(c) \/ Start(c)
  PROVE  /\ \A q \in Containers \ {c} : job'[q] = job[q]
         /\ UNCHANGED files
         /\ Start(c) => build[c] = {}
         /\ ~Start(c) => ~At(c, "off")
<1>1. CASE Seed(c)
  <2>1. \A q \in Containers \ {c} : job'[q] = job[q]
    BY <1>1, GoToMoves
       DEF Seed, CheckAdmin, CheckUser, CreateAdmin, CreateUser, CreateCustomer, Insert, Exit
  <2> QED BY <1>1, <2>1
          DEF Seed, CheckAdmin, CheckUser, CreateAdmin, CreateUser, CreateCustomer, Insert, files, At,
              Start
<1>2. CASE Import(c)
  <2>1. \A q \in Containers \ {c} : job'[q] = job[q]
    BY <1>2, GoToMoves DEF Import, StartImport, CommitImport, ImportFails, Exit, TypeOK
  <2> QED BY <1>2, <2>1 DEF Import, StartImport, CommitImport, ImportFails, files, At, Start
<1>3. CASE Link(c)
  <2>1. \A q \in Containers \ {c} : job'[q] = job[q]
    BY <1>3, GoToMoves DEF Link, ReadProducts, LinkProduct, Serve, Exit, TypeOK
  <2> QED BY <1>3, <2>1 DEF Link, ReadProducts, LinkProduct, Serve, files, At, Start
<1>4. CASE Dies(c) \/ Start(c)
  <2>1. \A q \in Containers \ {c} : job'[q] = job[q]
    BY <1>4, GoToMoves DEF Dies, Start, Exit
  <2> QED BY <1>4, <2>1 DEF Dies, Start, files, At
<1> QED BY <1>1, <1>2, <1>3, <1>4 DEF Proceed

LEMMA NextBuild == IInv /\ [Next]_vars => \A c \in Containers : BuildOnCourse(c)'
<1> SUFFICES ASSUME IInv, [Next]_vars PROVE \A c \in Containers : BuildOnCourse(c)'
  OBVIOUS
<1>0. TypeOK /\ \A c \in Containers : BuildOnCourse(c)
  BY DEF IInv
<1>1. CASE UNCHANGED <<job, files>>
  BY <1>0, <1>1, BuildStays
<1>2. ASSUME NEW c \in Containers, Proceed(c) \/ Dies(c) \/ Start(c)
      PROVE  \A q \in Containers : BuildOnCourse(q)'
  <2>1. build[c] = {}
    BY <1>0, <1>2, ProceedMoves DEF BuildOnCourse
  <2> QED BY <1>0, <1>2, <2>1, ProceedMoves, BuildMoves
<1>3. UNCHANGED vars => UNCHANGED <<job, files>>
  BY DEF vars, files
<1>4. \A c \in Containers : TakeOrder(c) => UNCHANGED <<job, files>>
  BY DEF TakeOrder, files
<1> QED BY <1>1, <1>2, <1>3, <1>4, MakeThumbnailsBuild DEF Next

-----------------------------------------------------------------------------
(***************************************************************************)
(* The linking.                                                            *)
(***************************************************************************)
\* A step that writes no product, of a chain that neither begins to link nor goes on.
LEMMA LinkingKeeps ==
  ASSUME IInv, NEW c \in Containers,
         \A q \in Containers \ {c} : job'[q] = job[q],
         job'[c].step \notin {"linking", "serve"},
         \A q \in pictured' \ {c} : q \in pictured /\ product' = product
  PROVE  \A q \in Containers : LinkingOnCourse(q)'
<1> TAKE q \in Containers
<1>1. CASE q = c
  BY <1>1 DEF LinkingOnCourse, At
<1>2. CASE q # c
  <2>1. q \in pictured' => q \in pictured /\ product' = product
    BY <1>2
  <2> QED BY <1>2, <2>1, LinkingStays DEF IInv
<1> QED BY <1>1, <1>2

LEMMA SeedLinking ==
  ASSUME IInv, NEW c \in Containers, Seed(c)
  PROVE  \A q \in Containers : LinkingOnCourse(q)'
<1>0. TypeOK
  BY DEF IInv
<1>1. UNCHANGED <<product, pictured>>
  BY DEF Seed, CheckAdmin, CheckUser, CreateAdmin, CreateUser, CreateCustomer, Insert, database
<1>2. \A q \in Containers \ {c} : job'[q] = job[q]
  BY <1>0, ProceedMoves DEF Proceed
<1>3. job'[c].step \notin {"linking", "serve"}
  BY <1>0, GoToMoves
     DEF Seed, CheckAdmin, CheckUser, CreateAdmin, CreateUser, CreateCustomer, Insert, Exit, AfterAdmin
<1> QED BY <1>1, <1>2, <1>3, LinkingKeeps

LEMMA ImportLinking ==
  ASSUME IInv, NEW c \in Containers, Import(c)
  PROVE  \A q \in Containers : LinkingOnCourse(q)'
<1>0. TypeOK
  BY DEF IInv
<1>1. pictured' = {} \/ UNCHANGED <<product, pictured>>
  BY DEF Import, StartImport, CommitImport, ImportFails, database
<1>2. \A q \in Containers \ {c} : job'[q] = job[q]
  BY <1>0, ProceedMoves DEF Proceed
<1>3. job'[c].step \notin {"linking", "serve"}
  <2>1. CASE StartImport(c)
    <3>1. job'[c] = [step |-> "importing", from |-> imports]
      BY <1>0, <2>1 DEF StartImport, TypeOK
    <3> QED BY <3>1
  <2>2. CASE ImportFails(c) \/ \E kept \in SUBSET Refs : CommitImport(c, kept)
    <3>1. GoTo(c, "link") \/ GoTo(c, "off")
      BY <2>2 DEF CommitImport, ImportFails, Exit
    <3>2. job'[c].step = "link" \/ job'[c].step = "off"
      BY <1>0, <3>1, GoToMoves
    <3> QED BY <3>2
  <2> QED BY <2>1, <2>2 DEF Import
<1> QED BY <1>1, <1>2, <1>3, LinkingKeeps

LEMMA LinkProductLinking ==
  ASSUME IInv, NEW c \in Containers, NEW r \in Refs, LinkProduct(c, r)
  PROVE  \A q \in Containers : LinkingOnCourse(q)'
<1>0. TypeOK /\ LinkingOnCourse(c) /\ At(c, "linking") /\ r \in job[c].left
  BY DEF IInv, LinkProduct
<1>1. \A q \in Containers \ {c} : job'[q] = job[q]
  BY <1>0, ProceedMoves DEF Proceed, Link
<1>2. \A q \in pictured' \ {c} : q \in pictured /\ product' = product
  BY DEF LinkProduct
<1>3. CASE Exit(c)
  <2>1. job'[c].step = "off"
    BY <1>0, <1>3, GoToMoves DEF Exit
  <2> QED BY <1>1, <1>2, <2>1, LinkingKeeps
<1>4. CASE job' = [job EXCEPT ![c].left = @ \ {r}]
  <2>1. job[c] \in Linking /\ DOMAIN job = Containers
    BY <1>0, JobShape DEF TypeOK
  <2>2. /\ job'[c].step = "linking" /\ job'[c].seen = job[c].seen
        /\ job'[c].left = job[c].left \ {r}
    BY <1>4, <2>1 DEF Linking
  <2>3. ASSUME c \in pictured', NEW p \in Refs
        PROVE  /\ p \in job'[c].left => product'[p] = job'[c].seen[p]
               /\ p \notin job'[c].left /\ product'[p] # None => product'[p].image = Wanted(c, p)'
    <3>0. Wanted(c, p)' = Wanted(c, p) /\ Wanted(c, r)' = Wanted(c, r)
      BY DEF Wanted
    <3>1. c \in pictured
      BY <2>3 DEF LinkProduct
    <3>2. product[r] = job[c].seen[r] /\ product \in [Refs -> Row \cup {None}]
      BY <1>0, <3>1 DEF LinkingOnCourse, TypeOK
    <3>3. product[r] \in Row
      BY <1>0, <3>2, WrittenAreRows
    <3>4. CASE p = r
      <4>1. CASE product[r].image = Wanted(c, r)
        <5>1. product' = product
          BY <3>2, <4>1 DEF LinkProduct
        <5> QED BY <2>2, <3>0, <3>4, <4>1, <5>1
      <4>2. CASE product[r].image # Wanted(c, r)
        <5>1. product' = [product EXCEPT ![r].image = Wanted(c, r)]
          BY <3>2, <4>2 DEF LinkProduct
        <5>2. product'[r].image = Wanted(c, r)
          BY <3>2, <3>3, <5>1 DEF Row
        <5> QED BY <2>2, <3>0, <3>4, <5>2
      <4> QED BY <4>1, <4>2
    <3>5. CASE p # r
      <4>1. product'[p] = product[p]
        BY <3>2, <3>5 DEF LinkProduct
      <4> QED BY <1>0, <2>2, <3>0, <3>1, <3>5, <4>1 DEF LinkingOnCourse
    <3> QED BY <3>4, <3>5
  <2>4. LinkingOnCourse(c)'
    BY <1>0, <2>2, <2>3 DEF LinkingOnCourse, At
  <2>5. \A q \in Containers \ {c} : LinkingOnCourse(q)'
    BY <1>1, <1>2, LinkingStays DEF IInv
  <2> QED BY <2>4, <2>5
<1> QED BY <1>3, <1>4 DEF LinkProduct

LEMMA LinkLinking ==
  ASSUME IInv, NEW c \in Containers, Link(c)
  PROVE  \A q \in Containers : LinkingOnCourse(q)'
<1>0. TypeOK /\ LinkingOnCourse(c)
  BY DEF IInv
<1>1. CASE ReadProducts(c) \/ Serve(c)
  <2>1. \A q \in Containers \ {c} : job'[q] = job[q]
    BY <1>0, ProceedMoves DEF Proceed
  <2>2. product' = product /\ pictured' \subseteq pictured \cup {c}
    BY <1>1 DEF ReadProducts, Serve, database
  <2>3. \A q \in Containers \ {c} : LinkingOnCourse(q)'
    BY <2>1, <2>2, LinkingStays DEF IInv
  <2>4. LinkingOnCourse(c)'
    <3>1. CASE ReadProducts(c)
      <4>1. job'[c] = [step |-> "linking", seen |-> product,
                       left |-> {r \in Refs : product[r] # None}]
        BY <1>0, <3>1 DEF ReadProducts, TypeOK
      <4>2. /\ job'[c].step = "linking" /\ job'[c].seen = product
            /\ job'[c].left = {r \in Refs : product[r] # None}
        BY <4>1
      <4> QED BY <2>2, <4>2 DEF LinkingOnCourse, At
    <3>2. CASE Serve(c)
      <4>1. job'[c].step = "serve" /\ pictured' = pictured /\ At(c, "linking") /\ job[c].left = {}
        BY <1>0, <3>2, GoToMoves DEF Serve
      <4> QED BY <1>0, <2>2, <4>1 DEF LinkingOnCourse, At, Wanted
    <3> QED BY <1>1, <3>1, <3>2
  <2> QED BY <2>3, <2>4
<1> QED BY <1>1, LinkProductLinking DEF Link

LEMMA NextLinking == IInv /\ [Next]_vars => \A c \in Containers : LinkingOnCourse(c)'
<1> SUFFICES ASSUME IInv, [Next]_vars PROVE \A c \in Containers : LinkingOnCourse(c)'
  OBVIOUS
<1>0. TypeOK /\ \A c \in Containers : LinkingOnCourse(c)
  BY DEF IInv
<1>1. CASE UNCHANGED <<job, product, pictured>>
  BY <1>0, <1>1, LinkingStays
<1>2. ASSUME NEW c \in Containers, Dies(c) \/ Start(c)
      PROVE  \A q \in Containers : LinkingOnCourse(q)'
  <2>1. UNCHANGED <<product, pictured>>
    BY <1>2 DEF Dies, Start, database
  <2>2. job'[c].step \notin {"linking", "serve"}
    BY <1>0, <1>2, GoToMoves DEF Dies, Start, Exit
  <2>3. \A q \in Containers \ {c} : job'[q] = job[q]
    BY <1>0, <1>2, ProceedMoves
  <2> QED BY <2>1, <2>2, <2>3, LinkingKeeps
<1>3. UNCHANGED vars => UNCHANGED <<job, product, pictured>>
  BY DEF vars, database
<1>4. \A c \in Containers, r \in Refs, made \in {{}, {240}, Widths} :
        MakeThumbnails(c, r, made) \/ TakeOrder(c) => UNCHANGED <<job, product, pictured>>
  BY DEF MakeThumbnails, TakeOrder, database
<1>5. CASE \E c \in Containers : TakeOrder(c)
  BY <1>1, <1>5 DEF TakeOrder, database
<1> QED BY <1>1, <1>2, <1>3, <1>4, <1>5, SeedLinking, ImportLinking, LinkLinking DEF Next, Proceed

-----------------------------------------------------------------------------
(***************************************************************************)
(* Theorems.                                                               *)
(***************************************************************************)
LEMMA InitIInv == Init => IInv
<1> SUFFICES ASSUME Init PROVE IInv
  OBVIOUS
<1>1. \A c \in Containers : job[c].step = "off" /\ build[c] = Png[c]
  BY DEF Init
<1>2. SeedingOnCourse
  BY <1>1 DEF Init, SeedingOnCourse, SeededAccountsAreWhole, Seeded, At
<1>3. \A c \in Containers : BuildOnCourse(c) /\ LinkingOnCourse(c)
  BY <1>1 DEF BuildOnCourse, LinkingOnCourse, At
<1> QED BY <1>2, <1>3, InitType DEF IInv

LEMMA NextIInv == IInv /\ [Next]_vars => IInv'
  BY NextType, NextSeeding, NextBuild, NextLinking DEF IInv

THEOREM Invariance == Spec => []IInv
  BY InitIInv, NextIInv, PTL DEF Spec

\* The types of Startup, for any number of containers and builds (Dockerfile:26).
THEOREM TypeCorrect == Spec => []TypeOK
<1>1. IInv => TypeOK  BY DEF IInv
<1> QED BY Invariance, <1>1, PTL

\* A container that serves has both accounts, and the user its customer unless a chain ended
\* between the two inserts (accounts/management/commands/seed_users.py:24-33).
THEOREM AccountsWhole == Spec => []SeededAccountsAreWhole
<1>1. IInv => SeededAccountsAreWhole  BY DEF IInv, SeedingOnCourse
<1> QED BY Invariance, <1>1, PTL

\* A container that serves shows the images of its own build and has their thumbnails, whatever
\* chains were cut off before (catalog/management/commands/link_product_images.py:36-60).
THEOREM PicturesOfTheBuild == Spec => []PicturesAreOfTheBuild
<1>1. IInv => PicturesAreOfTheBuild
  <2> SUFFICES ASSUME IInv, NEW c \in pictured, At(c, "serve"),
                      NEW r \in Refs, product[r] # None
               PROVE  /\ product[r].image = (IF r \in Png[c] THEN "png" ELSE "")
                      /\ r \in Png[c] \ spoiled[c] => {r} \X Widths \subseteq thumbs[c]
    BY DEF PicturesAreOfTheBuild
  <2>1. c \in Containers
    BY DEF IInv, TypeOK
  <2>2. product[r].image = Wanted(c, r)
    BY <2>1 DEF IInv, LinkingOnCourse
  <2>3. build[c] = {}
    BY <2>1 DEF IInv, BuildOnCourse, At
  <2>4. r \in Png[c] \ spoiled[c] => {r} \X Widths \subseteq thumbs[c]
    BY <2>1, <2>3 DEF IInv, BuildOnCourse
  <2> QED BY <2>2, <2>4 DEF Wanted, Cleared
<1> QED BY Invariance, <1>1, PTL
=============================================================================
