-------------------------- MODULE AccountsProofs --------------------------
(***************************************************************************)
(* Proofs about Accounts, for any workers, emails, addresses and bounds.   *)
(***************************************************************************)
EXTENDS Accounts, WellFoundedInduction, TLAPS

-----------------------------------------------------------------------------
(***************************************************************************)
(* The inductive invariant, in four parts besides the types.               *)
(***************************************************************************)
RowSteps == {"load", "saveCustomer", "saveUser", "setPassword"}

\* A row that will be saved has the last password set, or that password was overlapped; links are
\* of hashes that were made, and used links are not of the last.
PasswordsAreSound ==
  /\ \A e \in Emails : user[e] # None =>
       user[e].hash <= hashes /\ (user[e].hash = latest[e] \/ e \in overlapped)
  /\ \A l \in links : l.hash <= hashes
  /\ used \subseteq links /\ \A l \in used : l.hash # latest[l.email]
  /\ \A w \in Workers : job[w].step \in RowSteps =>
       user[job[w].email] # None /\ job[w].row.hash <= hashes
  /\ \A w \in Workers, e \in Emails : WillSave(w, e) =>
       job[w].row.hash = latest[e] \/ e \in overlapped
  /\ \A w \in Workers : job[w].step = "setPassword" =>
       /\ job[w].link \in links
       /\ job[w].link.email = job[w].email /\ job[w].link.hash = job[w].row.hash

CreatedSteps == {"group", "customer", "answer"}

\* One worker at most registers a user, who is not answered yet and has what the step says.
RegistrationsAreSound ==
  /\ AccountsAreWhole
  /\ \A w \in Workers : job[w].step \in CreatedSteps =>
       /\ user[job[w].email] # None /\ answered[job[w].email] = 0
       /\ job[w].step # "group" => job[w].email \in groups
       /\ job[w].step = "answer" => customer[job[w].email] # None
  /\ \A v, w \in Workers :
       /\ job[v].step \in CreatedSteps /\ job[w].step \in CreatedSteps
       /\ job[v].email = job[w].email
       => v = w

\* Keys come from the sequence, and nobody holds a row that is gone.
KeysAreSound ==
  /\ \A i \in Ids : address[i] # None => i < nextId
  /\ \A i \in gone : address[i] = None /\ i < nextId
  /\ \A w \in Workers, i \in Ids : WillSaveAddress(w, i) => i < nextId /\ i \notin gone
  /\ \A w \in Workers : job[w].step = "crmDelete" => job[w].at < nextId

\* What an undisturbed worker knows of the default address is still so.
KnowsTheDefault(w, e) ==
  job[w].step \in {"first", "address"} /\ job[w].email = e =>
    /\ job[w].step = "first" => Defaults(e) = {}
    /\ job[w].step = "address" => job[w].at = Shown(e)

DefaultsAreKnown == \A w \in Workers \ disturbed, e \in Emails : KnowsTheDefault(w, e)

IInv ==
  /\ TypeOK
  /\ PasswordsAreSound
  /\ RegistrationsAreSound
  /\ KeysAreSound
  /\ DefaultsAreKnown

-----------------------------------------------------------------------------
(***************************************************************************)
(* Jobs.                                                                   *)
(***************************************************************************)
LEMMA JobShape ==
  ASSUME TypeOK, NEW w \in Workers
  PROVE  /\ job[w].step \in {"create", "group", "customer", "answer"} => job[w] \in RegisterJob
         /\ job[w].step \in {"load", "saveUser"} => job[w] \in UserJob
         /\ job[w].step = "saveCustomer" => job[w] \in CustomerJob
         /\ job[w].step \in {"default", "first"} => job[w] \in DefaultJob
         /\ job[w].step = "address" => job[w] \in AddressJob
         /\ job[w].step = "setPassword" => job[w] \in PasswordJob
         /\ job[w].step = "crmSave" => job[w] \in CrmSaveJob
         /\ job[w].step = "crmDelete" => job[w] \in CrmDelJob
<1>1. job[w] \in Job  BY DEF TypeOK
<1>2. QED
  BY <1>1 DEF Job, Idle, RegisterJob, UserJob, CustomerJob, DefaultJob, AddressJob, PasswordJob,
              CrmSaveJob, CrmDelJob

LEMMA GotoJob ==
  ASSUME TypeOK, NEW w \in Workers, NEW j \in Job, Goto(w, j)
  PROVE  /\ job' \in [Workers -> Job]
         /\ job'[w] = j
         /\ \A v \in Workers : v # w => job'[v] = job[v]
  BY DEF TypeOK, Goto

LEMMA IdleIsAJob == Idle \in Job /\ Idle.step = "idle"
  BY DEF Job, Idle

-----------------------------------------------------------------------------
(***************************************************************************)
(* Types.                                                                  *)
(***************************************************************************)
LEMMA InitTypes == Init => TypeOK
<1> SUFFICES ASSUME Init PROVE TypeOK  OBVIOUS
<1> USE BoundsAssumption DEF Init
<1>1. /\ user \in [Emails -> User \cup {None}] /\ customer \in [Emails -> Phones \cup {None}]
      /\ address \in [Ids -> Address \cup {None}]
  OBVIOUS
<1>2. latest \in [Emails -> 0..MaxHashes] /\ answered \in [Emails -> Nat] /\ hashes \in 0..MaxHashes
  OBVIOUS
<1>3. job \in [Workers -> Job]  BY IdleIsAJob
<1>4. nextId \in 1..MaxAddresses + 1  OBVIOUS
<1>5. QED  BY <1>1, <1>2, <1>3, <1>4 DEF TypeOK

LEMMA RegisterTypes ==
  ASSUME TypeOK, NEW w \in Workers,
         \/ \E e \in Emails : CheckEmail(w, e)
         \/ \E name \in Names : CreateUser(w, name)
         \/ AddToGroup(w)
         \/ \E phone \in Phones : CreateCustomer(w, phone)
         \/ AnswerRegistration(w)
  PROVE  TypeOK'
<1> USE DEF accounts, book, secrets, register
<1>1. CASE \E e \in Emails : CheckEmail(w, e)
  <2>1. PICK e \in Emails : CheckEmail(w, e)  BY <1>1
  <2>2. [step |-> "create", email |-> e] \in Job  BY DEF Job, RegisterJob
  <2>3. QED  BY <2>1, <2>2, GotoJob DEF CheckEmail, TypeOK
<1>2. CASE \E name \in Names : CreateUser(w, name)
  <2>1. PICK name \in Names : CreateUser(w, name)  BY <1>2
  <2>2. job[w] \in RegisterJob  BY <2>1, JobShape DEF CreateUser
  <2> DEFINE e == Normal[job[w].email]
  <2>3. e \in Emails  BY <2>2, NormalAssumption DEF RegisterJob
  <2>4. [step |-> "group", email |-> e] \in Job  BY <2>3 DEF Job, RegisterJob
  <2>5. job' \in [Workers -> Job]
    BY <2>1, <2>4, GotoJob, IdleIsAJob DEF CreateUser
  <2>6. CASE UNCHANGED <<user, hashes, latest, overlapped>>
    BY <2>1, <2>5, <2>6 DEF CreateUser, TypeOK
  <2>7. CASE /\ hashes < MaxHashes /\ hashes' = hashes + 1
             /\ user' = [user EXCEPT ![e] = [hash |-> hashes', name |-> name]]
             /\ latest' = [latest EXCEPT ![e] = hashes'] /\ overlapped' = overlapped \ {e}
    <3>1. hashes' \in 1..MaxHashes /\ hashes' \in 0..MaxHashes
      BY <2>7, BoundsAssumption DEF TypeOK
    <3>2. [hash |-> hashes', name |-> name] \in User  BY <3>1 DEF User
    <3>3. user' \in [Emails -> User \cup {None}] /\ latest' \in [Emails -> 0..MaxHashes]
      BY <2>7, <3>1, <3>2 DEF TypeOK
    <3>4. overlapped' \subseteq Emails  BY <2>7 DEF TypeOK
    <3>5. QED  BY <2>1, <2>5, <3>1, <3>3, <3>4 DEF CreateUser, TypeOK
  <2>8. QED  BY <2>1, <2>6, <2>7 DEF CreateUser
<1>3. CASE AddToGroup(w)
  <2>1. job[w] \in RegisterJob  BY <1>3, JobShape DEF AddToGroup
  <2>2. [job[w] EXCEPT !.step = "customer"] \in Job  BY <2>1 DEF Job, RegisterJob
  <2>3. QED  BY <1>3, <2>1, <2>2, GotoJob DEF AddToGroup, TypeOK, RegisterJob
<1>4. CASE \E phone \in Phones : CreateCustomer(w, phone)
  <2>1. PICK phone \in Phones : CreateCustomer(w, phone)  BY <1>4
  <2>2. job[w] \in RegisterJob  BY <2>1, JobShape DEF CreateCustomer
  <2>3. [job[w] EXCEPT !.step = "answer"] \in Job  BY <2>2 DEF Job, RegisterJob
  <2>4. customer' \in [Emails -> Phones \cup {None}]  BY <2>1 DEF CreateCustomer, TypeOK
  <2>5. QED  BY <2>1, <2>3, <2>4, GotoJob DEF CreateCustomer, TypeOK
<1>5. CASE AnswerRegistration(w)
  <2> job[w].email \in Emails
    BY <1>5, JobShape DEF AnswerRegistration, RegisterJob
  <2>1. answered' \in [Emails -> Nat]
    BY <1>5 DEF AnswerRegistration, TypeOK
  <2>2. QED  BY <1>5, <2>1, GotoJob, IdleIsAJob DEF AnswerRegistration, TypeOK
<1>6. QED  BY <1>1, <1>2, <1>3, <1>4, <1>5

LEMMA AfterUserIsAJob ==
  ASSUME NEW j, j \in UserJob \cup CustomerJob
  PROVE  AfterUser(j) \in Job /\ AfterUser(j).step \in {"idle", "default"}
<1>1. j.email \in Emails /\ j.given.place \in Places \cup {None}
  BY DEF UserJob, CustomerJob, Profile
<1>2. QED  BY <1>1 DEF AfterUser, Job, DefaultJob, Idle

LEMMA AfterCustomerIsAJob ==
  ASSUME NEW j \in CustomerJob
  PROVE  /\ AfterCustomer(j) \in Job
         /\ \/ AfterCustomer(j).step \in {"idle", "default"}
            \/ /\ j.given.name # None
               /\ AfterCustomer(j) = [step |-> "saveUser", email |-> j.email, given |-> j.given,
                                      row |-> [j.row EXCEPT !.name = j.given.name]]
<1>1. CASE j.given.name = None
  BY <1>1, AfterUserIsAJob DEF AfterCustomer
<1>2. CASE j.given.name # None
  <2>1. [j.row EXCEPT !.name = j.given.name] \in User
    BY <1>2 DEF CustomerJob, User, Profile
  <2>2. QED  BY <1>2, <2>1 DEF AfterCustomer, CustomerJob, Job, UserJob
<1>3. QED  BY <1>1, <1>2

LEMMA HasSmallest ==
  ASSUME NEW S, S \subseteq Nat, S # {}
  PROVE  \E i \in S : \A k \in S : i <= k
<1> DEFINE Below == OpToRel(<, Nat)
<1>1. IsWellFoundedOn(Below, Nat)  BY NatLessThanWellFounded
<1>2. PICK i \in S : \A k \in S : ~(<<k, i>> \in Below)
  <2> HIDE DEF Below
  <2> QED  BY <1>1, WFMin
<1>3. \A k \in S : <<k, i>> \in Nat \X Nat /\ ~(k < i)  BY <1>2 DEF OpToRel
<1> HIDE DEF Below
<1>4. i \in Nat /\ \A k \in S : k \in Nat /\ ~(k < i)  BY <1>3
<1>5. QED  BY <1>4

LEMMA FirstOfIds ==
  ASSUME NEW S, S \subseteq Ids
  PROVE  /\ FirstOf(S) \in Ids \cup {0}
         /\ FirstOf(S) = 0 <=> S = {}
         /\ S # {} => FirstOf(S) \in S /\ \A k \in S : FirstOf(S) <= k
<1>1. S \subseteq Nat /\ 0 \notin S  BY BoundsAssumption DEF Ids
<1>2. CASE S = {}  BY <1>2 DEF FirstOf
<1>3. CASE S # {}
  <2>1. \E i \in S : \A k \in S : i <= k  BY <1>1, <1>3, HasSmallest
  <2>2. FirstOf(S) \in S /\ \A k \in S : FirstOf(S) <= k  BY <1>3, <2>1 DEF FirstOf
  <2>3. QED  BY <1>1, <2>2
<1>4. QED  BY <1>2, <1>3

LEMMA InsertTypes ==
  ASSUME TypeOK, NEW row \in Address, Insert(row)
  PROVE  /\ address' \in [Ids -> Address \cup {None}] /\ nextId' \in 1..MaxAddresses + 1
         /\ nextId \in Ids /\ nextId' = nextId + 1
<1>1. address' \in [Ids -> Address \cup {None}]  BY DEF Insert, TypeOK
<1>2. nextId \in Ids /\ nextId' = nextId + 1 /\ nextId' \in 1..MaxAddresses + 1
  BY BoundsAssumption DEF Insert, TypeOK, Ids
<1>3. QED  BY <1>1, <1>2

LEMMA ProfileTypes ==
  ASSUME TypeOK, NEW w \in Workers,
         \/ \E e \in Emails, given \in Profile : StartProfile(w, e, given)
         \/ LoadCustomer(w) \/ SaveCustomer(w) \/ SaveUser(w)
         \/ ReadDefault(w) \/ ReadFirst(w) \/ SaveAddress(w)
  PROVE  TypeOK'
<1> USE DEF accounts, book, secrets, register
<1>1. CASE \E e \in Emails, given \in Profile : StartProfile(w, e, given)
  <2>1. PICK e \in Emails, given \in Profile : StartProfile(w, e, given)  BY <1>1
  <2>2. user[e] \in User  BY <2>1 DEF StartProfile, TypeOK
  <2>3. [step |-> "load", email |-> e, given |-> given, row |-> user[e]] \in Job
    BY <2>2 DEF Job, UserJob
  <2>4. QED  BY <2>1, <2>3, GotoJob DEF StartProfile, TypeOK
<1>2. CASE LoadCustomer(w)
  <2>1. job[w] \in UserJob  BY <1>2, JobShape DEF LoadCustomer
  <2>2. CASE customer[job[w].email] # None
    <3>1. customer[job[w].email] \in Phones  BY <2>1, <2>2 DEF TypeOK, UserJob
    <3>2. [step |-> "saveCustomer", email |-> job[w].email, given |-> job[w].given,
           row |-> job[w].row, phone |-> customer[job[w].email]] \in Job
      BY <2>1, <3>1 DEF UserJob, CustomerJob, Job
    <3>3. job' \in [Workers -> Job]  BY <1>2, <3>2, GotoJob, IdleIsAJob DEF LoadCustomer
    <3>4. QED  BY <1>2, <3>3 DEF LoadCustomer, TypeOK
  <2>3. CASE customer[job[w].email] = None
    BY <1>2, <2>3, GotoJob, IdleIsAJob DEF LoadCustomer, TypeOK
  <2>4. QED  BY <2>2, <2>3
<1>3. CASE SaveCustomer(w)
  <2>1. job[w] \in CustomerJob  BY <1>3, JobShape DEF SaveCustomer
  <2>2. customer' \in [Emails -> Phones \cup {None}]
    BY <1>3, <2>1 DEF SaveCustomer, TypeOK, CustomerJob, Profile
  <2>3. QED  BY <1>3, <2>1, <2>2, AfterCustomerIsAJob, GotoJob DEF SaveCustomer, TypeOK
<1>4. CASE SaveUser(w)
  <2>1. job[w] \in UserJob  BY <1>4, JobShape DEF SaveUser
  <2>2. user' \in [Emails -> User \cup {None}]
    BY <1>4, <2>1 DEF SaveUser, Saves, UserJob, TypeOK
  <2>3. QED  BY <1>4, <2>1, <2>2, AfterUserIsAJob, GotoJob DEF SaveUser, TypeOK
<1>5. CASE ReadDefault(w)
  <2>1. job[w] \in DefaultJob  BY <1>5, JobShape DEF ReadDefault
  <2>2. [job[w] EXCEPT !.step = "first"] \in Job  BY <2>1 DEF DefaultJob, Job
  <2>3. FirstDefault(job[w].email) \in Ids \cup {0}
    BY FirstOfIds DEF FirstDefault, Defaults, Owned
  <2>4. [step |-> "address", email |-> job[w].email, place |-> job[w].place,
         at |-> FirstDefault(job[w].email)] \in Job
    BY <2>1, <2>3 DEF DefaultJob, AddressJob, Job
  <2>5. job' \in [Workers -> Job]  BY <1>5, <2>2, <2>4, GotoJob DEF ReadDefault
  <2>6. QED  BY <1>5, <2>5 DEF ReadDefault, TypeOK
<1>6. CASE ReadFirst(w)
  <2>1. job[w] \in DefaultJob  BY <1>6, JobShape DEF ReadFirst
  <2>2. FirstAddress(job[w].email) \in Ids \cup {0}
    BY FirstOfIds DEF FirstAddress, Owned
  <2>3. [step |-> "address", email |-> job[w].email, place |-> job[w].place,
         at |-> FirstAddress(job[w].email)] \in Job
    BY <2>1, <2>2 DEF DefaultJob, AddressJob, Job
  <2>4. QED  BY <1>6, <2>3, GotoJob DEF ReadFirst, TypeOK
<1>7. CASE SaveAddress(w)
  <2>1. job[w] \in AddressJob  BY <1>7, JobShape DEF SaveAddress
  <2> DEFINE row == [owner |-> job[w].email, place |-> job[w].place, default |-> TRUE]
  <2>2. row \in Address  BY <2>1 DEF AddressJob, Address
  <2>3. address' \in [Ids -> Address \cup {None}] /\ nextId' \in 1..MaxAddresses + 1
    <3>1. CASE job[w].at = 0
      BY <1>7, <2>2, <3>1, InsertTypes DEF SaveAddress
    <3>2. CASE job[w].at # 0
      BY <1>7, <2>2, <3>2 DEF SaveAddress, TypeOK
    <3>3. QED  BY <3>1, <3>2
  <2>4. job' \in [Workers -> Job] /\ disturbed' \subseteq Workers
    BY <1>7, GotoJob, IdleIsAJob DEF SaveAddress, Disturb, TypeOK
  <2>5. QED  BY <1>7, <2>3, <2>4 DEF SaveAddress, TypeOK
<1>8. QED  BY <1>1, <1>2, <1>3, <1>4, <1>5, <1>6, <1>7

LEMMA OtherTypes ==
  ASSUME TypeOK, NEW w \in Workers,
         \/ \E i \in Ids, given \in Change : CrmRead(w, i, given)
         \/ CrmSave(w)
         \/ \E i \in Ids : CrmReadToDelete(w, i)
         \/ CrmDelete(w)
         \/ \E link \in links : CheckToken(w, link)
         \/ SetPassword(w)
         \/ RequestDies(w)
         \/ \E e \in Emails, place \in Places, default \in BOOLEAN : AddAddress(e, place, default)
         \/ \E e \in Emails : SendLink(e)
  PROVE  TypeOK'
<1> USE DEF accounts, book, secrets, register
<1>1. CASE \E i \in Ids, given \in Change : CrmRead(w, i, given)
  <2>1. PICK i \in Ids, given \in Change : CrmRead(w, i, given)  BY <1>1
  <2>2. [step |-> "crmSave", at |-> i, row |-> address[i], given |-> given] \in Job
    BY <2>1 DEF CrmRead, TypeOK, Job, CrmSaveJob
  <2>3. QED  BY <2>1, <2>2, GotoJob DEF CrmRead, TypeOK
<1>2. CASE CrmSave(w)
  <2>1. job[w] \in CrmSaveJob  BY <1>2, JobShape DEF CrmSave
  <2>2. address' \in [Ids -> Address \cup {None}]
    <3> DEFINE row == [job[w].row EXCEPT
                         !.place = IF job[w].given.place = None THEN @ ELSE job[w].given.place,
                         !.default = IF job[w].given.default = None THEN @ ELSE job[w].given.default]
    <3>1. row \in Address  BY <2>1 DEF CrmSaveJob, Address, Change
    <3>2. address' = [address EXCEPT ![job[w].at] = row]  BY <1>2 DEF CrmSave
    <3>3. QED  BY <3>1, <3>2 DEF TypeOK
  <2>3. QED
    BY <1>2, <2>2, GotoJob, IdleIsAJob DEF CrmSave, Disturb, TypeOK
<1>3. CASE \E i \in Ids : CrmReadToDelete(w, i)
  <2>1. PICK i \in Ids : CrmReadToDelete(w, i)  BY <1>3
  <2>2. [step |-> "crmDelete", at |-> i] \in Job  BY DEF Job, CrmDelJob
  <2>3. QED  BY <2>1, <2>2, GotoJob DEF CrmReadToDelete, TypeOK
<1>4. CASE CrmDelete(w)
  <2>1. job[w].at \in Ids  BY <1>4, JobShape DEF CrmDelete, CrmDelJob
  <2>2. QED  BY <1>4, <2>1, GotoJob, IdleIsAJob DEF CrmDelete, Disturb, TypeOK
<1>5. CASE \E link \in links : CheckToken(w, link)
  <2>1. PICK link \in links : CheckToken(w, link)  BY <1>5
  <2>2. link \in Link /\ user[link.email] \in User
    BY <2>1 DEF CheckToken, TokenIsValid, TypeOK, Link
  <2>3. [step |-> "setPassword", email |-> link.email, row |-> user[link.email], link |-> link] \in Job
    BY <2>2 DEF Job, PasswordJob, Link
  <2>4. QED  BY <2>1, <2>3, GotoJob DEF CheckToken, TypeOK
<1>6. CASE SetPassword(w)
  <2>1. job[w] \in PasswordJob  BY <1>6, JobShape DEF SetPassword
  <2>2. hashes' \in 1..MaxHashes /\ hashes' \in 0..MaxHashes
    BY <1>6, BoundsAssumption DEF SetPassword, TypeOK
  <2>3. [job[w].row EXCEPT !.hash = hashes'] \in User  BY <2>1, <2>2 DEF PasswordJob, User
  <2>4. user' \in [Emails -> User \cup {None}] /\ latest' \in [Emails -> 0..MaxHashes]
    BY <1>6, <2>2, <2>3 DEF SetPassword, Saves, TypeOK
  <2>5. overlapped' \subseteq Emails /\ used' \subseteq Link
    BY <1>6, <2>1 DEF SetPassword, PasswordJob, TypeOK
  <2>6. job' \in [Workers -> Job]  BY <1>6, GotoJob, IdleIsAJob DEF SetPassword
  <2>7. QED  BY <1>6, <2>2, <2>4, <2>5, <2>6 DEF SetPassword, TypeOK
<1>7. CASE RequestDies(w)
  <2>1. abandoned' \subseteq Emails
    BY <1>7, JobShape DEF RequestDies, RegisterJob, TypeOK
  <2>2. QED  BY <1>7, <2>1, GotoJob, IdleIsAJob DEF RequestDies, TypeOK
<1>8. CASE \E e \in Emails, place \in Places, default \in BOOLEAN : AddAddress(e, place, default)
  <2>1. PICK e \in Emails, place \in Places, default \in BOOLEAN : AddAddress(e, place, default)
    BY <1>8
  <2>2. [owner |-> e, place |-> place, default |-> default] \in Address  BY DEF Address
  <2>3. QED  BY <2>1, <2>2, InsertTypes DEF AddAddress, Disturb, TypeOK
<1>9. CASE \E e \in Emails : SendLink(e)
  <2>1. PICK e \in Emails : SendLink(e)  BY <1>9
  <2>2. [email |-> e, hash |-> user[e].hash] \in Link
    BY <2>1 DEF SendLink, TypeOK, User, Link
  <2>3. QED  BY <2>1, <2>2 DEF SendLink, TypeOK
<1>10. QED  BY <1>1, <1>2, <1>3, <1>4, <1>5, <1>6, <1>7, <1>8, <1>9

-----------------------------------------------------------------------------
(***************************************************************************)
(* Passwords.                                                              *)
(***************************************************************************)
\* A worker goes on to save the row it holds, or to save none.
KeepsRow(v) ==
  \/ job'[v] = job[v]
  \/ job'[v].step \notin RowSteps
  \/ /\ job[v].step \in RowSteps \ {"setPassword"} /\ job'[v].step \in RowSteps \ {"setPassword"}
     /\ job'[v].email = job[v].email /\ job'[v].row.hash = job[v].row.hash
     /\ job'[v].given = job[v].given
     /\ job'[v].step = "saveUser" => job[v].given.name # None

LEMMA WillSaveKept ==
  ASSUME NEW v, NEW e, KeepsRow(v), WillSave(v, e)'
  PROVE  WillSave(v, e)
  BY DEF KeepsRow, WillSave, RowSteps

LEMMA QuietPasswords ==
  ASSUME TypeOK, PasswordsAreSound,
         UNCHANGED <<user, hashes, latest, overlapped, links, used>>,
         \A v \in Workers : KeepsRow(v)
  PROVE  PasswordsAreSound'
<1>1. \A w \in Workers : job'[w].step \in RowSteps =>
        /\ job[w].step \in RowSteps
        /\ job'[w].email = job[w].email /\ job'[w].row.hash = job[w].row.hash
  BY DEF KeepsRow
<1>2. \A w \in Workers : job'[w].step = "setPassword" => job'[w] = job[w]
  BY DEF KeepsRow, RowSteps
<1>3. \A w \in Workers : \A e : WillSave(w, e)' => WillSave(w, e)
  BY WillSaveKept
<1>4. \A w \in Workers, e \in Emails : WillSave(w, e)' =>
       job'[w].row.hash = latest[e] \/ e \in overlapped
  <2>1. \A w \in Workers : \A e : WillSave(w, e)' => job'[w].step \in RowSteps
    BY DEF WillSave, RowSteps
  <2>2. QED  BY <1>1, <1>3, <2>1 DEF PasswordsAreSound
<1>5. QED  BY <1>1, <1>2, <1>3, <1>4 DEF PasswordsAreSound

LEMMA CreateUserPasswords ==
  ASSUME TypeOK, PasswordsAreSound, NEW w \in Workers, NEW name \in Names, CreateUser(w, name)
  PROVE  PasswordsAreSound'
<1> DEFINE e == Normal[job[w].email]
<1>1. job[w] \in RegisterJob /\ e \in Emails
  BY JobShape, NormalAssumption DEF CreateUser, RegisterJob
<1>2. \A v \in Workers : v # w => job'[v] = job[v]
  BY DEF CreateUser, Goto, TypeOK
<1>3. job'[w].step \notin RowSteps
  BY GotoJob, IdleIsAJob, <1>1 DEF CreateUser, Goto, TypeOK, RowSteps, Idle
<1>4. CASE UNCHANGED <<user, hashes, latest, overlapped>>
  BY <1>2, <1>3, <1>4, QuietPasswords DEF CreateUser, KeepsRow
<1>5. CASE /\ user[e] = None /\ hashes < MaxHashes /\ hashes' = hashes + 1
           /\ user' = [user EXCEPT ![e] = [hash |-> hashes', name |-> name]]
           /\ latest' = [latest EXCEPT ![e] = hashes'] /\ overlapped' = overlapped \ {e}
  <2>1. hashes \in Nat /\ hashes' = hashes + 1  BY <1>5 DEF TypeOK
  <2>2. /\ user'[e].hash = hashes' /\ latest'[e] = hashes'
        /\ \A d \in Emails : d # e => /\ user'[d] = user[d] /\ latest'[d] = latest[d]
                                      /\ d \in overlapped' <=> d \in overlapped
    BY <1>1, <1>5 DEF TypeOK
  <2>3. links' = links /\ used' = used  BY DEF CreateUser
  <2>4. \A d \in Emails : user'[d] # None =>
          user'[d].hash <= hashes' /\ (user'[d].hash = latest'[d] \/ d \in overlapped')
    <3>1. \A d \in Emails : user[d] # None => user[d].hash \in Nat  BY BoundsAssumption DEF TypeOK, User
    <3>2. QED  BY <2>1, <2>2, <3>1 DEF PasswordsAreSound
  <2>5. \A l \in links : l.hash <= hashes'
    BY <2>1, BoundsAssumption DEF PasswordsAreSound, TypeOK, Link
  <2>6. \A l \in used : l.hash # latest'[l.email]
    <3>1. \A l \in used : l \in links /\ l.email \in Emails /\ l.hash \in Nat
      BY BoundsAssumption DEF PasswordsAreSound, TypeOK, Link
    <3>2. \A l \in used : l.hash <= hashes  BY <3>1 DEF PasswordsAreSound
    <3>3. QED  BY <2>1, <2>2, <3>1, <3>2 DEF PasswordsAreSound
  <2>7. \A v \in Workers : job'[v].step \in RowSteps =>
          /\ v # w /\ job'[v] = job[v] /\ job[v].email \in Emails /\ job[v].email # e
          /\ job[v].row.hash \in Nat
    <3>1. \A v \in Workers : job[v].step \in RowSteps => job[v] \in UserJob \cup CustomerJob \cup PasswordJob
      BY JobShape DEF RowSteps
    <3>2. \A v \in Workers : job[v].step \in RowSteps => job[v].email \in Emails /\ job[v].row.hash \in Nat
      BY <3>1, BoundsAssumption DEF UserJob, CustomerJob, PasswordJob, User
    <3>3. QED  BY <1>2, <1>3, <1>5, <3>2 DEF PasswordsAreSound
  <2>8. \A v \in Workers, d \in Emails : job'[v].step \in RowSteps => (WillSave(v, d)' <=> WillSave(v, d))
    BY <2>7 DEF WillSave
  <2>9. \A v \in Workers : job'[v].step \in RowSteps =>
          user'[job'[v].email] # None /\ job'[v].row.hash <= hashes'
    BY <2>1, <2>2, <2>7 DEF PasswordsAreSound
  <2>12. \A v \in Workers, d \in Emails : WillSave(v, d)' =>
           job'[v].row.hash = latest'[d] \/ d \in overlapped'
    <3>1. \A v \in Workers, d \in Emails : WillSave(v, d)' =>
            job'[v].step \in RowSteps /\ job'[v].email = d
      BY DEF WillSave, RowSteps
    <3>2. QED  BY <2>2, <2>7, <2>8, <3>1 DEF PasswordsAreSound
  <2>10. \A v \in Workers : job'[v].step = "setPassword" =>
       /\ job'[v].link \in links
       /\ job'[v].link.email = job'[v].email /\ job'[v].link.hash = job'[v].row.hash
    BY <2>7 DEF PasswordsAreSound, RowSteps
  <2>11. QED
    BY <2>3, <2>4, <2>5, <2>6, <2>7, <2>9, <2>10, <2>12 DEF PasswordsAreSound
<1>6. QED  BY <1>4, <1>5 DEF CreateUser, IsUnique

\* The row of a request that will save it, and what it holds.
LEMMA RowShape ==
  ASSUME TypeOK, NEW w \in Workers, job[w].step \in RowSteps
  PROVE  job[w].email \in Emails /\ job[w].row \in User /\ job[w].row.hash \in Nat
<1>1. job[w] \in UserJob \cup CustomerJob \cup PasswordJob  BY JobShape DEF RowSteps
<1>2. QED  BY <1>1, BoundsAssumption DEF UserJob, CustomerJob, PasswordJob, User

LEMMA ReadPasswords ==
  ASSUME TypeOK, PasswordsAreSound, NEW w \in Workers, NEW e \in Emails, user[e] # None,
         UNCHANGED <<user, hashes, latest, overlapped, links, used>>,
         \A v \in Workers : v # w => job'[v] = job[v],
         job'[w].step \in {"load", "setPassword"}, job'[w].email = e, job'[w].row = user[e],
         job'[w].step = "setPassword" =>
           job'[w].link \in links /\ job'[w].link.email = e /\ job'[w].link.hash = user[e].hash
  PROVE  PasswordsAreSound'
<1>1. /\ user[e].hash <= hashes
      /\ user[e].hash = latest[e] \/ e \in overlapped
  BY DEF PasswordsAreSound
<1>2. \A v \in Workers : job'[v].step \in RowSteps =>
        user[job'[v].email] # None /\ job'[v].row.hash <= hashes
  BY <1>1 DEF PasswordsAreSound
<1>3. \A v \in Workers, d \in Emails : WillSave(v, d)' =>
        job'[v].row.hash = latest[d] \/ d \in overlapped
  <2>1. \A d \in Emails : WillSave(w, d)' => d = e  BY DEF WillSave
  <2>2. \A v \in Workers, d \in Emails : v # w /\ WillSave(v, d)' => WillSave(v, d)
    BY DEF WillSave
  <2>3. QED  BY <1>1, <2>1, <2>2 DEF PasswordsAreSound
<1>4. \A v \in Workers : job'[v].step = "setPassword" =>
       /\ job'[v].link \in links
       /\ job'[v].link.email = job'[v].email /\ job'[v].link.hash = job'[v].row.hash
  BY DEF PasswordsAreSound
<1>5. QED  BY <1>2, <1>3, <1>4 DEF PasswordsAreSound

LEMMA SaveUserPasswords ==
  ASSUME TypeOK, PasswordsAreSound, NEW w \in Workers, SaveUser(w)
  PROVE  PasswordsAreSound'
<1> DEFINE e == job[w].email
           h == job[w].row.hash
<1>1. job[w].step \in RowSteps /\ job[w] \in UserJob  BY JobShape DEF SaveUser, RowSteps
<1>2. e \in Emails /\ job[w].row \in User /\ h \in Nat  BY <1>1, RowShape
<1>3. /\ \A v \in Workers : v # w => job'[v] = job[v]
      /\ job'[w].step \notin RowSteps
  BY <1>1, GotoJob, AfterUserIsAJob DEF SaveUser, RowSteps
<1>4. /\ user'[e] = job[w].row
      /\ \A d \in Emails : d # e => user'[d] = user[d]
      /\ UNCHANGED <<hashes, latest, overlapped, links, used>>
  BY <1>2 DEF SaveUser, Saves, TypeOK, secrets
<1>5. job[w].row # None  BY <1>2, NoneAssumption
<1>6. h <= hashes /\ (h = latest[e] \/ e \in overlapped)
  BY <1>1, <1>2 DEF PasswordsAreSound, SaveUser, WillSave
<1>7. \A d \in Emails : user'[d] # None =>
        user'[d].hash <= hashes /\ (user'[d].hash = latest[d] \/ d \in overlapped)
  BY <1>2, <1>4, <1>6 DEF PasswordsAreSound
<1>8. \A v \in Workers : job'[v].step \in RowSteps =>
        user'[job'[v].email] # None /\ job'[v].row.hash <= hashes
  <2>1. \A v \in Workers : job'[v].step \in RowSteps => v # w /\ job[v].email \in Emails
    BY <1>3, RowShape
  <2>2. QED  BY <1>3, <1>4, <1>5, <2>1 DEF PasswordsAreSound
<1>9. \A v \in Workers, d \in Emails : WillSave(v, d)' =>
        job'[v].row.hash = latest[d] \/ d \in overlapped
  <2>1. \A v \in Workers, d \in Emails : WillSave(v, d)' => v # w /\ WillSave(v, d)
    BY <1>3 DEF WillSave, RowSteps
  <2>2. QED  BY <1>3, <2>1 DEF PasswordsAreSound
<1>10. \A v \in Workers : job'[v].step = "setPassword" =>
       /\ job'[v].link \in links
       /\ job'[v].link.email = job'[v].email /\ job'[v].link.hash = job'[v].row.hash
  BY <1>3 DEF PasswordsAreSound, RowSteps
<1>11. QED  BY <1>4, <1>7, <1>8, <1>9, <1>10 DEF PasswordsAreSound

LEMMA SetPasswordPasswords ==
  ASSUME TypeOK, PasswordsAreSound, NEW w \in Workers, SetPassword(w)
  PROVE  PasswordsAreSound'
<1> DEFINE e == job[w].email
<1>1. job[w].step \in RowSteps /\ job[w] \in PasswordJob  BY JobShape DEF SetPassword, RowSteps
<1>2. e \in Emails /\ job[w].row \in User  BY <1>1, RowShape
<1>3. /\ \A v \in Workers : v # w => job'[v] = job[v]
      /\ job'[w].step \notin RowSteps
  BY GotoJob, IdleIsAJob DEF SetPassword, RowSteps
<1>4. hashes \in Nat /\ hashes' = hashes + 1  BY DEF SetPassword, TypeOK
<1>5. /\ user'[e] = [job[w].row EXCEPT !.hash = hashes'] /\ latest'[e] = hashes'
      /\ \A d \in Emails : d # e => user'[d] = user[d] /\ latest'[d] = latest[d]
  BY <1>2 DEF SetPassword, Saves, TypeOK
<1>6. user'[e].hash = hashes' /\ user'[e] # None
  <2>1. hashes' \in 1..MaxHashes  BY <1>4, BoundsAssumption DEF SetPassword, TypeOK
  <2>2. user'[e] \in User  BY <1>2, <1>5, <2>1 DEF User
  <2>3. QED  BY <1>2, <1>5, <2>2, NoneAssumption DEF User
<1>7. links' = links /\ used' = used \cup {job[w].link} /\ job[w].link \in links
  BY DEF SetPassword, PasswordsAreSound
<1>8. /\ \A d \in Emails : d # e => (d \in overlapped' <=> d \in overlapped)
      /\ \A v \in Workers : v # w /\ WillSave(v, e) => e \in overlapped'
  BY DEF SetPassword
<1>9. \A d \in Emails : user'[d] # None =>
        user'[d].hash <= hashes' /\ (user'[d].hash = latest'[d] \/ d \in overlapped')
  <2>1. \A d \in Emails : user[d] # None => user[d].hash \in Nat
    BY BoundsAssumption DEF TypeOK, User
  <2>2. \A d \in Emails : user[d] # None =>
          user[d].hash <= hashes /\ (user[d].hash = latest[d] \/ d \in overlapped)
    BY DEF PasswordsAreSound
  <2>3. ASSUME NEW d \in Emails, d # e, user'[d] # None
        PROVE  user'[d].hash <= hashes' /\ (user'[d].hash = latest'[d] \/ d \in overlapped')
    BY <1>4, <1>5, <1>8, <2>1, <2>2, <2>3
  <2>4. user'[e].hash <= hashes' /\ user'[e].hash = latest'[e]
    BY <1>4, <1>5, <1>6
  <2>5. QED  BY <2>3, <2>4
<1>10. \A l \in links : l.email \in Emails /\ l.hash \in Nat /\ l.hash <= hashes
  BY BoundsAssumption DEF PasswordsAreSound, TypeOK, Link
<1>11. used' \subseteq links /\ \A l \in used' : l.hash # latest'[l.email]
  <2>1. job[w].link.email = e /\ used \subseteq links /\ \A l \in used : l.hash # latest[l.email]
    BY DEF PasswordsAreSound, SetPassword
  <2>2. \A l \in links : l.email = e => l.hash # latest'[l.email]
    BY <1>4, <1>5, <1>10
  <2>3. QED  BY <1>5, <1>7, <1>10, <2>1, <2>2
<1>12. \A v \in Workers : job'[v].step \in RowSteps => v # w /\ job'[v] = job[v] /\ job[v].step \in RowSteps
  BY <1>3
<1>13. \A v \in Workers : job'[v].step \in RowSteps =>
         user'[job'[v].email] # None /\ job'[v].row.hash <= hashes'
  <2>1. \A v \in Workers : job'[v].step \in RowSteps =>
          job[v].email \in Emails /\ job[v].row.hash \in Nat
    BY <1>12, RowShape
  <2>2. QED  BY <1>4, <1>5, <1>6, <1>12, <2>1 DEF PasswordsAreSound
<1>14. \A v \in Workers, d \in Emails : WillSave(v, d)' =>
         job'[v].row.hash = latest'[d] \/ d \in overlapped'
  <2>1. \A v \in Workers, d \in Emails : WillSave(v, d)' => v # w /\ job'[v] = job[v] /\ WillSave(v, d)
    BY <1>3 DEF WillSave, RowSteps
  <2>2. QED  BY <1>5, <1>8, <2>1 DEF PasswordsAreSound
<1>15. \A v \in Workers : job'[v].step = "setPassword" =>
       /\ job'[v].link \in links
       /\ job'[v].link.email = job'[v].email /\ job'[v].link.hash = job'[v].row.hash
  BY <1>12 DEF PasswordsAreSound, RowSteps
<1>16. \A l \in links : l.hash <= hashes'
  BY <1>4, <1>10
<1>17. QED  BY <1>7, <1>9, <1>11, <1>13, <1>14, <1>15, <1>16 DEF PasswordsAreSound

LEMMA SendLinkPasswords ==
  ASSUME TypeOK, PasswordsAreSound, NEW e \in Emails, SendLink(e)
  PROVE  PasswordsAreSound'
<1>1. /\ links' = links \cup {[email |-> e, hash |-> user[e].hash]} /\ user[e].hash <= hashes
      /\ UNCHANGED <<user, hashes, latest, overlapped, used, job>>
  BY DEF SendLink, PasswordsAreSound, accounts
<1>2. \A v \in Workers, d \in Emails : WillSave(v, d)' <=> WillSave(v, d)
  BY <1>1 DEF WillSave
<1>3. QED  BY <1>1, <1>2 DEF PasswordsAreSound

-----------------------------------------------------------------------------
(***************************************************************************)
(* Registrations.                                                          *)
(***************************************************************************)
\* What the job of one worker knows.
KnowsItsStep(w) ==
  job[w].step \in CreatedSteps =>
    /\ user[job[w].email] # None /\ answered[job[w].email] = 0
    /\ job[w].step # "group" => job[w].email \in groups
    /\ job[w].step = "answer" => customer[job[w].email] # None

LEMMA CreatedShape ==
  ASSUME TypeOK, NEW w \in Workers, job[w].step \in CreatedSteps
  PROVE  job[w] \in RegisterJob /\ job[w].email \in Emails
<1>1. job[w] \in RegisterJob  BY JobShape DEF CreatedSteps
<1>2. QED  BY <1>1 DEF RegisterJob

LEMMA QuietRegistrations ==
  ASSUME RegistrationsAreSound,
         \A e \in Emails : user'[e] = None <=> user[e] = None,
         \A e \in Emails : customer[e] # None => customer'[e] # None,
         groups' = groups, answered' = answered, abandoned' = abandoned,
         TypeOK,
         \A v \in Workers : \/ job'[v] = job[v]
                            \/ job[v].step \notin CreatedSteps /\ job'[v].step \notin CreatedSteps
  PROVE  RegistrationsAreSound'
<1>1. \A v \in Workers : job'[v].step \in CreatedSteps =>
        job'[v] = job[v] /\ job[v].step \in CreatedSteps /\ job[v].email \in Emails
  BY CreatedShape
<1>2. \A e \in Emails : IsBeingCreated(e) => IsBeingCreated(e)'
  BY DEF IsBeingCreated, CreatedSteps
<1>3. \A e \in Emails : IsWhole(e) => IsWhole(e)'  BY DEF IsWhole
<1>4. AccountsAreWhole'
  BY <1>2, <1>3 DEF RegistrationsAreSound, AccountsAreWhole
<1>5. QED  BY <1>1, <1>4 DEF RegistrationsAreSound

LEMMA CreateUserRegistrations ==
  ASSUME TypeOK, RegistrationsAreSound, NEW w \in Workers, NEW name \in Names, CreateUser(w, name)
  PROVE  RegistrationsAreSound'
<1>1. PICK e \in Emails : e = Normal[job[w].email]
  BY JobShape, NormalAssumption DEF CreateUser, RegisterJob
<1>2. \A v \in Workers : v # w => job'[v] = job[v]
  BY DEF CreateUser, Goto, TypeOK
<1>3. UNCHANGED <<groups, customer, answered, abandoned>>
  BY DEF CreateUser, register
<1>4. CASE UNCHANGED <<user, hashes, latest, overlapped>> /\ Goto(w, Idle)
  <2>1. job'[w].step \notin CreatedSteps /\ job[w].step \notin CreatedSteps
    BY <1>4, GotoJob, IdleIsAJob DEF CreatedSteps, CreateUser
  <2>2. QED  BY <1>2, <1>3, <1>4, <2>1, QuietRegistrations
<1>5. CASE /\ user[e] = None /\ hashes < MaxHashes /\ hashes' = hashes + 1
           /\ user' = [user EXCEPT ![e] = [hash |-> hashes', name |-> name]]
           /\ Goto(w, [step |-> "group", email |-> e])
  <2>1. user'[e] # None
    <3>1. hashes' \in 1..MaxHashes  BY <1>5, BoundsAssumption DEF TypeOK
    <3>2. user'[e] \in User  BY <1>1, <1>5, <3>1 DEF TypeOK, User
    <3>3. QED  BY <3>2, NoneAssumption
  <2>2. \A d \in Emails : d # e => user'[d] = user[d]  BY <1>5 DEF TypeOK
  <2>3. job'[w] = [step |-> "group", email |-> e]  BY <1>5 DEF Goto, TypeOK
  <2>4. answered[e] = 0
    <3>1. answered[e] \in Nat /\ ~IsWhole(e)  BY <1>5 DEF TypeOK, IsWhole
    <3>2. QED  BY <3>1 DEF RegistrationsAreSound, AccountsAreWhole
  <2>5. \A v \in Workers : v # w /\ job[v].step \in CreatedSteps => job[v].email # e
    BY <1>5 DEF RegistrationsAreSound
  <2>6. \A v \in Workers : v # w /\ job[v].step \in CreatedSteps => job[v].email \in Emails
    BY CreatedShape
  <2>7. IsBeingCreated(e)'  BY <2>3 DEF IsBeingCreated
  <2>8. \A d \in Emails : d # e /\ IsBeingCreated(d) => IsBeingCreated(d)'
    BY <1>2 DEF IsBeingCreated, CreateUser
  <2>9. \A d \in Emails : d # e /\ IsWhole(d) => IsWhole(d)'
    BY <1>3, <2>2 DEF IsWhole
  <2>10. AccountsAreWhole'
    BY <1>3, <2>2, <2>4, <2>7, <2>8, <2>9 DEF RegistrationsAreSound, AccountsAreWhole
  <2>11. \A v \in Workers : KnowsItsStep(v)'
    <3>1. KnowsItsStep(w)'  BY <1>3, <2>1, <2>3, <2>4 DEF KnowsItsStep
    <3>2. ASSUME NEW v \in Workers, v # w PROVE KnowsItsStep(v)'
      BY <1>2, <1>3, <2>2, <2>5, <2>6, <3>2 DEF KnowsItsStep, RegistrationsAreSound
    <3>3. QED  BY <3>1, <3>2
  <2>12. \A u, v \in Workers :
           /\ job'[u].step \in CreatedSteps /\ job'[v].step \in CreatedSteps
           /\ job'[u].email = job'[v].email
           => u = v
    BY <1>2, <2>3, <2>5 DEF RegistrationsAreSound
  <2>13. QED  BY <2>10, <2>11, <2>12 DEF RegistrationsAreSound, KnowsItsStep
<1>6. QED  BY <1>1, <1>4, <1>5 DEF CreateUser, IsUnique

LEMMA AddToGroupRegistrations ==
  ASSUME TypeOK, RegistrationsAreSound, NEW w \in Workers, AddToGroup(w)
  PROVE  RegistrationsAreSound'
<1> DEFINE e == job[w].email
<1>1. job[w].step \in CreatedSteps /\ job[w].step = "group"  BY DEF AddToGroup, CreatedSteps
<1>2. job[w] \in RegisterJob /\ e \in Emails  BY <1>1, CreatedShape
<1>3. /\ job'[w].step = "customer" /\ job'[w].email = e
      /\ \A v \in Workers : v # w => job'[v] = job[v]
  BY <1>2 DEF AddToGroup, Goto, TypeOK, RegisterJob
<1>4. groups' = groups \cup {e} /\ UNCHANGED <<user, customer, answered, abandoned>>
  BY DEF AddToGroup, register
<1>5. \A d \in Emails : IsWhole(d) => IsWhole(d)'  BY <1>4 DEF IsWhole
<1>6. \A d \in Emails : IsBeingCreated(d) => IsBeingCreated(d)'
  BY <1>3 DEF IsBeingCreated
<1>7. AccountsAreWhole'
  BY <1>4, <1>5, <1>6 DEF RegistrationsAreSound, AccountsAreWhole
<1>8. \A v \in Workers : KnowsItsStep(v)'
  BY <1>1, <1>3, <1>4 DEF KnowsItsStep, RegistrationsAreSound, CreatedSteps
<1>9. \A u, v \in Workers :
         /\ job'[u].step \in CreatedSteps /\ job'[v].step \in CreatedSteps
         /\ job'[u].email = job'[v].email
         => u = v
  BY <1>1, <1>3 DEF RegistrationsAreSound
<1>10. QED  BY <1>7, <1>8, <1>9 DEF RegistrationsAreSound, KnowsItsStep

LEMMA CreateCustomerRegistrations ==
  ASSUME TypeOK, RegistrationsAreSound, NEW w \in Workers, NEW phone \in Phones, CreateCustomer(w, phone)
  PROVE  RegistrationsAreSound'
<1>1. job[w].step \in CreatedSteps /\ job[w].step = "customer"  BY DEF CreateCustomer, CreatedSteps
<1> PICK e \in Emails : e = job[w].email  BY <1>1, CreatedShape
<1>2. job[w] \in RegisterJob /\ e = job[w].email  BY <1>1, CreatedShape
<1>3. /\ job'[w].step = "answer" /\ job'[w].email = e
      /\ \A v \in Workers : v # w => job'[v] = job[v]
  BY <1>2 DEF CreateCustomer, Goto, TypeOK, RegisterJob
<1>4. /\ customer'[e] # None /\ \A d \in Emails : d # e => customer'[d] = customer[d]
      /\ UNCHANGED <<user, groups, answered, abandoned>>
  BY <1>2, NoneAssumption DEF CreateCustomer, TypeOK, register
<1>5. \A d \in Emails : IsWhole(d) => IsWhole(d)'  BY <1>4 DEF IsWhole
<1>6. IsWhole(e)'
  BY <1>1, <1>2, <1>4 DEF IsWhole, RegistrationsAreSound
<1>7. \A d \in Emails : d # e /\ IsBeingCreated(d) => IsBeingCreated(d)'
  BY <1>2, <1>3 DEF IsBeingCreated
<1>8. AccountsAreWhole'
  BY <1>4, <1>5, <1>6, <1>7 DEF RegistrationsAreSound, AccountsAreWhole
<1>9. \A v \in Workers : KnowsItsStep(v)'
  <2>1. KnowsItsStep(w)'
    BY <1>1, <1>2, <1>3, <1>4 DEF KnowsItsStep, RegistrationsAreSound
  <2>2. ASSUME NEW v \in Workers, v # w PROVE KnowsItsStep(v)'
    <3>1. job'[v].step \in CreatedSteps => job[v].email \in Emails  BY <1>3, <2>2, CreatedShape
    <3>2. QED  BY <1>3, <1>4, <2>2, <3>1 DEF KnowsItsStep, RegistrationsAreSound
  <2>3. QED  BY <2>1, <2>2
<1>10. \A u, v \in Workers :
         /\ job'[u].step \in CreatedSteps /\ job'[v].step \in CreatedSteps
         /\ job'[u].email = job'[v].email
         => u = v
  BY <1>1, <1>2, <1>3 DEF RegistrationsAreSound
<1>11. QED  BY <1>8, <1>9, <1>10 DEF RegistrationsAreSound, KnowsItsStep

\* The end of a registration: answered, or abandoned if the account is not whole.
LEMMA EndOfRegistration ==
  ASSUME TypeOK, RegistrationsAreSound, NEW w \in Workers,
         AnswerRegistration(w) \/ RequestDies(w)
  PROVE  RegistrationsAreSound'
<1> DEFINE e == job[w].email
<1>1. /\ job'[w].step = "idle"
      /\ \A v \in Workers : v # w => job'[v] = job[v]
      /\ UNCHANGED <<user, groups, customer>>
  BY GotoJob, IdleIsAJob DEF AnswerRegistration, RequestDies, accounts
<1>2. \A d \in Emails : IsWhole(d)' <=> IsWhole(d)  BY <1>1 DEF IsWhole
<1>3. \A v \in Workers : job'[v].step \in CreatedSteps => v # w /\ job'[v] = job[v]
  BY <1>1 DEF CreatedSteps
<1>4. \A u, v \in Workers :
         /\ job'[u].step \in CreatedSteps /\ job'[v].step \in CreatedSteps
         /\ job'[u].email = job'[v].email
         => u = v
  BY <1>3 DEF RegistrationsAreSound
<1>5. CASE AnswerRegistration(w)
  <2>1. job[w].step = "answer" /\ job[w].step \in CreatedSteps  BY <1>5 DEF AnswerRegistration, CreatedSteps
  <2>2. e \in Emails  BY <2>1, CreatedShape
  <2>3. /\ answered[e] = 0 /\ answered'[e] = 1 /\ abandoned' = abandoned
        /\ \A d \in Emails : d # e => answered'[d] = answered[d]
    BY <1>5, <2>1, <2>2 DEF AnswerRegistration, RegistrationsAreSound, TypeOK
  <2>4. IsWhole(e)  BY <2>1 DEF RegistrationsAreSound, IsWhole
  <2>5. \A d \in Emails : d # e /\ IsBeingCreated(d) => IsBeingCreated(d)'
    BY <1>1 DEF IsBeingCreated
  <2>6. AccountsAreWhole'
    BY <1>1, <1>2, <2>3, <2>4, <2>5 DEF RegistrationsAreSound, AccountsAreWhole
  <2>7. \A v \in Workers : KnowsItsStep(v)'
    <3>1. \A v \in Workers : job'[v].step \in CreatedSteps => job[v].email # e /\ job[v].email \in Emails
      BY <1>3, <2>1, CreatedShape DEF RegistrationsAreSound
    <3>2. QED  BY <1>1, <1>3, <2>3, <3>1 DEF KnowsItsStep, RegistrationsAreSound
  <2>8. QED  BY <1>4, <2>6, <2>7 DEF RegistrationsAreSound, KnowsItsStep
<1>6. CASE RequestDies(w)
  <2>1. answered' = answered /\ abandoned \subseteq abandoned'  BY <1>6 DEF RequestDies
  <2>2. job[w].step \in {"group", "customer"} => e \in abandoned'  BY <1>6 DEF RequestDies
  <2>3. \A d \in Emails : IsBeingCreated(d) => IsBeingCreated(d)' \/ d \in abandoned'
    BY <1>1, <2>2 DEF IsBeingCreated
  <2>4. AccountsAreWhole'
    BY <1>1, <1>2, <2>1, <2>3 DEF RegistrationsAreSound, AccountsAreWhole
  <2>5. \A v \in Workers : KnowsItsStep(v)'
    BY <1>1, <1>3, <2>1 DEF KnowsItsStep, RegistrationsAreSound
  <2>6. QED  BY <1>4, <2>4, <2>5 DEF RegistrationsAreSound, KnowsItsStep
<1>7. QED  BY <1>5, <1>6

-----------------------------------------------------------------------------
(***************************************************************************)
(* Addresses.                                                              *)
(***************************************************************************)
LEMMA InsertKeys ==
  ASSUME TypeOK, KeysAreSound, NEW row \in Address, Insert(row), gone' = gone,
         \A v \in Workers : job'[v] = job[v] \/ job'[v] = Idle
  PROVE  KeysAreSound'
<1>1. nextId \in Ids /\ nextId \in Nat /\ nextId' = nextId + 1 /\ Ids \subseteq Nat
  BY InsertTypes, BoundsAssumption DEF Ids
<1>2. \A i \in Ids : i # nextId => address'[i] = address[i]
  BY DEF Insert, TypeOK
<1>3. \A v \in Workers, i \in Ids : WillSaveAddress(v, i)' => WillSaveAddress(v, i)
  BY DEF WillSaveAddress, Idle
<1>4. \A v \in Workers : job'[v].step = "crmDelete" => job'[v] = job[v] /\ job[v].at \in Ids
  BY JobShape DEF Idle, CrmDelJob
<1>5. gone \subseteq Ids  BY DEF TypeOK
<1>6. \A i \in Ids : i < nextId => i < nextId' /\ i # nextId
  BY <1>1
<1>7. \A i \in gone : address'[i] = None /\ i < nextId'
  BY <1>2, <1>5, <1>6 DEF KeysAreSound
<1>8. \A i \in Ids : address'[i] # None => i < nextId'
  BY <1>1, <1>2, <1>6 DEF KeysAreSound
<1>9. \A v \in Workers, i \in Ids : WillSaveAddress(v, i)' => i < nextId' /\ i \notin gone'
  <2>1. ASSUME NEW v \in Workers, NEW i \in Ids, WillSaveAddress(v, i)'
        PROVE  i < nextId /\ i \notin gone
    BY <1>3, <2>1 DEF KeysAreSound
  <2>2. QED  BY <1>6, <2>1
<1>10. \A v \in Workers : job'[v].step = "crmDelete" => job'[v].at < nextId'
  BY <1>4, <1>6 DEF KeysAreSound
<1>11. QED  BY <1>7, <1>8, <1>9, <1>10 DEF KeysAreSound

LEMMA SaveKeys ==
  ASSUME TypeOK, KeysAreSound, NEW w \in Workers, NEW i \in Ids, WillSaveAddress(w, i), NEW row,
         address' = [address EXCEPT ![i] = row], nextId' = nextId, gone' = gone,
         \A v \in Workers : job'[v] = job[v] \/ job'[v] = Idle
  PROVE  KeysAreSound'
<1>1. i < nextId /\ i \notin gone  BY DEF KeysAreSound
<1>2. \A k \in Ids : k # i => address'[k] = address[k]  BY DEF TypeOK
<1>3. gone \subseteq Ids  BY DEF TypeOK
<1>4. \A v \in Workers, k \in Ids : WillSaveAddress(v, k)' => WillSaveAddress(v, k)
  BY DEF WillSaveAddress, Idle
<1>5. \A v \in Workers : job'[v].step = "crmDelete" => job'[v] = job[v]
  BY DEF Idle
<1>6. QED  BY <1>1, <1>2, <1>3, <1>4, <1>5 DEF KeysAreSound

LEMMA DeleteKeys ==
  ASSUME TypeOK, KeysAreSound, NEW w \in Workers, CrmDelete(w)
  PROVE  KeysAreSound'
<1>1. PICK i \in Ids : i = job[w].at  BY JobShape DEF CrmDelete, CrmDelJob
<1>2. /\ address'[i] = None /\ \A k \in Ids : k # i => address'[k] = address[k]
      /\ nextId' = nextId /\ i < nextId
  BY <1>1 DEF CrmDelete, TypeOK, KeysAreSound
<1>3. \A v \in Workers : job'[v] = job[v] \/ job'[v] = Idle
  BY DEF CrmDelete, Goto, TypeOK
<1>4. \A v \in Workers, k \in Ids : WillSaveAddress(v, k)' => WillSaveAddress(v, k)
  BY <1>3 DEF WillSaveAddress, Idle
<1>5. \A v \in Workers : job'[v].step = "crmDelete" => job'[v] = job[v]
  BY <1>3 DEF Idle
<1>6. gone \subseteq Ids /\ (gone' = gone \/ (gone' = gone \cup {i} /\ \A v \in Workers : ~WillSaveAddress(v, i)))
  <2>1. CASE \E v \in Workers : WillSaveAddress(v, i)
    BY <1>1, <2>1 DEF CrmDelete, TypeOK
  <2>2. CASE ~\E v \in Workers : WillSaveAddress(v, i)
    BY <1>1, <2>2 DEF CrmDelete, TypeOK
  <2>3. QED  BY <2>1, <2>2
<1>7. QED  BY <1>2, <1>4, <1>5, <1>6 DEF KeysAreSound

LEMMA SameAddresses ==
  ASSUME address' = address, NEW e \in Emails
  PROVE  Defaults(e)' = Defaults(e) /\ Owned(e)' = Owned(e) /\ Shown(e)' = Shown(e)
  BY DEF Shown, Defaults, Owned

LEMMA QuietDefaults ==
  ASSUME DefaultsAreKnown,
         \A v \in Workers \ disturbed' :
           \/ job'[v].step \notin {"first", "address"}
           \/ v \notin disturbed /\ job'[v] = job[v] /\ address' = address
  PROVE  DefaultsAreKnown'
<1>1. ASSUME NEW v \in Workers \ disturbed', NEW e \in Emails PROVE KnowsTheDefault(v, e)'
  <2>1. CASE job'[v].step \notin {"first", "address"}
    BY <2>1 DEF KnowsTheDefault
  <2>2. CASE v \notin disturbed /\ job'[v] = job[v] /\ address' = address
    BY <2>2, SameAddresses DEF DefaultsAreKnown, KnowsTheDefault
  <2>3. QED  BY <2>1, <2>2
<1>2. QED  BY <1>1 DEF DefaultsAreKnown

LEMMA ReadDefaultDefaults ==
  ASSUME TypeOK, DefaultsAreKnown, NEW w \in Workers, ReadDefault(w) \/ ReadFirst(w)
  PROVE  DefaultsAreKnown'
<1>1. PICK e \in Emails : e = job[w].email
  BY JobShape DEF ReadDefault, ReadFirst, DefaultJob
<1>2. /\ address' = address /\ disturbed' \in {disturbed, disturbed \ {w}}
      /\ \A v \in Workers : v # w => job'[v] = job[v]
  BY DEF ReadDefault, ReadFirst, book, Goto, TypeOK
<1>3. Defaults(e)' = Defaults(e) /\ Owned(e)' = Owned(e) /\ Shown(e)' = Shown(e)
  BY <1>2 DEF Shown, Defaults, Owned
<1>4. Defaults(e) \subseteq Ids  BY DEF Defaults, Owned
<1>5. w \notin disturbed' =>
        /\ job'[w].email = e
        /\ job'[w].step = "first" => Defaults(e) = {}
        /\ job'[w].step = "address" => job'[w].at = Shown(e)
  <2>1. CASE ReadDefault(w)
    <3>1. job[w] \in DefaultJob  BY <2>1, JobShape DEF ReadDefault
    <3>2. CASE FirstDefault(e) = 0
      <4>1. job'[w] = [job[w] EXCEPT !.step = "first"]
        BY <1>1, <2>1, <3>2 DEF ReadDefault, Goto, TypeOK
      <4>2. Defaults(e) = {}  BY <1>4, <3>2, FirstOfIds DEF FirstDefault
      <4>3. QED  BY <1>1, <3>1, <4>1, <4>2 DEF DefaultJob
    <3>3. CASE FirstDefault(e) # 0
      <4>1. job'[w] = [step |-> "address", email |-> e, place |-> job[w].place, at |-> FirstDefault(e)]
        BY <1>1, <2>1, <3>3 DEF ReadDefault, Goto, TypeOK
      <4>2. Shown(e) = FirstDefault(e)
        BY <1>4, <3>3, FirstOfIds DEF Shown, FirstDefault
      <4>3. QED  BY <4>1, <4>2
    <3>4. QED  BY <3>2, <3>3
  <2>2. CASE ReadFirst(w)
    <3>1. job'[w] = [step |-> "address", email |-> e, place |-> job[w].place, at |-> FirstAddress(e)]
      BY <1>1, <2>2 DEF ReadFirst, Goto, TypeOK
    <3>2. w \notin disturbed' => Defaults(e) = {}
      BY <1>1, <2>2 DEF ReadFirst, book, DefaultsAreKnown, KnowsTheDefault
    <3>3. w \notin disturbed' => Shown(e) = FirstAddress(e)
      BY <3>2 DEF Shown, FirstAddress
    <3>4. QED  BY <3>1, <3>3
  <2>3. QED  BY <2>1, <2>2
<1>6. ASSUME NEW v \in Workers \ disturbed', NEW d \in Emails PROVE KnowsTheDefault(v, d)'
  <2>1. CASE v = w
    BY <1>3, <1>5, <2>1 DEF KnowsTheDefault
  <2>2. CASE v # w
    BY <1>2, <2>2, SameAddresses DEF DefaultsAreKnown, KnowsTheDefault
  <2>3. QED  BY <2>1, <2>2
<1>7. QED  BY <1>6 DEF DefaultsAreKnown

\* Whoever writes to the addresses disturbs all who have asked for a default.
LEMMA DisturbedDefaults ==
  ASSUME DefaultsAreKnown, NEW ws, Disturb(ws),
         \A v \in Workers : job'[v] = job[v] \/ job'[v] = Idle,
         \A v \in ws : job'[v] = Idle
  PROVE  DefaultsAreKnown'
<1>1. \A v \in Workers \ disturbed' : job'[v].step \notin {"first", "address"}
  BY IdleIsAJob DEF Disturb
<1>2. QED  BY <1>1, QuietDefaults

-----------------------------------------------------------------------------
(***************************************************************************)
(* The invariant.                                                          *)
(***************************************************************************)
LEMMA InitIInv == Init => IInv
<1> SUFFICES ASSUME Init PROVE IInv  OBVIOUS
<1>1. TypeOK  BY InitTypes
<1>2. \A w \in Workers : job[w] = Idle /\ job[w].step = "idle"  BY IdleIsAJob DEF Init
<1>3. PasswordsAreSound  BY <1>2 DEF PasswordsAreSound, WillSave, RowSteps, Init
<1>4. RegistrationsAreSound
  BY <1>2 DEF RegistrationsAreSound, AccountsAreWhole, CreatedSteps, Init
<1>5. KeysAreSound  BY <1>2 DEF KeysAreSound, WillSaveAddress, Init
<1>6. DefaultsAreKnown  BY <1>2 DEF DefaultsAreKnown, KnowsTheDefault
<1>7. QED  BY <1>1, <1>3, <1>4, <1>5, <1>6 DEF IInv

\* Steps that do not touch users' rows or links, and leave w with none to save.
LEMMA OtherPasswords ==
  ASSUME TypeOK, PasswordsAreSound, NEW w \in Workers, UNCHANGED <<user, secrets>>,
         \A v \in Workers : v # w => job'[v] = job[v],
         job'[w] = job[w] \/ job'[w].step \notin RowSteps
  PROVE  PasswordsAreSound'
<1>1. \A v \in Workers : KeepsRow(v)  BY DEF KeepsRow
<1>2. QED  BY <1>1, QuietPasswords DEF secrets

\* Steps that leave the accounts and the counts of registrations as they are.
LEMMA OtherRegistrations ==
  ASSUME TypeOK, RegistrationsAreSound, NEW w \in Workers, UNCHANGED <<accounts, register>>,
         \A v \in Workers : v # w => job'[v] = job[v],
         job'[w] = job[w] \/ (job[w].step \notin CreatedSteps /\ job'[w].step \notin CreatedSteps)
  PROVE  RegistrationsAreSound'
<1>1. \A v \in Workers : \/ job'[v] = job[v]
                         \/ job[v].step \notin CreatedSteps /\ job'[v].step \notin CreatedSteps
  OBVIOUS
<1>2. QED  BY <1>1, QuietRegistrations DEF accounts, register

\* Steps that do not touch the addresses, and leave w without a key of one.
LEMMA OtherKeys ==
  ASSUME KeysAreSound, NEW w \in Workers, UNCHANGED <<address, nextId, gone>>,
         \A v \in Workers : v # w => job'[v] = job[v],
         job'[w] = job[w] \/ job'[w].step \notin {"address", "crmSave", "crmDelete"}
  PROVE  KeysAreSound'
<1>1. \A v \in Workers, i \in Ids : WillSaveAddress(v, i)' => WillSaveAddress(v, i)
  BY DEF WillSaveAddress
<1>2. \A v \in Workers : job'[v].step = "crmDelete" => job'[v] = job[v]
  OBVIOUS
<1>3. QED  BY <1>1, <1>2 DEF KeysAreSound

LEMMA OtherDefaults ==
  ASSUME DefaultsAreKnown, NEW w \in Workers, address' = address,
         disturbed' \in {disturbed, disturbed \ {w}},
         \A v \in Workers : v # w => job'[v] = job[v],
         job'[w].step \notin {"first", "address"}
  PROVE  DefaultsAreKnown'
<1>1. \A v \in Workers \ disturbed' :
        \/ job'[v].step \notin {"first", "address"}
        \/ v \notin disturbed /\ job'[v] = job[v] /\ address' = address
  OBVIOUS
<1>2. QED  BY <1>1, QuietDefaults

LEMMA SaveCustomerRegistrations ==
  ASSUME TypeOK, RegistrationsAreSound, NEW w \in Workers, SaveCustomer(w)
  PROVE  RegistrationsAreSound'
<1>1. job[w] \in CustomerJob  BY JobShape DEF SaveCustomer
<1>2. \A e \in Emails : customer[e] # None => customer'[e] # None
  BY <1>1, NoneAssumption DEF SaveCustomer, TypeOK, CustomerJob, Profile
<1>3. \A v \in Workers : \/ job'[v] = job[v]
                         \/ job[v].step \notin CreatedSteps /\ job'[v].step \notin CreatedSteps
  BY <1>1, AfterCustomerIsAJob, GotoJob DEF SaveCustomer, CreatedSteps
<1>4. UNCHANGED <<user, groups, answered, abandoned>>  BY DEF SaveCustomer, register
<1>5. QED  BY <1>2, <1>3, <1>4, QuietRegistrations

LEMMA SaveUserRegistrations ==
  ASSUME TypeOK, PasswordsAreSound, RegistrationsAreSound, NEW w \in Workers,
         SaveUser(w) \/ SetPassword(w)
  PROVE  RegistrationsAreSound'
<1>1. job[w].step \in RowSteps /\ job[w].step \notin CreatedSteps
  BY DEF SaveUser, SetPassword, RowSteps, CreatedSteps
<1>2. PICK e \in Emails : e = job[w].email  BY <1>1, RowShape
<1>3. user[e] # None /\ job[w].row \in User  BY <1>1, <1>2, RowShape DEF PasswordsAreSound
<1>4. user'[e] \in User /\ \A d \in Emails : d # e => user'[d] = user[d]
  <2>1. CASE SaveUser(w)
    BY <1>2, <1>3, <2>1 DEF SaveUser, Saves, TypeOK
  <2>2. CASE SetPassword(w)
    <3>1. hashes' \in 1..MaxHashes  BY <2>2, BoundsAssumption DEF SetPassword, TypeOK
    <3>2. [job[w].row EXCEPT !.hash = hashes'] \in User  BY <1>3, <3>1 DEF User
    <3>3. QED  BY <1>2, <2>2, <3>2 DEF SetPassword, Saves, TypeOK
  <2>3. QED  BY <2>1, <2>2
<1>5. \A d \in Emails : user'[d] = None <=> user[d] = None
  BY <1>3, <1>4, NoneAssumption
<1>6. job'[w].step \notin CreatedSteps /\ \A v \in Workers : v # w => job'[v] = job[v]
  BY JobShape, AfterUserIsAJob, IdleIsAJob, GotoJob DEF SaveUser, SetPassword, CreatedSteps
<1>7. UNCHANGED <<groups, customer, answered, abandoned>>
  BY DEF SaveUser, SetPassword, register
<1>8. QED  BY <1>1, <1>5, <1>6, <1>7, QuietRegistrations

LEMMA ReadDefaultKeys ==
  ASSUME TypeOK, KeysAreSound, NEW w \in Workers, ReadDefault(w) \/ ReadFirst(w)
  PROVE  KeysAreSound'
<1>1. PICK e \in Emails : e = job[w].email
  BY JobShape DEF ReadDefault, ReadFirst, DefaultJob
<1>2. /\ UNCHANGED <<address, nextId, gone>>
      /\ \A v \in Workers : v # w => job'[v] = job[v]
  BY DEF ReadDefault, ReadFirst, book, Goto, TypeOK
<1>3. /\ job'[w].step \in {"first", "address"}
      /\ job'[w].step = "address" => job'[w].at \in {FirstDefault(e), FirstAddress(e)}
  BY <1>1, JobShape DEF ReadDefault, ReadFirst, Goto, TypeOK, DefaultJob
<1>4. \A i \in {FirstDefault(e), FirstAddress(e)} : i \in Ids => address[i] # None
  <2>1. Owned(e) \subseteq Ids /\ Defaults(e) \subseteq Owned(e)  BY DEF Defaults, Owned
  <2>2. \A i \in {FirstDefault(e), FirstAddress(e)} : i # 0 => i \in Owned(e)
    BY <2>1, FirstOfIds DEF FirstDefault, FirstAddress
  <2>3. 0 \notin Ids  BY BoundsAssumption DEF Ids
  <2>4. QED  BY <2>2, <2>3 DEF Owned
<1>5. \A v \in Workers, i \in Ids :
        WillSaveAddress(v, i)' => WillSaveAddress(v, i) \/ address[i] # None
  BY <1>2, <1>3, <1>4 DEF WillSaveAddress
<1>6. \A v \in Workers : job'[v].step = "crmDelete" => job'[v] = job[v]
  BY <1>2, <1>3
<1>7. \A v \in Workers, i \in Ids : WillSaveAddress(v, i)' => i < nextId /\ i \notin gone
  BY <1>5 DEF KeysAreSound
<1>8. QED  BY <1>2, <1>6, <1>7 DEF KeysAreSound

LEMMA SaveAddressKeys ==
  ASSUME TypeOK, KeysAreSound, NEW w \in Workers, SaveAddress(w)
  PROVE  KeysAreSound'
<1> DEFINE row == [owner |-> job[w].email, place |-> job[w].place, default |-> TRUE]
<1>1. job[w] \in AddressJob  BY JobShape DEF SaveAddress
<1>2. row \in Address  BY <1>1 DEF AddressJob, Address
<1>3. gone' = gone /\ \A v \in Workers : job'[v] = job[v] \/ job'[v] = Idle
  BY DEF SaveAddress, Goto, TypeOK
<1>4. CASE job[w].at = 0
  BY <1>2, <1>3, <1>4, InsertKeys DEF SaveAddress
<1>5. CASE job[w].at # 0
  <2>1. PICK i \in Ids : i = job[w].at  BY <1>1, <1>5 DEF AddressJob
  <2>2. WillSaveAddress(w, i)  BY <2>1 DEF WillSaveAddress, SaveAddress
  <2>3. address' = [address EXCEPT ![i] = row] /\ nextId' = nextId
    BY <1>5, <2>1 DEF SaveAddress
  <2>4. QED  BY <1>3, <2>2, <2>3, SaveKeys
<1>6. QED  BY <1>4, <1>5

LEMMA RegisterKeeps ==
  ASSUME IInv, NEW w \in Workers,
         \/ \E e \in Emails : CheckEmail(w, e)
         \/ \E name \in Names : CreateUser(w, name)
         \/ AddToGroup(w)
         \/ \E phone \in Phones : CreateCustomer(w, phone)
         \/ AnswerRegistration(w)
         \/ RequestDies(w)
  PROVE  PasswordsAreSound' /\ RegistrationsAreSound' /\ KeysAreSound' /\ DefaultsAreKnown'
<1> USE DEF IInv
<1>1. CASE \E e \in Emails : CheckEmail(w, e)
  <2>1. PICK e \in Emails : CheckEmail(w, e)  BY <1>1
  <2>2. /\ \A v \in Workers : v # w => job'[v] = job[v]
        /\ job[w].step \notin CreatedSteps
        /\ job'[w].step \notin CreatedSteps
        /\ job'[w].step \notin RowSteps
        /\ job'[w].step \notin {"address", "crmSave", "crmDelete"}
        /\ job'[w].step \notin {"first", "address"}
    BY <2>1, IdleIsAJob DEF CheckEmail, Goto, TypeOK, CreatedSteps, RowSteps
  <2>3. PasswordsAreSound'  BY <2>1, <2>2, OtherPasswords DEF CheckEmail, accounts, book, secrets, register
  <2>4. RegistrationsAreSound'  BY <2>1, <2>2, OtherRegistrations
      DEF CheckEmail, accounts, book, secrets, register
  <2>5. KeysAreSound'  BY <2>1, <2>2, OtherKeys DEF CheckEmail, accounts, book, secrets, register
  <2>6. DefaultsAreKnown'  BY <2>1, <2>2, OtherDefaults DEF CheckEmail, accounts, book, secrets, register
  <2>7. QED  BY <2>3, <2>4, <2>5, <2>6
<1>2. CASE \E name \in Names : CreateUser(w, name)
  <2>1. PICK name \in Names : CreateUser(w, name)  BY <1>2
  <2>2. /\ \A v \in Workers : v # w => job'[v] = job[v]
        /\ job'[w].step \notin {"address", "crmSave", "crmDelete"} /\ job'[w].step \notin {"first", "address"}
    BY <2>1, IdleIsAJob DEF CreateUser, Goto, TypeOK
  <2>3. PasswordsAreSound'  BY <2>1, CreateUserPasswords
  <2>4. RegistrationsAreSound'  BY <2>1, CreateUserRegistrations
  <2>5. KeysAreSound'  BY <2>1, <2>2, OtherKeys DEF CreateUser, accounts, book, secrets, register
  <2>6. DefaultsAreKnown'  BY <2>1, <2>2, OtherDefaults DEF CreateUser, accounts, book, secrets, register
  <2>7. QED  BY <2>3, <2>4, <2>5, <2>6
<1>3. CASE AddToGroup(w)
  <2>1. AddToGroup(w)  BY <1>3
  <2>2. /\ \A v \in Workers : v # w => job'[v] = job[v]
        /\ job'[w].step \notin RowSteps
        /\ job'[w].step \notin {"address", "crmSave", "crmDelete"}
        /\ job'[w].step \notin {"first", "address"}
    BY <2>1, JobShape DEF AddToGroup, RegisterJob, Goto, TypeOK, RowSteps
  <2>3. PasswordsAreSound'  BY <2>1, <2>2, OtherPasswords DEF AddToGroup, accounts, book, secrets, register
  <2>4. RegistrationsAreSound'  BY <2>1, AddToGroupRegistrations
  <2>5. KeysAreSound'  BY <2>1, <2>2, OtherKeys DEF AddToGroup, accounts, book, secrets, register
  <2>6. DefaultsAreKnown'  BY <2>1, <2>2, OtherDefaults DEF AddToGroup, accounts, book, secrets, register
  <2>7. QED  BY <2>3, <2>4, <2>5, <2>6
<1>4. CASE \E phone \in Phones : CreateCustomer(w, phone)
  <2>1. PICK phone \in Phones : CreateCustomer(w, phone)  BY <1>4
  <2>2. /\ \A v \in Workers : v # w => job'[v] = job[v]
        /\ job'[w].step \notin RowSteps
        /\ job'[w].step \notin {"address", "crmSave", "crmDelete"}
        /\ job'[w].step \notin {"first", "address"}
    BY <2>1, JobShape DEF CreateCustomer, RegisterJob, Goto, TypeOK, RowSteps
  <2>3. PasswordsAreSound'  BY <2>1, <2>2, OtherPasswords
      DEF CreateCustomer, accounts, book, secrets, register
  <2>4. RegistrationsAreSound'  BY <2>1, CreateCustomerRegistrations
  <2>5. KeysAreSound'  BY <2>1, <2>2, OtherKeys DEF CreateCustomer, accounts, book, secrets, register
  <2>6. DefaultsAreKnown'  BY <2>1, <2>2, OtherDefaults DEF CreateCustomer, accounts, book, secrets, register
  <2>7. QED  BY <2>3, <2>4, <2>5, <2>6
<1>5. CASE AnswerRegistration(w)
  <2>1. AnswerRegistration(w)  BY <1>5
  <2>2. /\ \A v \in Workers : v # w => job'[v] = job[v]
        /\ job'[w].step \notin RowSteps
        /\ job'[w].step \notin {"address", "crmSave", "crmDelete"}
        /\ job'[w].step \notin {"first", "address"}
    BY <2>1, IdleIsAJob DEF AnswerRegistration, Goto, TypeOK, RowSteps
  <2>3. PasswordsAreSound'  BY <2>1, <2>2, OtherPasswords
      DEF AnswerRegistration, accounts, book, secrets, register
  <2>4. RegistrationsAreSound'  BY <2>1, EndOfRegistration
  <2>5. KeysAreSound'  BY <2>1, <2>2, OtherKeys DEF AnswerRegistration, accounts, book, secrets, register
  <2>6. DefaultsAreKnown'  BY <2>1, <2>2, OtherDefaults
      DEF AnswerRegistration, accounts, book, secrets, register
  <2>7. QED  BY <2>3, <2>4, <2>5, <2>6
<1>6. CASE RequestDies(w)
  <2>1. RequestDies(w)  BY <1>6
  <2>2. /\ \A v \in Workers : v # w => job'[v] = job[v]
        /\ job'[w].step \notin RowSteps
        /\ job'[w].step \notin {"address", "crmSave", "crmDelete"}
        /\ job'[w].step \notin {"first", "address"}
    BY <2>1, IdleIsAJob DEF RequestDies, Goto, TypeOK, RowSteps
  <2>3. PasswordsAreSound'  BY <2>1, <2>2, OtherPasswords DEF RequestDies, accounts, book, secrets, register
  <2>4. RegistrationsAreSound'  BY <2>1, EndOfRegistration
  <2>5. KeysAreSound'  BY <2>1, <2>2, OtherKeys DEF RequestDies, accounts, book, secrets, register
  <2>6. DefaultsAreKnown'  BY <2>1, <2>2, OtherDefaults DEF RequestDies, accounts, book, secrets, register
  <2>7. QED  BY <2>3, <2>4, <2>5, <2>6
<1>7. QED  BY <1>1, <1>2, <1>3, <1>4, <1>5, <1>6

LEMMA ProfileKeeps ==
  ASSUME IInv, NEW w \in Workers,
         \/ \E e \in Emails, given \in Profile : StartProfile(w, e, given)
         \/ LoadCustomer(w)
         \/ SaveCustomer(w)
         \/ SaveUser(w)
         \/ ReadDefault(w)
         \/ ReadFirst(w)
         \/ SaveAddress(w)
  PROVE  PasswordsAreSound' /\ RegistrationsAreSound' /\ KeysAreSound' /\ DefaultsAreKnown'
<1> USE DEF IInv
<1>1. CASE \E e \in Emails, given \in Profile : StartProfile(w, e, given)
  <2>1. PICK e \in Emails, given \in Profile : StartProfile(w, e, given)  BY <1>1
  <2>2. /\ \A v \in Workers : v # w => job'[v] = job[v]
        /\ job[w].step \notin CreatedSteps
        /\ job'[w].step \notin CreatedSteps
        /\ job'[w].step \notin {"address", "crmSave", "crmDelete"}
        /\ job'[w].step \notin {"first", "address"}
        /\ job'[w] = [step |-> "load", email |-> e, given |-> given, row |-> user[e]]
    BY <2>1, IdleIsAJob DEF StartProfile, Goto, TypeOK, CreatedSteps
  <2>3. PasswordsAreSound'  BY <2>1, <2>2, ReadPasswords DEF StartProfile, accounts, book, secrets, register
  <2>4. RegistrationsAreSound'  BY <2>1, <2>2, OtherRegistrations
      DEF StartProfile, accounts, book, secrets, register
  <2>5. KeysAreSound'  BY <2>1, <2>2, OtherKeys DEF StartProfile, accounts, book, secrets, register
  <2>6. DefaultsAreKnown'  BY <2>1, <2>2, OtherDefaults DEF StartProfile, accounts, book, secrets, register
  <2>7. QED  BY <2>3, <2>4, <2>5, <2>6
<1>2. CASE LoadCustomer(w)
  <2>1. LoadCustomer(w)  BY <1>2
  <2>2. /\ \A v \in Workers : v # w => job'[v] = job[v]
        /\ job[w].step \notin CreatedSteps
        /\ job'[w].step \notin CreatedSteps
        /\ job'[w].step \notin {"address", "crmSave", "crmDelete"}
        /\ job'[w].step \notin {"first", "address"}
        /\ KeepsRow(w)
    BY <2>1, IdleIsAJob DEF LoadCustomer, Goto, TypeOK, CreatedSteps, KeepsRow, RowSteps
  <2>3. PasswordsAreSound'  BY <2>1, <2>2, QuietPasswords
      DEF LoadCustomer, KeepsRow, accounts, book, secrets, register
  <2>4. RegistrationsAreSound'  BY <2>1, <2>2, OtherRegistrations
      DEF LoadCustomer, accounts, book, secrets, register
  <2>5. KeysAreSound'  BY <2>1, <2>2, OtherKeys DEF LoadCustomer, accounts, book, secrets, register
  <2>6. DefaultsAreKnown'  BY <2>1, <2>2, OtherDefaults DEF LoadCustomer, accounts, book, secrets, register
  <2>7. QED  BY <2>3, <2>4, <2>5, <2>6
<1>3. CASE SaveCustomer(w)
  <2>1. SaveCustomer(w)  BY <1>3
  <2>2. /\ \A v \in Workers : v # w => job'[v] = job[v]
        /\ job[w].step \notin CreatedSteps
        /\ job'[w].step \notin CreatedSteps
        /\ job'[w].step \notin {"address", "crmSave", "crmDelete"}
        /\ job'[w].step \notin {"first", "address"}
        /\ KeepsRow(w)
    BY <2>1, JobShape, AfterCustomerIsAJob, GotoJob
        DEF SaveCustomer, CreatedSteps, KeepsRow, RowSteps, CustomerJob, User
  <2>3. PasswordsAreSound'  BY <2>1, <2>2, QuietPasswords
      DEF SaveCustomer, KeepsRow, accounts, book, secrets, register
  <2>4. RegistrationsAreSound'  BY <2>1, SaveCustomerRegistrations
  <2>5. KeysAreSound'  BY <2>1, <2>2, OtherKeys DEF SaveCustomer, accounts, book, secrets, register
  <2>6. DefaultsAreKnown'  BY <2>1, <2>2, OtherDefaults DEF SaveCustomer, accounts, book, secrets, register
  <2>7. QED  BY <2>3, <2>4, <2>5, <2>6
<1>4. CASE SaveUser(w)
  <2>1. SaveUser(w)  BY <1>4
  <2>2. /\ \A v \in Workers : v # w => job'[v] = job[v]
        /\ job[w].step \notin CreatedSteps
        /\ job'[w].step \notin CreatedSteps
        /\ job'[w].step \notin RowSteps
        /\ job'[w].step \notin {"address", "crmSave", "crmDelete"}
        /\ job'[w].step \notin {"first", "address"}
    BY <2>1, JobShape, AfterUserIsAJob, GotoJob DEF SaveUser, CreatedSteps, RowSteps
  <2>3. PasswordsAreSound'  BY <2>1, SaveUserPasswords
  <2>4. RegistrationsAreSound'  BY <2>1, SaveUserRegistrations
  <2>5. KeysAreSound'  BY <2>1, <2>2, OtherKeys DEF SaveUser, accounts, book, secrets, register
  <2>6. DefaultsAreKnown'  BY <2>1, <2>2, OtherDefaults DEF SaveUser, accounts, book, secrets, register
  <2>7. QED  BY <2>3, <2>4, <2>5, <2>6
<1>5. CASE ReadDefault(w)
  <2>1. ReadDefault(w)  BY <1>5
  <2>2. /\ \A v \in Workers : v # w => job'[v] = job[v]
        /\ job[w].step \notin CreatedSteps /\ job'[w].step \notin CreatedSteps /\ job'[w].step \notin RowSteps
    BY <2>1, JobShape DEF ReadDefault, DefaultJob, Goto, TypeOK, CreatedSteps, RowSteps
  <2>3. PasswordsAreSound'  BY <2>1, <2>2, OtherPasswords DEF ReadDefault, accounts, book, secrets, register
  <2>4. RegistrationsAreSound'  BY <2>1, <2>2, OtherRegistrations
      DEF ReadDefault, accounts, book, secrets, register
  <2>5. KeysAreSound'  BY <2>1, ReadDefaultKeys
  <2>6. DefaultsAreKnown'  BY <2>1, ReadDefaultDefaults
  <2>7. QED  BY <2>3, <2>4, <2>5, <2>6
<1>6. CASE ReadFirst(w)
  <2>1. ReadFirst(w)  BY <1>6
  <2>2. /\ \A v \in Workers : v # w => job'[v] = job[v]
        /\ job[w].step \notin CreatedSteps /\ job'[w].step \notin CreatedSteps /\ job'[w].step \notin RowSteps
    BY <2>1, JobShape DEF ReadFirst, DefaultJob, Goto, TypeOK, CreatedSteps, RowSteps
  <2>3. PasswordsAreSound'  BY <2>1, <2>2, OtherPasswords DEF ReadFirst, accounts, book, secrets, register
  <2>4. RegistrationsAreSound'  BY <2>1, <2>2, OtherRegistrations
      DEF ReadFirst, accounts, book, secrets, register
  <2>5. KeysAreSound'  BY <2>1, ReadDefaultKeys
  <2>6. DefaultsAreKnown'  BY <2>1, ReadDefaultDefaults
  <2>7. QED  BY <2>3, <2>4, <2>5, <2>6
<1>7. CASE SaveAddress(w)
  <2>1. SaveAddress(w)  BY <1>7
  <2>2. /\ \A v \in Workers : v # w => job'[v] = job[v]
        /\ job[w].step \notin CreatedSteps
        /\ job'[w].step \notin CreatedSteps
        /\ job'[w].step \notin RowSteps
        /\ job'[w] = Idle
    BY <2>1, GotoJob, IdleIsAJob DEF SaveAddress, CreatedSteps, RowSteps
  <2>3. PasswordsAreSound'  BY <2>1, <2>2, OtherPasswords DEF SaveAddress, accounts, book, secrets, register
  <2>4. RegistrationsAreSound'  BY <2>1, <2>2, OtherRegistrations
      DEF SaveAddress, accounts, book, secrets, register
  <2>5. KeysAreSound'  BY <2>1, SaveAddressKeys
  <2>6. DefaultsAreKnown'  BY <2>1, <2>2, DisturbedDefaults DEF SaveAddress
  <2>7. QED  BY <2>3, <2>4, <2>5, <2>6
<1>8. QED  BY <1>1, <1>2, <1>3, <1>4, <1>5, <1>6, <1>7

LEMMA CrmReadKeys ==
  ASSUME TypeOK, KeysAreSound, NEW w \in Workers, NEW i \in Ids,
         \/ \E given \in Change : CrmRead(w, i, given)
         \/ CrmReadToDelete(w, i)
  PROVE  KeysAreSound'
<1>1. /\ UNCHANGED <<address, nextId, gone>> /\ address[i] # None
      /\ \A v \in Workers : v # w => job'[v] = job[v]
      /\ job'[w].step \in {"crmSave", "crmDelete"} /\ job'[w].at = i
  BY DEF CrmRead, CrmReadToDelete, book, Goto, TypeOK
<1>2. i < nextId /\ i \notin gone  BY <1>1 DEF KeysAreSound
<1>3. \A v \in Workers, k \in Ids : WillSaveAddress(v, k)' => WillSaveAddress(v, k) \/ k = i
  BY <1>1 DEF WillSaveAddress
<1>4. QED  BY <1>1, <1>2, <1>3 DEF KeysAreSound

LEMMA CrmSaveKeys ==
  ASSUME TypeOK, KeysAreSound, NEW w \in Workers, CrmSave(w)
  PROVE  KeysAreSound'
<1> DEFINE row == [job[w].row EXCEPT
                     !.place = IF job[w].given.place = None THEN @ ELSE job[w].given.place,
                     !.default = IF job[w].given.default = None THEN @ ELSE job[w].given.default]
<1>1. PICK i \in Ids : i = job[w].at  BY JobShape DEF CrmSave, CrmSaveJob
<1>2. WillSaveAddress(w, i)  BY <1>1 DEF WillSaveAddress, CrmSave
<1>3. address' = [address EXCEPT ![i] = row] /\ nextId' = nextId /\ gone' = gone
  BY <1>1 DEF CrmSave
<1>4. \A v \in Workers : job'[v] = job[v] \/ job'[v] = Idle
  BY DEF CrmSave, Goto, TypeOK
<1> HIDE DEF row
<1>5. QED  BY <1>2, <1>3, <1>4, SaveKeys

LEMMA CrmKeeps ==
  ASSUME IInv, NEW w \in Workers,
         \/ \E i \in Ids, given \in Change : CrmRead(w, i, given)
         \/ CrmSave(w)
         \/ \E i \in Ids : CrmReadToDelete(w, i)
         \/ CrmDelete(w)
         \/ \E e \in Emails, place \in Places, default \in BOOLEAN : AddAddress(e, place, default)
  PROVE  PasswordsAreSound' /\ RegistrationsAreSound' /\ KeysAreSound' /\ DefaultsAreKnown'
<1> USE DEF IInv
<1>1. CASE \E i \in Ids, given \in Change : CrmRead(w, i, given)
  <2>1. PICK i \in Ids, given \in Change : CrmRead(w, i, given)  BY <1>1
  <2>2. /\ \A v \in Workers : v # w => job'[v] = job[v]
        /\ job[w].step \notin CreatedSteps
        /\ job'[w].step \notin CreatedSteps
        /\ job'[w].step \notin RowSteps
        /\ job'[w].step \notin {"first", "address"}
    BY <2>1, IdleIsAJob DEF CrmRead, Goto, TypeOK, CreatedSteps, RowSteps
  <2>3. PasswordsAreSound'  BY <2>1, <2>2, OtherPasswords DEF CrmRead, accounts, book, secrets, register
  <2>4. RegistrationsAreSound'  BY <2>1, <2>2, OtherRegistrations
      DEF CrmRead, accounts, book, secrets, register
  <2>5. KeysAreSound'  BY <2>1, CrmReadKeys
  <2>6. DefaultsAreKnown'  BY <2>1, <2>2, OtherDefaults DEF CrmRead, accounts, book, secrets, register
  <2>7. QED  BY <2>3, <2>4, <2>5, <2>6
<1>2. CASE CrmSave(w)
  <2>1. CrmSave(w)  BY <1>2
  <2>2. /\ \A v \in Workers : v # w => job'[v] = job[v]
        /\ job[w].step \notin CreatedSteps
        /\ job'[w].step \notin CreatedSteps
        /\ job'[w].step \notin RowSteps
        /\ job'[w] = Idle
    BY <2>1, GotoJob, IdleIsAJob DEF CrmSave, CreatedSteps, RowSteps
  <2>3. PasswordsAreSound'  BY <2>1, <2>2, OtherPasswords DEF CrmSave, accounts, book, secrets, register
  <2>4. RegistrationsAreSound'  BY <2>1, <2>2, OtherRegistrations
      DEF CrmSave, accounts, book, secrets, register
  <2>5. KeysAreSound'  BY <2>1, CrmSaveKeys
  <2>6. DefaultsAreKnown'  BY <2>1, <2>2, DisturbedDefaults DEF CrmSave
  <2>7. QED  BY <2>3, <2>4, <2>5, <2>6
<1>3. CASE \E i \in Ids : CrmReadToDelete(w, i)
  <2>1. PICK i \in Ids : CrmReadToDelete(w, i)  BY <1>3
  <2>2. /\ \A v \in Workers : v # w => job'[v] = job[v]
        /\ job[w].step \notin CreatedSteps
        /\ job'[w].step \notin CreatedSteps
        /\ job'[w].step \notin RowSteps
        /\ job'[w].step \notin {"first", "address"}
    BY <2>1, IdleIsAJob DEF CrmReadToDelete, Goto, TypeOK, CreatedSteps, RowSteps
  <2>3. PasswordsAreSound'  BY <2>1, <2>2, OtherPasswords
      DEF CrmReadToDelete, accounts, book, secrets, register
  <2>4. RegistrationsAreSound'  BY <2>1, <2>2, OtherRegistrations
      DEF CrmReadToDelete, accounts, book, secrets, register
  <2>5. KeysAreSound'  BY <2>1, CrmReadKeys
  <2>6. DefaultsAreKnown'  BY <2>1, <2>2, OtherDefaults DEF CrmReadToDelete, accounts, book, secrets, register
  <2>7. QED  BY <2>3, <2>4, <2>5, <2>6
<1>4. CASE CrmDelete(w)
  <2>1. CrmDelete(w)  BY <1>4
  <2>2. /\ \A v \in Workers : v # w => job'[v] = job[v]
        /\ job[w].step \notin CreatedSteps
        /\ job'[w].step \notin CreatedSteps
        /\ job'[w].step \notin RowSteps
        /\ job'[w] = Idle
    BY <2>1, GotoJob, IdleIsAJob DEF CrmDelete, CreatedSteps, RowSteps
  <2>3. PasswordsAreSound'  BY <2>1, <2>2, OtherPasswords DEF CrmDelete, accounts, book, secrets, register
  <2>4. RegistrationsAreSound'  BY <2>1, <2>2, OtherRegistrations
      DEF CrmDelete, accounts, book, secrets, register
  <2>5. KeysAreSound'  BY <2>1, DeleteKeys
  <2>6. DefaultsAreKnown'  BY <2>1, <2>2, DisturbedDefaults DEF CrmDelete
  <2>7. QED  BY <2>3, <2>4, <2>5, <2>6
<1>5. CASE \E e \in Emails, place \in Places, default \in BOOLEAN : AddAddress(e, place, default)
  <2>1. PICK e \in Emails, place \in Places, default \in BOOLEAN : AddAddress(e, place, default)  BY <1>5
  <2>2. /\ \A v \in Workers : v # w => job'[v] = job[v]
        /\ job'[w] = job[w]
    BY <2>1 DEF AddAddress
  <2>3. PasswordsAreSound'  BY <2>1, <2>2, OtherPasswords DEF AddAddress, accounts, book, secrets, register
  <2>4. RegistrationsAreSound'  BY <2>1, QuietRegistrations DEF AddAddress, accounts, register
  <2>5. KeysAreSound'  BY <2>1, InsertKeys DEF AddAddress, Address
  <2>6. DefaultsAreKnown'  BY <2>1, DisturbedDefaults DEF AddAddress
  <2>7. QED  BY <2>3, <2>4, <2>5, <2>6
<1>6. QED  BY <1>1, <1>2, <1>3, <1>4, <1>5

LEMMA ResetKeeps ==
  ASSUME IInv, NEW w \in Workers,
         \/ \E link \in links : CheckToken(w, link)
         \/ SetPassword(w)
         \/ \E e \in Emails : SendLink(e)
  PROVE  PasswordsAreSound' /\ RegistrationsAreSound' /\ KeysAreSound' /\ DefaultsAreKnown'
<1> USE DEF IInv
<1>1. CASE \E link \in links : CheckToken(w, link)
  <2>1. PICK link \in links : CheckToken(w, link)  BY <1>1
  <2>2. /\ \A v \in Workers : v # w => job'[v] = job[v]
        /\ job[w].step \notin CreatedSteps
        /\ job'[w].step \notin CreatedSteps
        /\ job'[w].step \notin {"address", "crmSave", "crmDelete"}
        /\ job'[w].step \notin {"first", "address"}
        /\ job'[w] = [step |-> "setPassword", email |-> link.email, row |-> user[link.email], link |-> link]
    BY <2>1, IdleIsAJob DEF CheckToken, Goto, TypeOK, CreatedSteps
  <2>3. PasswordsAreSound'  BY <2>1, <2>2, ReadPasswords
      DEF CheckToken, TokenIsValid, TypeOK, Link, accounts, book, secrets, register
  <2>4. RegistrationsAreSound'  BY <2>1, <2>2, OtherRegistrations
      DEF CheckToken, accounts, book, secrets, register
  <2>5. KeysAreSound'  BY <2>1, <2>2, OtherKeys DEF CheckToken, accounts, book, secrets, register
  <2>6. DefaultsAreKnown'  BY <2>1, <2>2, OtherDefaults DEF CheckToken, accounts, book, secrets, register
  <2>7. QED  BY <2>3, <2>4, <2>5, <2>6
<1>2. CASE SetPassword(w)
  <2>1. SetPassword(w)  BY <1>2
  <2>2. /\ \A v \in Workers : v # w => job'[v] = job[v]
        /\ job[w].step \notin CreatedSteps
        /\ job'[w].step \notin CreatedSteps
        /\ job'[w].step \notin RowSteps
        /\ job'[w].step \notin {"address", "crmSave", "crmDelete"}
        /\ job'[w].step \notin {"first", "address"}
    BY <2>1, GotoJob, IdleIsAJob DEF SetPassword, CreatedSteps, RowSteps
  <2>3. PasswordsAreSound'  BY <2>1, SetPasswordPasswords
  <2>4. RegistrationsAreSound'  BY <2>1, SaveUserRegistrations
  <2>5. KeysAreSound'  BY <2>1, <2>2, OtherKeys DEF SetPassword, accounts, book, secrets, register
  <2>6. DefaultsAreKnown'  BY <2>1, <2>2, OtherDefaults DEF SetPassword, accounts, book, secrets, register
  <2>7. QED  BY <2>3, <2>4, <2>5, <2>6
<1>3. CASE \E e \in Emails : SendLink(e)
  <2>1. PICK e \in Emails : SendLink(e)  BY <1>3
  <2>2. /\ \A v \in Workers : v # w => job'[v] = job[v]
        /\ job' = job
    BY <2>1 DEF SendLink
  <2>3. PasswordsAreSound'  BY <2>1, SendLinkPasswords
  <2>4. RegistrationsAreSound'  BY <2>1, QuietRegistrations DEF SendLink, accounts, register
  <2>5. KeysAreSound'  BY <2>1, <2>2, OtherKeys DEF SendLink, accounts, book, secrets, register
  <2>6. DefaultsAreKnown'  BY <2>1, <2>2, QuietDefaults DEF SendLink, accounts, book, secrets, register
  <2>7. QED  BY <2>3, <2>4, <2>5, <2>6
<1>4. QED  BY <1>1, <1>2, <1>3

LEMMA StutterIInv ==
  ASSUME IInv, UNCHANGED vars
  PROVE  IInv'
<1> USE DEF vars, accounts, book, secrets, register, IInv
<1>1. TypeOK'  BY DEF TypeOK
<1>2. PasswordsAreSound'  BY QuietPasswords DEF KeepsRow
<1>3. RegistrationsAreSound'  BY QuietRegistrations
<1>4. KeysAreSound'  BY DEF KeysAreSound, WillSaveAddress
<1>5. DefaultsAreKnown'  BY QuietDefaults
<1>6. QED  BY <1>1, <1>2, <1>3, <1>4, <1>5

LEMMA NextIInv == IInv /\ [Next]_vars => IInv'
<1> SUFFICES ASSUME IInv, [Next]_vars PROVE IInv'  OBVIOUS
<1>1. CASE UNCHANGED vars  BY <1>1, StutterIInv
<1>2. ASSUME NEW w \in Workers, Next PROVE IInv'
  <2>1. TypeOK  BY DEF IInv
  <2>2. TypeOK'
    BY <1>2, <2>1, RegisterTypes, ProfileTypes, OtherTypes DEF Next
  <2>3. PasswordsAreSound' /\ RegistrationsAreSound' /\ KeysAreSound' /\ DefaultsAreKnown'
    BY <1>2, RegisterKeeps, ProfileKeeps, CrmKeeps, ResetKeeps DEF Next
  <2>4. QED  BY <2>2, <2>3 DEF IInv
<1>3. QED  BY <1>1, <1>2, WorkersAssumption

-----------------------------------------------------------------------------
(***************************************************************************)
(* The steps of the action properties.                                     *)
(***************************************************************************)
LEMMA LinkStep ==
  ASSUME IInv, NEW w \in Workers, SetPassword(w), job[w].link \in used
  PROVE  job[w].email \in overlapped
<1>1. job[w].step = "setPassword" /\ job[w].step \in RowSteps  BY DEF SetPassword, RowSteps
<1>2. job[w].email \in Emails  BY <1>1, RowShape DEF IInv
<1>3. WillSave(w, job[w].email)  BY <1>1 DEF WillSave
<1>4. job[w].row.hash # latest[job[w].email]
  BY <1>1 DEF IInv, PasswordsAreSound
<1>5. QED  BY <1>2, <1>3, <1>4 DEF IInv, PasswordsAreSound

LEMMA DefaultStep ==
  ASSUME IInv, NEW w \in Workers, NEW e \in Emails,
         SaveAddress(w), w \notin disturbed, job[w].email = e
  PROVE  /\ Shown(e) # 0 => Shown(e)' = Shown(e)
         /\ address'[Shown(e)'] = [owner |-> e, place |-> job[w].place, default |-> TRUE]
         /\ Defaults(e)' \subseteq Defaults(e) \cup {Shown(e)'}
<1> DEFINE row == [owner |-> e, place |-> job[w].place, default |-> TRUE]
<1>1. job[w] \in AddressJob /\ job[w].at = Shown(e)
  BY JobShape DEF IInv, SaveAddress, DefaultsAreKnown, KnowsTheDefault
<1>2. row \in Address /\ row # None
  <2>1. row \in Address  BY <1>1 DEF AddressJob, Address
  <2> HIDE DEF row
  <2>2. QED  BY <2>1, NoneAssumption
<1>3. address \in [Ids -> Address \cup {None}]  BY DEF IInv, TypeOK
<1>4. /\ Owned(e) \subseteq Ids /\ Defaults(e) \subseteq Owned(e) /\ Defaults(e) \subseteq Ids
      /\ Owned(e)' \subseteq Ids /\ Defaults(e)' \subseteq Ids
  BY DEF Owned, Defaults
<1>5. ASSUME NEW i \in Ids, address' = [address EXCEPT ![i] = row]
      PROVE  address'[i] = row /\ Owned(e)' = Owned(e) \cup {i} /\ Defaults(e)' = Defaults(e) \cup {i}
  <2>1. address'[i] = row /\ \A k \in Ids : k # i => address'[k] = address[k]
    BY <1>3, <1>5
  <2>2. row.owner = e /\ row.default = TRUE  OBVIOUS
  <2> HIDE DEF row
  <2>3. \A k \in Ids : k \in Owned(e)' <=> k \in Owned(e) \cup {i}
    BY <1>2, <2>1, <2>2 DEF Owned
  <2>4. \A k \in Ids : k \in Defaults(e)' <=> k \in Defaults(e) \cup {i}
    BY <1>2, <2>1, <2>2 DEF Owned, Defaults
  <2>5. QED  BY <1>4, <2>1, <2>3, <2>4
<1>6. CASE Shown(e) = 0
  <2>1. Owned(e) = {} /\ Defaults(e) = {}
    BY <1>4, <1>6, FirstOfIds DEF Shown
  <2>2. nextId \in Ids /\ address' = [address EXCEPT ![nextId] = row]
    <3>1. Insert(row)  BY <1>1, <1>6 DEF SaveAddress
    <3>2. nextId \in Ids  BY <1>2, <3>1, InsertTypes DEF IInv
    <3>3. QED  BY <3>1, <3>2 DEF Insert
  <2>3. address'[nextId] = row /\ Defaults(e)' = {nextId}
    BY <1>5, <2>1, <2>2
  <2>4. Shown(e)' = nextId
    BY <1>4, <2>2, <2>3, FirstOfIds DEF Shown
  <2>5. QED  BY <1>6, <2>3, <2>4
<1>7. CASE Shown(e) # 0
  <2>1. PICK i : i = Shown(e)  OBVIOUS
  <2>2. i \in Owned(e) /\ (Defaults(e) = {} \/ i \in Defaults(e))
    BY <1>4, <1>7, <2>1, FirstOfIds DEF Shown
  <2>3. address' = [address EXCEPT ![i] = row]
    BY <1>1, <1>7, <2>1 DEF SaveAddress
  <2>4. i \in Ids /\ address'[i] = row /\ Defaults(e)' = Defaults(e) \cup {i}
    BY <1>4, <1>5, <2>2, <2>3
  <2>5. Shown(e)' = i
    <3>1. CASE Defaults(e) = {}
      BY <1>4, <2>4, <3>1, FirstOfIds DEF Shown
    <3>2. CASE Defaults(e) # {}
      <4>1. Defaults(e)' = Defaults(e)  BY <2>2, <2>4, <3>2
      <4>2. Shown(e)' = FirstOf(Defaults(e)) /\ Shown(e) = FirstOf(Defaults(e))
        BY <3>2, <4>1 DEF Shown, FirstOf
      <4>3. QED  BY <2>1, <4>2
    <3>3. QED  BY <3>1, <3>2
  <2>6. QED  BY <1>7, <2>1, <2>4, <2>5
<1>8. QED  BY <1>6, <1>7

-----------------------------------------------------------------------------
(***************************************************************************)
(* Theorems.                                                               *)
(***************************************************************************)
THEOREM Invariance == Spec => []IInv
  BY InitIInv, NextIInv, PTL DEF Spec

\* The types of Accounts, for any number of workers, emails, addresses and passwords
\* (accounts/models.py:21-80).
THEOREM TypeCorrect == Spec => []TypeOK
<1>1. IInv => TypeOK  BY DEF IInv
<1>2. QED  BY Invariance, <1>1, PTL

\* However registrations interleave, one at most is answered 201 and its account is whole
\* (accounts/api/views.py:58-75).
THEOREM AccountsWhole == Spec => []AccountsAreWhole
<1>1. IInv => AccountsAreWhole  BY DEF IInv, RegistrationsAreSound
<1>2. QED  BY Invariance, <1>1, PTL

\* A password stays unless the row was read before the reset that made it
\* (accounts/api/serializers.py:67-71).
THEOREM PasswordStays == Spec => []LastPasswordStays
<1>1. IInv => LastPasswordStays  BY DEF IInv, PasswordsAreSound, LastPasswordStays
<1>2. QED  BY Invariance, <1>1, PTL

\* A deleted address stays away unless it was read before (accounts/api/views_crm.py:77-88).
THEOREM DeletedStayAway == Spec => []DeletedAddressesStayAway
<1>1. IInv => DeletedAddressesStayAway  BY DEF IInv, KeysAreSound, DeletedAddressesStayAway
<1>2. QED  BY Invariance, <1>1, PTL

\* A reset link sets a password once, unless its reset was overlapped (accounts/api/views.py:220).
THEOREM LinkOnce == Spec => LinksWorkOnce
<1>1. IInv /\ [Next]_vars =>
        [\A w \in Workers : SetPassword(w) /\ job[w].link \in used => job[w].email \in overlapped]_vars
  BY LinkStep
<1>2. QED  BY Invariance, <1>1, PTL DEF Spec, LinksWorkOnce

\* An undisturbed PATCH writes the address the profile shows (accounts/api/serializers.py:78-89).
THEOREM WritesTheDefault == Spec => ProfileWritesTheDefault
<1>1. IInv /\ [Next]_vars =>
        [\A w \in Workers, e \in Emails :
           SaveAddress(w) /\ w \notin disturbed /\ job[w].email = e =>
             /\ Shown(e) # 0 => Shown(e)' = Shown(e)
             /\ address'[Shown(e)'] = [owner |-> e, place |-> job[w].place, default |-> TRUE]
             /\ Defaults(e)' \subseteq Defaults(e) \cup {Shown(e)'}]_vars
  BY DefaultStep
<1>2. QED  BY Invariance, <1>1, PTL DEF Spec, ProfileWritesTheDefault
=============================================================================
