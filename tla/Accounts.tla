------------------------------ MODULE Accounts ------------------------------
(***************************************************************************)
(* Customers' accounts: registration, profile, addresses, password reset.  *)
(*                                                                         *)
(* No request is a transaction: each statement commits by itself, and a    *)
(* worker may die between two of them.  Most requests read a row, change   *)
(* some of its columns and save() it: an UPDATE of every column as read,   *)
(* or an INSERT if the row is gone.                                        *)
(*                                                                         *)
(* A user is known by the stored email, which nothing here changes.  Every *)
(* set_password makes a new hash, also of the same password: hashes are    *)
(* numbered.  A reset link is bound to the hash of the moment it is sent.  *)
(***************************************************************************)
EXTENDS Naturals, FiniteSets

CONSTANTS
  Workers,
  Emails,       \* the emails that are submitted
  Normal,       \* normalize_email: the domain in lower case
  Names, Phones,
  Places,       \* what is submitted of an address, apart from is_default
  None,         \* no row, or a field that is not submitted
  MaxHashes,    \* bound: how often a password is set
  MaxAddresses  \* bound: how many addresses are created

ASSUME WorkersAssumption == Workers # {}
ASSUME BoundsAssumption == MaxHashes \in Nat /\ MaxAddresses \in Nat
ASSUME NormalAssumption == Normal \in [Emails -> Emails] /\ \A e \in Emails : Normal[Normal[e]] = Normal[e]

Ids == 1..MaxAddresses

User    == [hash : 1..MaxHashes, name : Names]
Address == [owner : Emails, place : Places, default : BOOLEAN]
Link    == [email : Emails, hash : 1..MaxHashes]

ASSUME NoneAssumption ==
  None \notin User \cup Address \cup Names \cup Phones \cup Places \cup BOOLEAN

\* The body of PATCH /api/account/me/ and of PATCH /api/crm/.../addresses/...
Profile == [name : Names \cup {None}, phone : Phones \cup {None}, place : Places \cup {None}]
Change  == [place : Places \cup {None}, default : BOOLEAN \cup {None}]

Idle == [step |-> "idle"]

\* What a worker still needs of what it has read.
RegisterJob == [step : {"create", "group", "customer", "answer"}, email : Emails]
UserJob     == [step : {"load", "saveUser"}, email : Emails, given : Profile, row : User]
CustomerJob == [step : {"saveCustomer"}, email : Emails, given : Profile, row : User, phone : Phones]
DefaultJob  == [step : {"default", "first"}, email : Emails, place : Places]
AddressJob  == [step : {"address"}, email : Emails, place : Places, at : Ids \cup {0}]
PasswordJob == [step : {"setPassword"}, email : Emails, row : User, link : Link]
CrmSaveJob  == [step : {"crmSave"}, at : Ids, row : Address, given : Change]
CrmDelJob   == [step : {"crmDelete"}, at : Ids]

Job == {Idle} \cup RegisterJob \cup UserJob \cup CustomerJob \cup DefaultJob \cup AddressJob
         \cup PasswordJob \cup CrmSaveJob \cup CrmDelJob

VARIABLES
  user,       \* the users by their stored email
  groups,     \* who is in the group "customer"
  customer,   \* the phone of each Customer
  address,    \* the addresses by their id
  nextId,     \* the sequence of their ids
  links,      \* the reset links that were sent
  job,        \* what each worker is doing
  hashes,     \* how many hashes were made
  answered,   \* history: how many registrations of each user were answered 201
  abandoned,  \* history: the users whose registration died
  latest,     \* history: the last hash that was set on purpose, by registration or reset
  overlapped, \* history: the users for whom that reset overlapped another save of their row
  used,       \* history: the links that have set a password
  gone,       \* history: the addresses deleted while nobody else was about to save them
  disturbed   \* history: the workers who asked for a default address that others wrote to since

accounts == <<user, groups, customer>>
book     == <<address, nextId, gone, disturbed>>
register == <<answered, abandoned>>
secrets  == <<hashes, links, latest, overlapped, used>>
vars     == <<accounts, book, job, secrets, register>>

TypeOK ==
  /\ user \in [Emails -> User \cup {None}]
  /\ groups \subseteq Emails
  /\ customer \in [Emails -> Phones \cup {None}]
  /\ address \in [Ids -> Address \cup {None}]
  /\ nextId \in 1..MaxAddresses + 1
  /\ links \subseteq Link
  /\ job \in [Workers -> Job]
  /\ hashes \in 0..MaxHashes
  /\ answered \in [Emails -> Nat]
  /\ abandoned \subseteq Emails
  /\ latest \in [Emails -> 0..MaxHashes]
  /\ overlapped \subseteq Emails
  /\ used \subseteq Link
  /\ gone \subseteq Ids /\ disturbed \subseteq Workers

Init ==
  /\ user = [e \in Emails |-> None] /\ groups = {} /\ customer = [e \in Emails |-> None]
  /\ address = [i \in Ids |-> None] /\ nextId = 1 /\ gone = {} /\ disturbed = {}
  /\ links = {} /\ used = {}
  /\ job = [w \in Workers |-> Idle]
  /\ hashes = 0 /\ latest = [e \in Emails |-> 0] /\ overlapped = {}
  /\ answered = [e \in Emails |-> 0] /\ abandoned = {}

Goto(w, j) == job' = [job EXCEPT ![w] = j]

\* Whether the job of w will save the user row of e as it has read it.
WillSave(w, e) ==
  /\ job[w].step \in {"load", "saveCustomer", "saveUser", "setPassword"} /\ job[w].email = e
  /\ job[w].step \in {"load", "saveCustomer"} => job[w].given.name # None

\* Mutant of Saves: update_fields with the names only.
SavesTheName(e, row) == user' = [user EXCEPT ![e].name = row.name]

\* save() of a user row: every column, whatever is stored by now.
Saves(e, row) == user' = [user EXCEPT ![e] = row]

\* Whether the job of w will save address i.
WillSaveAddress(w, i) == job[w].step \in {"address", "crmSave"} /\ job[w].at = i

-----------------------------------------------------------------------------
(***************************************************************************)
(* POST /api/auth/register/                                                *)
(***************************************************************************)
\* exists() is asked for the email as it was submitted.
CheckEmail(w, e) ==
  /\ job[w] = Idle
  /\ user[e] = None
  /\ Goto(w, [step |-> "create", email |-> e])
  /\ UNCHANGED <<accounts, book, secrets, register>>

\* Mutant of IsUnique: no unique constraint on the email.
NoConstraint(e) == TRUE

IsUnique(e) == user[e] = None

\* The email is stored in its normal form; the constraint may still refuse it (500).
CreateUser(w, name) ==
  LET e == Normal[job[w].email] IN
  /\ job[w].step = "create"
  /\ \/ /\ ~IsUnique(e)
        /\ Goto(w, Idle)
        /\ UNCHANGED <<user, hashes, latest, overlapped>>
     \/ /\ IsUnique(e) /\ hashes < MaxHashes
        /\ hashes' = hashes + 1
        /\ user' = [user EXCEPT ![e] = [hash |-> hashes', name |-> name]]
        /\ latest' = [latest EXCEPT ![e] = hashes']
        /\ overlapped' = overlapped \ {e}
        /\ Goto(w, [step |-> "group", email |-> e])
  /\ UNCHANGED <<groups, customer, book, links, used, register>>

AddToGroup(w) ==
  /\ job[w].step = "group"
  /\ groups' = groups \cup {job[w].email}
  /\ Goto(w, [job[w] EXCEPT !.step = "customer"])
  /\ UNCHANGED <<user, customer, book, secrets, register>>

CreateCustomer(w, phone) ==
  /\ job[w].step = "customer"
  /\ customer' = [customer EXCEPT ![job[w].email] = phone]
  /\ Goto(w, [job[w] EXCEPT !.step = "answer"])
  /\ UNCHANGED <<user, groups, book, secrets, register>>

AnswerRegistration(w) ==
  /\ job[w].step = "answer"
  /\ answered' = [answered EXCEPT ![job[w].email] = @ + 1]
  /\ Goto(w, Idle)
  /\ UNCHANGED <<accounts, book, secrets, abandoned>>

-----------------------------------------------------------------------------
(***************************************************************************)
(* PATCH /api/account/me/                                                  *)
(***************************************************************************)
\* The token is checked: request.user is the row of this moment for the whole request.
StartProfile(w, e, given) ==
  /\ job[w] = Idle
  /\ user[e] # None
  /\ Goto(w, [step |-> "load", email |-> e, given |-> given, row |-> user[e]])
  /\ UNCHANGED <<accounts, book, secrets, register>>

\* 403 if the user is not in the group, 500 if there is no Customer.
LoadCustomer(w) ==
  LET j == job[w] IN
  /\ j.step = "load"
  /\ IF j.email \in groups /\ customer[j.email] # None
     THEN Goto(w, [step |-> "saveCustomer", email |-> j.email, given |-> j.given,
                   row |-> j.row, phone |-> customer[j.email]])
     ELSE Goto(w, Idle)
  /\ UNCHANGED <<accounts, book, secrets, register>>

\* Mutant of AfterUser: the address is saved whether one was given or not.
AfterUserAnyway(j) == [step |-> "default", email |-> j.email, place |-> j.given.place]

AfterUser(j) ==
  IF j.given.place = None THEN Idle
  ELSE [step |-> "default", email |-> j.email, place |-> j.given.place]

AfterCustomer(j) ==
  IF j.given.name = None THEN AfterUser(j)
  ELSE [step |-> "saveUser", email |-> j.email, given |-> j.given,
        row |-> [j.row EXCEPT !.name = j.given.name]]

\* instance.save(), whether a phone was given or not.
SaveCustomer(w) ==
  LET j == job[w] IN
  /\ j.step = "saveCustomer"
  /\ customer' = [customer EXCEPT ![j.email] = IF j.given.phone = None THEN j.phone ELSE j.given.phone]
  /\ Goto(w, AfterCustomer(j))
  /\ UNCHANGED <<user, groups, book, secrets, register>>

\* user.save() of every column, the password included.
SaveUser(w) ==
  LET j == job[w] IN
  /\ j.step = "saveUser"
  /\ Saves(j.email, j.row)
  /\ Goto(w, AfterUser(j))
  /\ UNCHANGED <<groups, customer, book, secrets, register>>

\* History: the workers but for those in ws who have asked for a default address.
Disturb(ws) ==
  disturbed' = (disturbed \cup {v \in Workers : job[v].step \in {"first", "address"}}) \ ws

Owned(e)    == {i \in Ids : address[i] # None /\ address[i].owner = e}
Defaults(e) == {i \in Owned(e) : address[i].default}

\* .first() of a queryset without an ordering: the smallest key, 0 for no row.
FirstOf(S) == IF S = {} THEN 0 ELSE CHOOSE i \in S : \A k \in S : i <= k

\* Mutant of FirstDefault: the first address even if there is a default.
FirstAddress(e) == FirstOf(Owned(e))

FirstDefault(e) == FirstOf(Defaults(e))

\* default_shipping_address asks for the first default, and then, if there is none, for the first.
ReadDefault(w) ==
  LET j == job[w]
      found == FirstDefault(j.email) IN
  /\ j.step = "default"
  /\ IF found = 0
     THEN Goto(w, [j EXCEPT !.step = "first"])
     ELSE Goto(w, [step |-> "address", email |-> j.email, place |-> j.place, at |-> found])
  /\ disturbed' = disturbed \ {w}
  /\ UNCHANGED <<accounts, address, nextId, gone, secrets, register>>

ReadFirst(w) ==
  LET j == job[w] IN
  /\ j.step = "first"
  /\ Goto(w, [step |-> "address", email |-> j.email, place |-> j.place, at |-> FirstAddress(j.email)])
  /\ UNCHANGED <<accounts, book, secrets, register>>

\* Mutant of Insert: the key of a row that was deleted is used again.
InsertAtFreeKey(row) ==
  /\ nextId <= MaxAddresses
  /\ address' = [address EXCEPT ![CHOOSE i \in Ids : address[i] = None] = row]
  /\ nextId' = nextId + 1

Insert(row) ==
  /\ nextId <= MaxAddresses
  /\ address' = [address EXCEPT ![nextId] = row]
  /\ nextId' = nextId + 1

SaveAddress(w) ==
  LET j   == job[w]
      row == [owner |-> j.email, place |-> j.place, default |-> TRUE] IN
  /\ j.step = "address"
  /\ \/ /\ j.at = 0
        /\ Insert(row)
     \/ /\ j.at # 0
        /\ address' = [address EXCEPT ![j.at] = row]
        /\ UNCHANGED nextId
  /\ Goto(w, Idle)
  /\ Disturb({w})
  /\ UNCHANGED <<accounts, gone, secrets, register>>

-----------------------------------------------------------------------------
(***************************************************************************)
(* Addresses, by the customer and by the CRM.                              *)
(***************************************************************************)
\* POST /api/addresses/ and POST /api/crm/customers/.../addresses/
AddAddress(e, place, default) ==
  /\ customer[e] # None
  /\ Insert([owner |-> e, place |-> place, default |-> default])
  /\ Disturb({})
  /\ UNCHANGED <<accounts, gone, job, secrets, register>>

CrmRead(w, i, given) ==
  /\ job[w] = Idle
  /\ address[i] # None
  /\ Goto(w, [step |-> "crmSave", at |-> i, row |-> address[i], given |-> given])
  /\ UNCHANGED <<accounts, book, secrets, register>>

CrmSave(w) ==
  LET j == job[w] IN
  /\ j.step = "crmSave"
  /\ address' = [address EXCEPT ![j.at] =
                   [j.row EXCEPT !.place = IF j.given.place = None THEN @ ELSE j.given.place,
                                 !.default = IF j.given.default = None THEN @ ELSE j.given.default]]
  /\ Goto(w, Idle)
  /\ Disturb({})
  /\ UNCHANGED <<accounts, nextId, gone, secrets, register>>

CrmReadToDelete(w, i) ==
  /\ job[w] = Idle
  /\ address[i] # None
  /\ Goto(w, [step |-> "crmDelete", at |-> i])
  /\ UNCHANGED <<accounts, book, secrets, register>>

CrmDelete(w) ==
  LET i == job[w].at IN
  /\ job[w].step = "crmDelete"
  /\ address' = [address EXCEPT ![i] = None]
  /\ gone' = IF \E v \in Workers : WillSaveAddress(v, i) THEN gone ELSE gone \cup {i}
  /\ Goto(w, Idle)
  /\ Disturb({})
  /\ UNCHANGED <<accounts, nextId, secrets, register>>

-----------------------------------------------------------------------------
(***************************************************************************)
(* POST /api/auth/password-reset/ and .../confirm/                         *)
(***************************************************************************)
SendLink(e) ==
  /\ user[e] # None
  /\ links' = links \cup {[email |-> e, hash |-> user[e].hash]}
  /\ UNCHANGED <<accounts, book, job, hashes, latest, overlapped, used, register>>

\* Mutant of TokenIsValid: the token does not depend on the password.
TokenIsSigned(link) == user[link.email] # None

TokenIsValid(link) == user[link.email] # None /\ link.hash = user[link.email].hash

CheckToken(w, link) ==
  /\ job[w] = Idle
  /\ link \in links
  /\ TokenIsValid(link)
  /\ Goto(w, [step |-> "setPassword", email |-> link.email, row |-> user[link.email], link |-> link])
  /\ UNCHANGED <<accounts, book, secrets, register>>

\* form.save() saves every column, the name included.
SetPassword(w) ==
  LET j == job[w] IN
  /\ j.step = "setPassword" /\ hashes < MaxHashes
  /\ hashes' = hashes + 1
  /\ Saves(j.email, [j.row EXCEPT !.hash = hashes'])
  /\ latest' = [latest EXCEPT ![j.email] = hashes']
  /\ overlapped' = IF \E v \in Workers \ {w} : WillSave(v, j.email)
                   THEN overlapped \cup {j.email} ELSE overlapped \ {j.email}
  /\ used' = used \cup {j.link}
  /\ Goto(w, Idle)
  /\ UNCHANGED <<groups, customer, book, links, register>>

-----------------------------------------------------------------------------
RequestDies(w) ==
  /\ job[w] # Idle
  /\ Goto(w, Idle)
  /\ abandoned' = IF job[w].step \in {"group", "customer"}
                  THEN abandoned \cup {job[w].email} ELSE abandoned
  /\ disturbed' = disturbed \ {w}
  /\ UNCHANGED <<accounts, address, nextId, gone, secrets, answered>>

Next ==
  \/ \E w \in Workers :
       \/ \E e \in Emails : CheckEmail(w, e)
       \/ \E name \in Names : CreateUser(w, name)
       \/ AddToGroup(w)
       \/ \E phone \in Phones : CreateCustomer(w, phone)
       \/ AnswerRegistration(w)
       \/ \E e \in Emails, given \in Profile : StartProfile(w, e, given)
       \/ LoadCustomer(w) \/ SaveCustomer(w) \/ SaveUser(w)
       \/ ReadDefault(w) \/ ReadFirst(w) \/ SaveAddress(w)
       \/ \E i \in Ids, given \in Change : CrmRead(w, i, given)
       \/ CrmSave(w)
       \/ \E i \in Ids : CrmReadToDelete(w, i)
       \/ CrmDelete(w)
       \/ \E link \in links : CheckToken(w, link)
       \/ SetPassword(w)
       \/ RequestDies(w)
  \/ \E e \in Emails, place \in Places, default \in BOOLEAN : AddAddress(e, place, default)
  \/ \E e \in Emails : SendLink(e)

Spec == Init /\ [][Next]_vars

-----------------------------------------------------------------------------
(***************************************************************************)
(* Properties.                                                             *)
(***************************************************************************)
IsWhole(e) == user[e] # None /\ e \in groups /\ customer[e] # None

IsBeingCreated(e) ==
  \E w \in Workers : job[w].step \in {"group", "customer"} /\ job[w].email = e

\* However the four commits of registrations under one email interleave, one of them at most is
\* answered 201, then the account is whole, and only a death leaves one that is not
\* (accounts/api/views.py:58-75).
AccountsAreWhole ==
  \A e \in Emails :
    /\ answered[e] <= 1
    /\ answered[e] = 1 => IsWhole(e)
    /\ user[e] # None => IsWhole(e) \/ IsBeingCreated(e) \/ e \in abandoned

\* The password is the one of the last registration or reset, unless another request that saves the
\* row had read it before that reset (accounts/api/serializers.py:67-71, api/views.py:214-227).
LastPasswordStays ==
  \A e \in Emails :
    user[e] # None => user[e].hash = latest[e] \/ e \in overlapped

\* A link sets a password once, unless the last reset was overlapped: the token depends on the
\* stored hash, which a save of an older row brings back (accounts/api/views.py:220).
LinksWorkOnce ==
  [][\A w \in Workers :
       SetPassword(w) /\ job[w].link \in used => job[w].email \in overlapped]_vars

\* A deleted address does not return, unless a request that saves it had read it before: save()
\* inserts a row that is gone (accounts/api/views_crm.py:77-88, serializers.py:78-89).
DeletedAddressesStayAway ==
  \A i \in gone : address[i] = None

\* A PATCH writes the address that the profile shows, before and afterwards, and makes no second
\* default, unless others wrote to the addresses since it asked for the default
\* (accounts/models.py:57-60, api/serializers.py:78-89).
Shown(e) == FirstOf(IF Defaults(e) # {} THEN Defaults(e) ELSE Owned(e))
ProfileWritesTheDefault ==
  [][\A w \in Workers, e \in Emails :
       SaveAddress(w) /\ w \notin disturbed /\ job[w].email = e =>
         /\ Shown(e) # 0 => Shown(e)' = Shown(e)
         /\ address'[Shown(e)'] = [owner |-> e, place |-> job[w].place, default |-> TRUE]
         /\ Defaults(e)' \subseteq Defaults(e) \cup {Shown(e)'}]_vars

\* A PATCH of the profile changes "first_name, last_name, phone, default_shipping_address"
\* (accounts/api/README.md:85-86), not the password.
ProfileKeepsPassword ==
  [][\A w \in Workers :
       SaveUser(w) => user'[job[w].email].hash = user[job[w].email].hash]_vars
=============================================================================
