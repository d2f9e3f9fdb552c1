CONSTANTS
  lower = lower
  upper = upper
  Workers = {w1, w2}
  Emails = {lower, upper}
  Normal <- LowerDomain
  Names = {n1}
  Phones = {p1}
  Places = {x1}
  None = None
  MaxHashes = 3
  MaxAddresses = 2
SYMMETRY WorkersAlike
SPECIFICATION Spec
INVARIANTS
  TypeOK
  AccountsAreWhole
  LastPasswordStays
  DeletedAddressesStayAway
PROPERTIES
  LinksWorkOnce
  ProfileWritesTheDefault
