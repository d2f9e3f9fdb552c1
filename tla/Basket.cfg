CONSTANTS
  r1 = r1
  r2 = r2
  k1 = k1
  k2 = k2
  v1 = v1
  v2 = v2
  NoKey = NoKey
  NoSession = NoSession
  NoCart = NoCart
  NoPrice = NoPrice
  Requests <- TwoRequests
  Keys <- TwoKeys
  Variants <- TwoVariants
  Amounts <- OneMoreOrLess
  Prices = {1}
  MaxCarried = 1
  MaxChanges = 1
SPECIFICATION Spec
SYMMETRY Alike
INVARIANTS
  TypeOK
  NothingIsLost
  NeverMoreThanAsked
  ViewAddsUp
CHECK_DEADLOCK FALSE
