CONSTANTS
  o1 = o1
  s1 = s1
  s2 = s2
  w1 = w1
  w2 = w2
  NoSession = NoSession
  Orders <- OneOrder
  Sessions <- TwoSessions
  Workers <- TwoWorkers
  WithShipping <- FirstOnly
  WithMetadata <- FirstOnly
  CrmTargets <- Status
  MaxFaults = 0
  MaxDuplicates = 1
  MaxDeploys = 0
SPECIFICATION Spec
SYMMETRY WorkersAreAlike
INVARIANTS
  TypeOK
  PaidOnlyWithMoney
  MilestonesInOrder
  OneConfirmationPerSettlement
CHECK_DEADLOCK FALSE
