CONSTANTS
  o1 = o1
  s1 = s1
  s2 = s2
  w1 = w1
  w2 = w2
  NoSession = NoSession
  Orders <- OneOrder
  Sessions <- OneSession
  Workers <- OneWorker
  WithShipping <- FirstOnly
  WithMetadata <- FirstOnly
  CrmTargets <- Making
  MaxFaults = 0
  MaxDuplicates = 1
  MaxDeploys = 0
SPECIFICATION Spec
INVARIANTS
  ConfirmedAtMostOnce
CHECK_DEADLOCK FALSE
