CONSTANTS
  o1 = o1
  s1 = s1
  s2 = s2
  w1 = w1
  w2 = w2
  NoSession = NoSession
  Orders <- OneOrder
  Sessions <- OneSession
  Workers <- TwoWorkers
  WithShipping <- FirstOnly
  WithMetadata <- FirstOnly
  CrmTargets <- Making
  MaxFaults = 1
  MaxDuplicates = 0
  MaxDeploys = 1
SPECIFICATION FairSpec
INVARIANTS
  AnsweredEventsAreApplied
  MailsFollowTheRow
PROPERTIES
  ImplementsLedger
  PaymentReachesOrder
  EventsAreAnswered
CHECK_DEADLOCK FALSE
