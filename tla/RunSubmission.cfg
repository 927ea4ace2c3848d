SPECIFICATION FairSpec
CONSTANTS
  Tabs = {t1}
  ListLimit = 3
  MaxKeys = 3
CHECK_DEADLOCK FALSE
INVARIANTS
  AcceptedOnce
PROPERTIES
  NeverForgotten
  PendingResolves
