SPECIFICATION Spec
CONSTANTS
  Tabs = {t1}
  ListLimit = 2
  MaxKeys = 2
CHECK_DEADLOCK FALSE
INVARIANT RetryMakesNoSecondRun
