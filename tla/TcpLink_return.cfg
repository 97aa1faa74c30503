SPECIFICATION FairSpec
CONSTANTS
  c1 = c1
  c2 = c2
  Calls <- TwoCalls
  Rx = Rx
  Notice = Notice
  Bye = Bye
  Nothing = Nothing
  MaxDoubles = 0
PROPERTIES
  LinkReturns
CHECK_DEADLOCK FALSE
