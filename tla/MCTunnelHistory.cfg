SPECIFICATION FairSpec
CONSTANTS
  MaxRelay = 2
  MaxRows = 2
  MaxCrash = 1
INVARIANTS
  
  ChainLinked
  ReceiptAgreesWithRow
PROPERTIES
  VanishedStreakEnds
CHECK_DEADLOCK FALSE
