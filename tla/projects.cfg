CONSTANTS
  MaxEdits = 2
  MaxRequests = 2
  MaxRuns = 2
SPECIFICATION FairSpec
INVARIANTS TypeOK OkIsInSync
PROPERTY MarksEnd
CHECK_DEADLOCK FALSE
