SPECIFICATION Spec
CONSTANTS
  NONE = NONE
  Streams <- LongStreams
  Logins <- MCLogins
  Unfit <- MCUnfit
  Unstorable <- MCUnstorable
  Ids <- MCIds
  Plan <- LongPlan
  Initial <- MCInitial
  Known <- LongKnown
  MaxGiveUps = 2
  MaxFailures = 1
PROPERTY EveryStreamEnds
CHECK_DEADLOCK FALSE
