SPECIFICATION Spec
CONSTANTS
  NONE = NONE
  Streams <- MCStreams
  Logins <- MCLogins
  Unfit <- MCUnfit
  Unstorable <- MCUnstorable
  Ids <- MCIds
  Plan <- MCPlan
  Initial <- MCInitial
  Known <- MCKnown
  MaxGiveUps = 2
  MaxFailures = 1
INVARIANTS TypeOK EffectsInOrder AsPlanned
PROPERTIES ImplementsPromise StreamsEnd
CHECK_DEADLOCK FALSE
