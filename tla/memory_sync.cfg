\* Creations and patches of one store by two requests at a time.
SPECIFICATION Spec
CONSTANTS
  Logins <- MCLogins
  Fold <- MCFold
  TaxCodes = {"tax"}
  Streets = {"via", "rue"}
  Countries = {"IT"}
  RegionNames = {"Roma"}
  EnabledRegions <- MCRegions
  ExtKeys = {"a"}
  ExtValues = {"x"}
  NULL = NULL
  UNSET = UNSET
  NONE = NONE
  Workers = {w1, w2}
  Messages <- MCMessages
  MaxId = 2
INVARIANTS
  TypeOK
  CreatedOnce
PROPERTIES
  ImplementsPromise
  EveryRequestEnds
