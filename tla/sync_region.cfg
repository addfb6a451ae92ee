\* An address patch that waits while the region of the row changes.
SPECIFICATION Spec
CONSTANTS
  Logins <- MCLogins
  Fold <- MCFold
  TaxCodes = {"tax"}
  Streets = {"via", "rue"}
  Countries = {"IT", "FR"}
  RegionNames = {"Roma", "Milano", "Paris"}
  EnabledRegions <- MCRegions
  ExtKeys = {"a", "b"}
  ExtValues = {"x"}
  NULL = NULL
  UNSET = UNSET
  NONE = NONE
  Workers = {w1, w2}
  Messages <- PatchMessages
  MaxId = 1
  FirstId = 2
  InitialCustomers <- OneCustomer
  LegacyRows <- NoRows
INVARIANT
  StoredRowCompletesPatch
