\* Creations, renames, refused contents and concurrent patches.
SPECIFICATION ScenarioSpec
CONSTANTS
  Logins <- MCLogins
  Fold <- MCFold
  TaxCodes = {"tax"}
  Streets = {"via", "rue"}
  Countries = {"IT", "FR"}
  RegionNames = {"Roma", "Milano", "Paris"}
  EnabledRegions <- MCRegions
  ExtKeys = {"a", "b"}
  ExtValues = {"x"}
  NULL = NULL
  UNSET = UNSET
  NONE = NONE
  Workers = {w1, w2}
  Messages <- AllMessages
  MaxId = 4
  FirstId = 3
  InitialCustomers <- TwoCustomers
  LegacyRows <- LegacyEve
SYMMETRY WorkerSymmetry
INVARIANTS
  TypeOK
  LoginsUnique
  CreatedOnce
  CustomersConsistent
  ServerNeverStuck
PROPERTY
  ImplementsPromise
