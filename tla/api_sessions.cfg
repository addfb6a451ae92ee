\* Two requests at a time, of the API and of a sandbox that signs alike.
SPECIFICATION Spec
CONSTANTS
  Requests = {r1, r2}
  TokenIds = {t1}
  Keys = {"key"}
  Secret <- MCSecret
  AccountTables <- MCAccountTables
  Credentials <- MCCredentials
  Products <- MCProducts
  Life = 2
  Second = 2
  MaxTime = 3
  NONE = NONE
SYMMETRY Symmetry
INVARIANTS
  TypeOK
  LogoutIsFinal
  LiveTokenAccepted
  TokensStayApart
  PermissionsMatchScopes
