\* The token endpoint answers with an error.
SPECIFICATION Spec
CONSTANTS
  r1 = r1
  r2 = r2
  r3 = r3
  e1 = e1
  e2 = e2
  k1 = k1
  k2 = k2
  Requests = {r1, r3}
  Entities = {e1, e2}
  Target <- TwoTargets
  Deletions = {r3}
  MissingReported = {r3}
  Keys = {k1, k2}
  Key <- TwoKeys
  Tokens = {t1, t2}
  MaxVersion = 1
  Sequential = FALSE
  NONE = NONE
PROPERTY
  AuthenticationFailureIs502
