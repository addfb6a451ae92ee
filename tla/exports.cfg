\* Exports of one entity in sequence, and concurrent exports that share the
\* cached token.
SPECIFICATION ScenarioSpec
CONSTANTS
  r1 = r1
  r2 = r2
  r3 = r3
  r4 = r4
  r5 = r5
  e1 = e1
  e2 = e2
  e3 = e3
  k1 = k1
  k2 = k2
  t1 = t1
  t2 = t2
  t3 = t3
  Requests = {r1, r2, r3, r4, r5}
  Entities = {e1, e2, e3}
  Target <- ScenarioTarget
  Deletions = {r3, r4}
  MissingReported = {r2, r3, r5}
  Keys = {k1, k2}
  Key <- TwoKeys
  Tokens = {t1, t2, t3}
  MaxVersion = 2
  Sequential = TRUE
  NONE = NONE
INVARIANTS
  TypeOK
  AppliedAtMostOnce
  AnswersTrue
  LastExportWins
  AuthenticatesOnce
PROPERTIES
  ValidTokenKept
  EveryCallEnds
