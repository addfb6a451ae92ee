\* Two runs and three failures: nothing lost, repeated or changed,
\* and every run reported.
SPECIFICATION FairSpec
CONSTANTS
  Processes = {p1, p2}
  Customers = {c1, c2}
  MaxRuns = 2
  MaxFailures = 3
  ABSENT = ABSENT
  PARTIAL = PARTIAL
  NONE = NONE
INVARIANTS
  TypeOK
  NothingLost
  ReportsSettled
  HandedOverPending
PROPERTIES
  OutcomesKept
  RunsReported
\* The job really stops at the bounds on runs and failures.
CHECK_DEADLOCK FALSE
