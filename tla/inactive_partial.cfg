\* A process killed while it creates the file.
SPECIFICATION Spec
CONSTANTS
  Processes = {p1, p2}
  Customers = {c1, c2}
  MaxRuns = 2
  MaxFailures = 1
  ABSENT = ABSENT
  PARTIAL = PARTIAL
  NONE = NONE
INVARIANT
  FoundFileIsResumable
\* The job really stops at the bounds on runs and failures.
CHECK_DEADLOCK FALSE
