\* The task registry with realloc failing or not; names of 0, 4 and 12
\* characters.
CONSTANTS
  MaxTasks = 3
  FirstMax = 1
  NameLens = {0, 4, 12}
  Statuses = {"ready", "suspended", "pended"}
  Delays = {12}
  ReallocOutcomes = {TRUE, FALSE}
  MaxCalls = 2
SPECIFICATION Spec
INVARIANT InfoInBounds
