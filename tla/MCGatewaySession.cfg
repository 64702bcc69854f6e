SPECIFICATION FairSpec
CONSTANTS
  Calls = {c1}
  LastDelay = 1
  MaxTasks = 4
  MaxOps = 2
  MaxEvents = 3
  MaxOutside = 4
INVARIANTS NeverWedged BeliefTrue
PROPERTY Recovers
\* A session nobody wants any more is at rest.
CHECK_DEADLOCK FALSE
