SPECIFICATION Spec
CONSTANTS
  MaxRuns = 3
  MaxCommit = 3
  Keep = 2
  Broken = {2}
  Breaking = {3}
  None = None
INVARIANTS
  CurrentIsDeployable
  ReportsAreTrue
PROPERTIES
  ReleasedServes
  NeverGoesBack
CHECK_DEADLOCK FALSE
