SPECIFICATION Spec
CONSTANTS
  Users = {alice}
  Instances = {i1, i2}
  NoInstance = NoInstance
  NoReading = NoReading
  MaxTraffic = 2
  MaxDoubts = 1
INVARIANT NothingReportedTwice
CHECK_DEADLOCK FALSE
