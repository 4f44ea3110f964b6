SPECIFICATION FairSpec
CONSTANTS
  Users = {alice}
  Instances = {i1, i2}
  NoInstance = NoInstance
  NoReading = NoReading
  MaxTraffic = 2
  MaxDoubts = 1
INVARIANTS TypeOK NeverOvercharged RepeatedOnlyInDoubt BaselineIsWhatWasReported
PROPERTIES ReportsAreExact EverythingIsReported
CHECK_DEADLOCK FALSE
