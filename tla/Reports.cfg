SPECIFICATION Spec
CONSTANTS
  Sessions = {s1, s2}
  NoSession = NoSession
  Users = {alice}
  Instances = {i1, i2}
  NoInstance = NoInstance
  NoReading = NoReading
  MaxTraffic = 1
  MaxMeetings = 2
INVARIANTS TypeOK SessionsNeverOvercharge SessionsKeepBaseline MeetingsCost
PROPERTY SoloIsMetering
CHECK_DEADLOCK FALSE
