SPECIFICATION FairSpec
CONSTANTS
  Sessions = {s1, s2}
  NoSession = NoSession
  Frames = {"ping", "large"}
  Configs = {c1}
  NoConfig = NoConfig
PROPERTIES KeepsComingBack Stops ReportersEnd
CHECK_DEADLOCK FALSE
