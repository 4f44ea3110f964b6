SPECIFICATION Spec
CONSTANTS
  Sessions = {s1, s2}
  Frames = {"config", "users", "ping", "other"}
  NoSession = NoSession
  Configs = {c1}
  NoConfig = NoConfig
INVARIANT ReportsOnOwnChannel
CHECK_DEADLOCK FALSE
