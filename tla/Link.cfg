SPECIFICATION Spec
CONSTANTS
  Sessions = {s1, s2}
  Frames = {"config", "users", "ping", "other", "large"}
  NoSession = NoSession
  Configs = {c1, c2}
  NoConfig = NoConfig
INVARIANTS TypeOK EverythingIsAnswered PanelKnows SessionReports
PROPERTY ImplementsReporters
CHECK_DEADLOCK FALSE
