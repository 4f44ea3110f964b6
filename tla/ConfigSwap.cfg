SPECIFICATION Spec
CONSTANTS
  Configs = {c1, c2, c3}
  Instances = {i1, i2, i3}
  NoConfig = NoConfig
  NoInstance = NoInstance
  NoError = NoError
INVARIANTS TypeOK TruthfulState NoStrayInstance KeepsServing ErrorTellsOutcome
PROPERTY Implements
