SPECIFICATION Spec
CONSTANTS
  Jobs = {j1}
  Cancellable = {}
  Foreign = {}
  Workers = {w1, w2}
  NoJob = NoJob
  CrashPoints <- AnyStep
  Slow <- NoSteps
  Faults = {}
  MaxMishaps = 1
PROPERTY NeverFalselyReclaimed
