SPECIFICATION Spec
CONSTANTS
  Jobs = {j1}
  Cancellable = {j1}
  Foreign = {}
  Workers = {w1}
  NoJob = NoJob
  CrashPoints <- NoSteps
  Slow <- NoSteps
  Faults = {}
  MaxMishaps = 0
PROPERTY CancelRespected
