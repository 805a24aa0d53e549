SPECIFICATION Spec
CONSTANTS
  Jobs = {j1}
  Cancellable = {}
  Foreign = {}
  Workers = {w1}
  NoJob = NoJob
  CrashPoints <- NoSteps
  Slow <- NoSteps
  Faults = {"lpush"}
  MaxMishaps = 1
INVARIANT EnqueueFailureMarksFailed
