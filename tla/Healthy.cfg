SPECIFICATION Spec
CONSTANTS
  Jobs = {j1, j2}
  Cancellable = {j1}
  Foreign = {f1}
  Workers = {w1, w2}
  NoJob = NoJob
  CrashPoints <- NoSteps
  Slow <- NoSteps
  Faults = {"lpush_reply"}
  MaxMishaps = 1
INVARIANTS
  OneExecutor
  SingleEntry
