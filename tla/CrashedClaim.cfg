SPECIFICATION FairSpec
CONSTANTS
  Jobs = {j1}
  Cancellable = {}
  Foreign = {}
  Workers = {w1}
  NoJob = NoJob
  CrashPoints <- AnyStep
  Slow <- NoSteps
  Faults = {}
  MaxMishaps = 2
PROPERTY CrashedClaimRequeued
