SPECIFICATION PodSpec
CONSTANTS
  Jobs = {j1}
  Cancellable = {j1}
  Foreign = {}
  Workers = {w1, w2}
  NoJob = NoJob
  CrashPoints <- SafeSteps
  Slow <- NoSteps
  Faults = {"lpush", "lpush_reply", "api"}
  MaxMishaps = 1
INVARIANT NeverStranded
PROPERTIES
  EventuallySettled
  StopFinishesJob
  StopsAsUnit
