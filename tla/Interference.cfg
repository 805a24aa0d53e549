SPECIFICATION Spec
CONSTANTS
  Jobs = {j1}
  Cancellable = {j1}
  Foreign = {f1}
  Workers = {w1, w2}
  NoJob = NoJob
  CrashPoints <- AnyStep
  Slow <- AnyPhase
  Faults = {"lpush", "lpush_reply", "api", "raise"}
  MaxMishaps = 1
INVARIANTS
  TypeOK
  CheckedRowStays
  CompletedHasArtifact
PROPERTIES
  TerminalIsFinal
  RefinesLifecycle
