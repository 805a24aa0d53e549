SPECIFICATION ExecSpec
CONSTANTS
  Runs = {r1, r2, r3}
  Datasets <- Samples
  Attempts = {a1}
  AdapterFiles = 1
  Overlap = FALSE
  None = None
INVARIANT PrintedIsRegistered
CHECK_DEADLOCK FALSE
