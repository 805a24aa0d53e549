SPECIFICATION ApartSpec
CONSTANTS
  Runs = {r1, r2, r3}
  Datasets <- Samples
  Attempts = {a1, a2}
  AdapterFiles = 2
  Overlap = FALSE
  None = None
INVARIANTS
  TypeOK
  ReadyIsComplete
  TrainedOnWhole
  OneTraining
  RejectedEarly
SYMMETRY Symmetry
CHECK_DEADLOCK FALSE
