SPECIFICATION PollSpec
CONSTANTS
  Jobs = {j1}
  Cancellable = {j1}
  Foreign = {f1}
  Workers = {w1}
  NoJob = NoJob
  CrashPoints <- AnyStep
  Slow <- NoSteps
  Faults = {"lpush", "lpush_reply", "api"}
  MaxMishaps = 3
  TicksPerSecond = 2
  MaxTime = 5
INVARIANTS
  SingleEntry
  ToldEnded
  ExpiresOnlyEnded
PROPERTIES
  NeverFalselyReclaimed
  AnswerWasTrue
