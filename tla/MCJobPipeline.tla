--------------------------- MODULE MCJobPipeline ---------------------------
(* Sets of steps that the configurations give to CrashPoints and Slow.     *)
EXTENDS JobPipeline

\* Every step.
AnyStep == Steps

\* Every phase of an execution, and the enqueue, may outlast its window.
AnyPhase == RunSteps \cup {"enqueue"}

NoSteps == {}
=============================================================================
