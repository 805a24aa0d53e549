---------------------------- MODULE MCWorkerPod ----------------------------
(* Sets of steps that the configurations give to CrashPoints and Slow.     *)
EXTENDS WorkerPod

\* The steps a worker may die before without leaving a queued job in
\* jobs:processing: not between the claim and mark_running, and not between
\* reset_to_queued and requeue.
SafeSteps == Steps \ {"fetch", "start", "pubq", "requeue"}

NoSteps == {}
=============================================================================
