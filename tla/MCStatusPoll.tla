---------------------------- MODULE MCStatusPoll ----------------------------
(* Sets of steps that the configurations give to CrashPoints and Slow.     *)
EXTENDS StatusPoll

\* Every step.
AnyStep == Steps

NoSteps == {}
=============================================================================
