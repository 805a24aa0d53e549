---------------------------- MODULE JobLifecycle ----------------------------
(***************************************************************************)
(* What the platform promises about one job, whatever happens between the  *)
(* backend, Redis and the workers: the job moves along                     *)
(*     absent -> queued -> running -> completed | failed | cancelled,      *)
(* may be returned from running to queued when its worker is lost, may be  *)
(* cancelled while it is active, and is completed only once its artifact   *)
(* (the LoRA checkpoint) exists.  A terminal status is never left.         *)
(*                                                                         *)
(* The vocabulary is the schema's (shared/schema/job.go); the steps are    *)
(* the conditional UPDATEs of worker/db.py and backend/db/jobs.go seen     *)
(* from outside.                                                           *)
(***************************************************************************)
EXTENDS JobStatus

CONSTANT Jobs

VARIABLES phase,    \* phase[j]: the job's status, "absent" before it exists
          artifact  \* artifact[j]: the checkpoint objects exist

lifecycleVars == <<phase, artifact>>

Init == /\ phase = [j \in Jobs |-> "absent"]
        /\ artifact = [j \in Jobs |-> FALSE]

Move(j, from, to) == /\ phase[j] \in from
                     /\ phase' = [phase EXCEPT ![j] = to]
                     /\ UNCHANGED artifact

Submit(j)  == Move(j, {"absent"}, "queued")
Start(j)   == Move(j, {"queued"}, "running")
Recover(j) == Move(j, {"running"}, "queued")
Complete(j) == /\ artifact[j]
               /\ Move(j, {"running"}, "completed")
Fail(j)    == Move(j, {"running"}, "failed")
Cancel(j)  == Move(j, {"queued", "running"}, "cancelled")

\* A worker that lost its job may still finish: the artifact appears in any
\* phase the job has reached after it was submitted.
Produce(j) == /\ phase[j] # "absent"
              /\ artifact' = [artifact EXCEPT ![j] = TRUE]
              /\ UNCHANGED phase

Next == \E j \in Jobs :
            \/ Submit(j) \/ Start(j) \/ Recover(j) \/ Complete(j)
            \/ Fail(j) \/ Cancel(j) \/ Produce(j)

Spec == Init /\ [][Next]_lifecycleVars
=============================================================================
