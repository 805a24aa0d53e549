----------------------------- MODULE JobStatus -----------------------------
(***************************************************************************)
(* The job status vocabulary (shared/schema/job.go) and the transition     *)
(* table the backend validates status changes against (db/jobs.go).        *)
(* Constant level: no state.                                               *)
(***************************************************************************)

\* The five values of the job_status enum.
Statuses == {"queued", "running", "completed", "failed", "cancelled"}

\* _TERMINAL_STATUSES of the worker's processor.
Terminal == {"completed", "failed", "cancelled"}

\* isActiveStatus of the backend's GetJob.
isActiveStatus(s) == s \in {"queued", "running"}

\* Terminal statuses have no row in the table.
validTransitions ==
    [s \in {"queued", "running"} |->
        IF s = "queued" THEN {"running", "cancelled"}
                        ELSE {"completed", "failed", "cancelled"}]

validateTransition(from, to) ==
    /\ from \in DOMAIN validTransitions
    /\ to \in validTransitions[from]
=============================================================================
