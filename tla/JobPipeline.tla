---------------------------- MODULE JobPipeline ----------------------------
(***************************************************************************)
(* The path of a fine-tune job through the platform: the backend's         *)
(* POST /jobs and PATCH /jobs/{id} handlers, the Postgres row, the Redis   *)
(* lists jobs:queue and jobs:processing, the live status hash, and the     *)
(* worker processes that claim, execute, acknowledge and reconcile.        *)
(*                                                                         *)
(* Every SQL statement and every Redis command (or MULTI pipeline) is one  *)
(* atomic step; between two of them any other actor may run and the        *)
(* process may die.  Time is abstracted to old[j]: whether the row's       *)
(* updated_at has passed the window that applies to its status, the        *)
(* visibility timeout while it is running, the orphan grace while queued.  *)
(***************************************************************************)
EXTENDS JobStatus, Naturals, Sequences

CONSTANTS Jobs,         \* job ids clients may create
          Cancellable,  \* the jobs some client may cancel
          Foreign,      \* queue entries with no row: malformed or unknown ids
          Workers,      \* worker processes, one per GPU
          NoJob,        \* "holds no job"
          CrashPoints,  \* the steps before which a worker may die
          Slow,         \* the phases that may outlast their window
          Faults,       \* the infrastructure faults considered
          MaxMishaps    \* bound on crashes, stops and faults

Ids == Jobs \cup Foreign

\* Steps of JobProcessor._run, in order; ensured, downloaded and trained
\* publish the heartbeat whose SQL half ensure, download and train do.
RunSteps == {"start", "pubrun", "validate", "ensure", "ensured", "download",
             "downloaded", "train", "trained", "upload", "complete", "pubdone"}

\* Steps of the reconciler's two loops and of main.run's loop.
ReconcileSteps == {"stale", "reset", "pubq", "requeue", "orphan", "lookq",
                   "lookp", "push"}
Steps == RunSteps \cup ReconcileSteps
         \cup {"down", "loop", "claim", "tick", "fetch", "fail", "pubfail",
               "ack"}

\* Steps at which the process holds a claimed id.
HoldSteps == RunSteps \cup {"fetch", "fail", "pubfail", "ack"}

\* Steps at which it has some job in hand: one it holds or one it recovers.
BusySteps == HoldSteps \cup {"pubq", "requeue"}

FaultKinds == {"lpush", "lpush_reply", "api", "raise"}

ASSUME ConstantAssumption ==
    /\ Jobs \cap Foreign = {}
    /\ NoJob \notin Ids
    /\ Cancellable \subseteq Jobs
    /\ CrashPoints \subseteq Steps
    /\ Slow \subseteq RunSteps \cup {"enqueue"}
    /\ Faults \subseteq FaultKinds
    /\ MaxMishaps \in Nat

VARIABLES
    \* Postgres, table jobs
    status,      \* status[j], "absent" before the INSERT
    old,         \* old[j]: updated_at is outside the window of its status
    \* Redis
    queue,       \* jobs:queue, pushed on the left and popped on the right
    processing,  \* jobs:processing; only its set of ids is ever observed
    live,        \* live[j]: status field of jobs:status:{j}, "none" if no key
    ttl,         \* ttl[j]: the key carries an expiry
    \* Garage
    uploaded,    \* uploaded[j]: checkpoints/{j}/ holds a whole adapter
    \* Backend handlers
    create,      \* create[j]: POST /jobs of j
    cancel,      \* cancel[j]: PATCH /jobs/{j} in progress
    \* Worker processes
    pc,          \* pc[w]: the next step of w
    job,         \* job[w]: the id w holds, or recovers
    todo,        \* todo[w]: ids the reconciler of w has selected
    seen,        \* seen[w]: ids it found in the lists
    mishaps      \* crashes, stops and faults so far

rows   == <<status, old>>
lists  == <<queue, processing>>
hash   == <<live, ttl>>
api    == <<create, cancel>>
worker == <<pc, job, todo, seen>>
vars   == <<rows, lists, hash, uploaded, api, worker, mishaps>>

Init ==
    /\ status = [j \in Jobs |-> "absent"]
    /\ old = [j \in Jobs |-> FALSE]
    /\ queue \in {<<>>} \cup {<<f>> : f \in Foreign}
    /\ processing = {}
    /\ live = [j \in Jobs |-> "none"]
    /\ ttl = [j \in Jobs |-> FALSE]
    /\ uploaded = [j \in Jobs |-> FALSE]
    /\ create = [j \in Jobs |-> "idle"]
    /\ cancel = [j \in Jobs |-> "idle"]
    /\ pc = [w \in Workers |-> "down"]
    /\ job = [w \in Workers |-> NoJob]
    /\ todo = [w \in Workers |-> {}]
    /\ seen = [w \in Workers |-> {}]
    /\ mishaps = 0

-----------------------------------------------------------------------------
(* Shared vocabulary                                                       *)

Entries == {queue[i] : i \in 1..Len(queue)}

\* Redis LREM key 0 e: every occurrence goes, the order of the rest stays.
LREM(s, e) ==
    LET scan[i \in 0..Len(s)] ==
          IF i = 0 THEN <<>>
          ELSE IF s[i] = e THEN scan[i - 1] ELSE Append(scan[i - 1], s[i])
    IN  scan[Len(s)]

LPUSH(s, e) == <<e>> \o s

\* Mutant: the SELECT without FOR UPDATE.
RowLockedNoForUpdate(j) == FALSE

\* A JobStore.Update transaction holds the row from its SELECT ... FOR UPDATE
\* to its commit or rollback.
RowLocked(j) == create[j] = "commit" \/ cancel[j] = "commit"

SetStatus(j, s) == /\ status' = [status EXCEPT ![j] = s]
                   /\ old' = [old EXCEPT ![j] = FALSE]

\* Mutant: the worker's UPDATE goes through while the row is locked.
UpdateWhereNoWait(j, from, to) ==
    IF status[j] = from THEN SetStatus(j, to) ELSE UNCHANGED rows

\* UPDATE ... WHERE id = j AND status = from: waits for the row lock, then
\* changes the row or matches none.
UpdateWhere(j, from, to) ==
    /\ ~RowLocked(j)
    /\ IF status[j] = from THEN SetStatus(j, to) ELSE UNCHANGED rows

Goto(w, next) == pc' = [pc EXCEPT ![w] = next]

\* Mutant: every publish sets the expiry.
publishExpiring(j, s, terminal) ==
    /\ live' = [live EXCEPT ![j] = s]
    /\ ttl' = [ttl EXCEPT ![j] = TRUE]

\* StatusPublisher.publish: HSET, and EXPIRE in the same MULTI if terminal.
\* HSET on an existing key leaves its expiry in place.
publish(j, s, terminal) ==
    /\ live' = [live EXCEPT ![j] = s]
    /\ ttl' = [ttl EXCEPT ![j] = @ \/ terminal]

Mishap == /\ mishaps < MaxMishaps
          /\ mishaps' = mishaps + 1
-----------------------------------------------------------------------------
(* Backend: POST /jobs                                                     *)

CreateJob(j) ==
    /\ create[j] = "idle"
    /\ SetStatus(j, "queued")
    /\ create' = [create EXCEPT ![j] = "enqueue"]
    /\ UNCHANGED <<lists, hash, uploaded, cancel, worker, mishaps>>

Enqueue(j) ==
    /\ create[j] = "enqueue"
    /\ queue' = LPUSH(queue, j)
    /\ create' = [create EXCEPT ![j] = "created"]
    /\ UNCHANGED <<rows, processing, hash, uploaded, cancel, worker, mishaps>>

\* LPUSH returns an error: the command was not applied, or only its reply
\* was lost.
EnqueueError(j) ==
    /\ create[j] = "enqueue"
    /\ \/ "lpush" \in Faults /\ queue' = queue
       \/ "lpush_reply" \in Faults /\ queue' = LPUSH(queue, j)
    /\ Mishap
    /\ create' = [create EXCEPT ![j] = "markfailed"]
    /\ UNCHANGED <<rows, processing, hash, uploaded, cancel, worker>>

\* The best-effort Update(failed): lock the row and validate; an invalid
\* transition rolls back and its error is dropped.
MarkFailedLock(j) ==
    /\ create[j] = "markfailed"
    /\ ~RowLocked(j)
    /\ create' = [create EXCEPT ![j] =
                    IF validateTransition(status[j], "failed")
                    THEN "commit" ELSE "errored"]
    /\ UNCHANGED <<rows, lists, hash, uploaded, cancel, worker, mishaps>>

MarkFailedCommit(j) ==
    /\ create[j] = "commit"
    /\ SetStatus(j, "failed")
    /\ create' = [create EXCEPT ![j] = "errored"]
    /\ UNCHANGED <<lists, hash, uploaded, cancel, worker, mishaps>>

\* The API process dies, or the best-effort Update fails: what is open is
\* rolled back, what follows is not done.
CreateDrop(j) ==
    /\ "api" \in Faults
    /\ create[j] \in {"enqueue", "markfailed", "commit"}
    /\ Mishap
    /\ create' = [create EXCEPT ![j] = "dropped"]
    /\ UNCHANGED <<rows, lists, hash, uploaded, cancel, worker>>
-----------------------------------------------------------------------------
(* Backend: PATCH /jobs/{id}.  A cancel of an unknown or terminal job      *)
(* answers 404 or 409 and changes nothing, so it is not a step.            *)

CancelLock(j) ==
    /\ j \in Cancellable
    /\ cancel[j] = "idle"
    /\ ~RowLocked(j)
    /\ validateTransition(status[j], "cancelled")
    /\ cancel' = [cancel EXCEPT ![j] = "commit"]
    /\ UNCHANGED <<rows, lists, hash, uploaded, create, worker, mishaps>>

CancelCommit(j) ==
    /\ cancel[j] = "commit"
    /\ SetStatus(j, "cancelled")
    /\ cancel' = [cancel EXCEPT ![j] = "dequeue"]
    /\ UNCHANGED <<lists, hash, uploaded, create, worker, mishaps>>

CancelDequeue(j) ==
    /\ cancel[j] = "dequeue"
    /\ queue' = LREM(queue, j)
    /\ cancel' = [cancel EXCEPT ![j] = "idle"]
    /\ UNCHANGED <<rows, processing, hash, uploaded, create, worker, mishaps>>

\* The transaction fails and rolls back, the Dequeue fails (only logged), or
\* the API process dies.
CancelDrop(j) ==
    /\ "api" \in Faults
    /\ cancel[j] # "idle"
    /\ Mishap
    /\ cancel' = [cancel EXCEPT ![j] = "idle"]
    /\ UNCHANGED <<rows, lists, hash, uploaded, create, worker>>
-----------------------------------------------------------------------------
(* Worker: main.run                                                        *)

Boot(w) ==
    /\ pc[w] = "down"
    /\ Goto(w, "stale")
    /\ UNCHANGED <<rows, lists, hash, uploaded, api, job, todo, seen, mishaps>>

\* while not stop.is_set(): the only place where the event is looked at.
LoopTest(w) ==
    /\ pc[w] = "loop"
    /\ Goto(w, "claim")
    /\ UNCHANGED <<rows, lists, hash, uploaded, api, job, todo, seen, mishaps>>

LoopExit(w) ==
    /\ pc[w] = "loop"
    /\ Goto(w, "down")
    /\ UNCHANGED <<rows, lists, hash, uploaded, api, job, todo, seen>>

\* A signal has set the event.
Stop(w) == LoopExit(w) /\ Mishap

\* BRPOPLPUSH jobs:queue jobs:processing
Claim(w) ==
    /\ pc[w] = "claim"
    /\ queue # <<>>
    /\ job' = [job EXCEPT ![w] = queue[Len(queue)]]
    /\ queue' = SubSeq(queue, 1, Len(queue) - 1)
    /\ processing' = processing \cup {queue[Len(queue)]}
    /\ Goto(w, "fetch")
    /\ UNCHANGED <<rows, hash, uploaded, api, todo, seen, mishaps>>

ClaimTimeout(w) ==
    /\ pc[w] = "claim"
    /\ queue = <<>>
    /\ Goto(w, "tick")
    /\ UNCHANGED <<rows, lists, hash, uploaded, api, job, todo, seen, mishaps>>

\* reconcile_interval_seconds has, or has not, elapsed.
TickReconcile(w) ==
    /\ pc[w] = "tick"
    /\ Goto(w, "stale")
    /\ UNCHANGED <<rows, lists, hash, uploaded, api, job, todo, seen, mishaps>>

TickLoop(w) ==
    /\ pc[w] = "tick"
    /\ Goto(w, "loop")
    /\ UNCHANGED <<rows, lists, hash, uploaded, api, job, todo, seen, mishaps>>
-----------------------------------------------------------------------------
(* Worker: JobProcessor.process                                            *)

\* Mutant: process() without its "job is None" check.
FetchNoneUnchecked(w) ==
    /\ pc[w] = "fetch"
    /\ Goto(w, IF job[w] \in Jobs => isActiveStatus(status[job[w]])
               THEN "start" ELSE "ack")
    /\ UNCHANGED <<rows, lists, hash, uploaded, api, job, todo, seen, mishaps>>

\* A malformed id, an id with no row and a terminal job are only acked.
Fetch(w) ==
    /\ pc[w] = "fetch"
    /\ Goto(w, IF job[w] \in Jobs /\ isActiveStatus(status[job[w]])
               THEN "start" ELSE "ack")
    /\ UNCHANGED <<rows, lists, hash, uploaded, api, job, todo, seen, mishaps>>

\* The row count of mark_running is not looked at.
MarkRunning(w) ==
    /\ pc[w] = "start"
    /\ UpdateWhere(job[w], "queued", "running")
    /\ Goto(w, "pubrun")
    /\ UNCHANGED <<lists, hash, uploaded, api, job, todo, seen, mishaps>>

PublishRunning(w) ==
    /\ pc[w] = "pubrun"
    /\ publish(job[w], "running", FALSE)
    /\ Goto(w, "validate")
    /\ UNCHANGED <<rows, lists, uploaded, api, job, todo, seen, mishaps>>

\* Dataset format, allow-list and size checks pass; a rejection is a Raise.
Validate(w) ==
    /\ pc[w] = "validate"
    /\ Goto(w, "ensure")
    /\ UNCHANGED <<rows, lists, hash, uploaded, api, job, todo, seen, mishaps>>

\* A phase of the executor ends, or a training step does, and calls
\* heartbeat(): first the conditional UPDATE ...
Heartbeat(w) ==
    /\ pc[w] \in {"ensure", "download", "train"}
    /\ UpdateWhere(job[w], "running", "running")
    /\ Goto(w, CASE pc[w] = "ensure" -> "ensured"
                 [] pc[w] = "download" -> "downloaded"
                 [] pc[w] = "train" -> "trained")
    /\ UNCHANGED <<lists, hash, uploaded, api, job, todo, seen, mishaps>>

\* Mutant: the executor returns without waiting for the upload.
AfterHeartbeatNoUpload(step) ==
    CASE step = "ensured" -> {"download"}
      [] step = "downloaded" -> {"train"}
      [] step = "trained" -> {"train", "upload", "complete"}

\* ... then the status hash.
AfterHeartbeat(step) ==
    CASE step = "ensured" -> {"download"}
      [] step = "downloaded" -> {"train"}
      [] step = "trained" -> {"train", "upload"}

PublishHeartbeat(w) ==
    /\ pc[w] \in {"ensured", "downloaded", "trained"}
    /\ publish(job[w], "running", FALSE)
    /\ \E next \in AfterHeartbeat(pc[w]) : Goto(w, next)
    /\ UNCHANGED <<rows, lists, uploaded, api, job, todo, seen, mishaps>>

\* Mutant: completed is published before it is written.
UploadThenPublish(w) ==
    /\ pc[w] = "upload"
    /\ uploaded' = [uploaded EXCEPT ![job[w]] = TRUE]
    /\ Goto(w, "pubdone")
    /\ UNCHANGED <<rows, lists, hash, api, job, todo, seen, mishaps>>

Upload(w) ==
    /\ pc[w] = "upload"
    /\ uploaded' = [uploaded EXCEPT ![job[w]] = TRUE]
    /\ Goto(w, "complete")
    /\ UNCHANGED <<rows, lists, hash, api, job, todo, seen, mishaps>>

\* Sets checkpoint_path in the same UPDATE.
MarkCompleted(w) ==
    /\ pc[w] = "complete"
    /\ UpdateWhere(job[w], "running", "completed")
    /\ Goto(w, "pubdone")
    /\ UNCHANGED <<lists, hash, uploaded, api, job, todo, seen, mishaps>>

\* Losing the reply of this last publish also sends process() to _fail.
PublishCompleted(w) ==
    /\ pc[w] = "pubdone"
    /\ publish(job[w], "completed", TRUE)
    /\ \/ Goto(w, "ack")
       \/ "raise" \in Faults /\ Goto(w, "fail")
    /\ UNCHANGED <<rows, lists, uploaded, api, job, todo, seen, mishaps>>

\* Any exception in _run; a step that took effect and lost its reply is the
\* next step's Raise.  Rejections and training failures come after
\* mark_running; mark_running itself fails only as an infrastructure fault.
Raise(w) ==
    /\ pc[w] \in RunSteps
    /\ IF pc[w] = "start" THEN "raise" \in Faults /\ Mishap
                          ELSE UNCHANGED mishaps
    /\ Goto(w, "fail")
    /\ UNCHANGED <<rows, lists, hash, uploaded, api, job, todo, seen>>

\* Mutant: mark_failed without AND status = 'running'.
MarkFailedAnyStatus(w) ==
    /\ pc[w] = "fail"
    /\ UpdateWhere(job[w], status[job[w]], "failed")
    /\ Goto(w, "pubfail")
    /\ UNCHANGED <<lists, hash, uploaded, api, job, todo, seen, mishaps>>

MarkFailed(w) ==
    /\ pc[w] = "fail"
    /\ UpdateWhere(job[w], "running", "failed")
    /\ Goto(w, "pubfail")
    /\ UNCHANGED <<lists, hash, uploaded, api, job, todo, seen, mishaps>>

PublishFailed(w) ==
    /\ pc[w] = "pubfail"
    /\ publish(job[w], "failed", TRUE)
    /\ Goto(w, "ack")
    /\ UNCHANGED <<rows, lists, uploaded, api, job, todo, seen, mishaps>>

Ack(w) ==
    /\ pc[w] = "ack"
    /\ processing' = processing \ {job[w]}
    /\ job' = [job EXCEPT ![w] = NoJob]
    /\ Goto(w, "tick")
    /\ UNCHANGED <<rows, queue, hash, uploaded, api, todo, seen, mishaps>>
-----------------------------------------------------------------------------
(* Worker: Reconciler.reconcile                                            *)

\* Mutant: the startup reconcile takes every running row for abandoned.
FindStaleAnyAge(w) ==
    LET stale == {j \in Jobs : status[j] = "running"} IN
    /\ pc[w] = "stale"
    /\ todo' = [todo EXCEPT ![w] = stale]
    /\ Goto(w, IF stale = {} THEN "orphan" ELSE "reset")
    /\ UNCHANGED <<rows, lists, hash, uploaded, api, job, seen, mishaps>>

\* find_stale_running
FindStale(w) ==
    LET stale == {j \in Jobs : status[j] = "running" /\ old[j]} IN
    /\ pc[w] = "stale"
    /\ todo' = [todo EXCEPT ![w] = stale]
    /\ Goto(w, IF stale = {} THEN "orphan" ELSE "reset")
    /\ UNCHANGED <<rows, lists, hash, uploaded, api, job, seen, mishaps>>

\* reset_to_queued: the row is tested for running again, not for its age.
ResetToQueued(w) ==
    /\ pc[w] = "reset"
    /\ \E j \in todo[w] : /\ UpdateWhere(j, "running", "queued")
                          /\ job' = [job EXCEPT ![w] = j]
    /\ Goto(w, "pubq")
    /\ UNCHANGED <<lists, hash, uploaded, api, todo, seen, mishaps>>

PublishQueued(w) ==
    /\ pc[w] = "pubq"
    /\ publish(job[w], "queued", FALSE)
    /\ Goto(w, "requeue")
    /\ UNCHANGED <<rows, lists, uploaded, api, job, todo, seen, mishaps>>

\* Mutant: an id already in flight is not pushed again.
RequeueSkipsInFlight(j) ==
    IF j \in processing THEN UNCHANGED lists
    ELSE queue' = LPUSH(queue, j) /\ UNCHANGED processing

\* Mutant: the LPUSH without the LREM.
RequeueNoLrem(j) == /\ queue' = LPUSH(queue, j)
                    /\ UNCHANGED processing

\* RedisQueue.requeue: LREM jobs:processing and LPUSH jobs:queue in one MULTI.
Requeue(j) == /\ processing' = processing \ {j}
              /\ queue' = LPUSH(queue, j)

RequeueStale(w) ==
    /\ pc[w] = "requeue"
    /\ Requeue(job[w])
    /\ job' = [job EXCEPT ![w] = NoJob]
    /\ todo' = [todo EXCEPT ![w] = @ \ {job[w]}]
    /\ Goto(w, IF todo[w] = {job[w]} THEN "orphan" ELSE "reset")
    /\ UNCHANGED <<rows, hash, uploaded, api, seen, mishaps>>

\* Mutant: the orphan query selects running rows.
FindOrphansRunning(w) ==
    LET candidates == {j \in Jobs : status[j] = "running" /\ old[j]} IN
    /\ pc[w] = "orphan"
    /\ todo' = [todo EXCEPT ![w] = candidates]
    /\ Goto(w, IF candidates = {} THEN "loop" ELSE "lookq")
    /\ UNCHANGED <<rows, lists, hash, uploaded, api, job, seen, mishaps>>

\* find_orphan_queued
FindOrphans(w) ==
    LET candidates == {j \in Jobs : status[j] = "queued" /\ old[j]} IN
    /\ pc[w] = "orphan"
    /\ todo' = [todo EXCEPT ![w] = candidates]
    /\ Goto(w, IF candidates = {} THEN "loop" ELSE "lookq")
    /\ UNCHANGED <<rows, lists, hash, uploaded, api, job, seen, mishaps>>

\* Mutant: live ids without queued_ids().
QueuedIdsIgnored(w) ==
    /\ pc[w] = "lookq"
    /\ Goto(w, "lookp")
    /\ UNCHANGED <<rows, lists, hash, uploaded, api, job, todo, seen, mishaps>>

\* queued_ids and in_flight_ids: two commands.
QueuedIds(w) ==
    /\ pc[w] = "lookq"
    /\ seen' = [seen EXCEPT ![w] = Entries]
    /\ Goto(w, "lookp")
    /\ UNCHANGED <<rows, lists, hash, uploaded, api, job, todo, mishaps>>

\* Mutant: live ids without in_flight_ids().
InFlightIdsIgnored(w) ==
    LET lost == todo[w] \ seen[w] IN
    /\ pc[w] = "lookp"
    /\ seen' = [seen EXCEPT ![w] = {}]
    /\ todo' = [todo EXCEPT ![w] = lost]
    /\ Goto(w, IF lost = {} THEN "loop" ELSE "push")
    /\ UNCHANGED <<rows, lists, hash, uploaded, api, job, mishaps>>

InFlightIds(w) ==
    LET lost == todo[w] \ (seen[w] \cup processing) IN
    /\ pc[w] = "lookp"
    /\ seen' = [seen EXCEPT ![w] = {}]
    /\ todo' = [todo EXCEPT ![w] = lost]
    /\ Goto(w, IF lost = {} THEN "loop" ELSE "push")
    /\ UNCHANGED <<rows, lists, hash, uploaded, api, job, mishaps>>

RequeueOrphan(w) ==
    /\ pc[w] = "push"
    /\ \E j \in todo[w] :
          /\ Requeue(j)
          /\ todo' = [todo EXCEPT ![w] = @ \ {j}]
          /\ Goto(w, IF todo[w] = {j} THEN "loop" ELSE "push")
    /\ UNCHANGED <<rows, hash, uploaded, api, job, seen, mishaps>>
-----------------------------------------------------------------------------
(* Environment                                                             *)

\* The process dies, or an exception leaves run(): get_job, ack, _fail and
\* the reconciler are not guarded.
Crash(w) ==
    /\ pc[w] \in CrashPoints \ {"down"}
    /\ Mishap
    /\ Goto(w, "down")
    /\ job' = [job EXCEPT ![w] = NoJob]
    /\ todo' = [todo EXCEPT ![w] = {}]
    /\ seen' = [seen EXCEPT ![w] = {}]
    /\ UNCHANGED <<rows, lists, hash, uploaded, api>>

\* Time passes the row's window.  Only the phases in Slow outlast it: an
\* enqueue the orphan grace, a phase of an execution the visibility timeout.
Age(j) ==
    /\ isActiveStatus(status[j])
    /\ ~old[j]
    /\ \/ create[j] \notin {"enqueue", "markfailed", "commit"}
       \/ "enqueue" \in Slow
    /\ status[j] = "running" =>
          \A w \in Workers : job[w] = j /\ pc[w] \in RunSteps \cup {"fail"}
                                => pc[w] \in Slow
    /\ old' = [old EXCEPT ![j] = TRUE]
    /\ UNCHANGED <<status, lists, hash, uploaded, api, worker, mishaps>>

\* Redis drops a status hash whose 24 hours are over.
Expire(j) ==
    /\ ttl[j]
    /\ live' = [live EXCEPT ![j] = "none"]
    /\ ttl' = [ttl EXCEPT ![j] = FALSE]
    /\ UNCHANGED <<rows, lists, uploaded, api, worker, mishaps>>
-----------------------------------------------------------------------------
Handler(j) == \/ Enqueue(j) \/ MarkFailedLock(j) \/ MarkFailedCommit(j)
              \/ CancelCommit(j) \/ CancelDequeue(j)

Work(w) == \/ LoopTest(w) \/ Claim(w) \/ ClaimTimeout(w) \/ TickReconcile(w)
           \/ TickLoop(w) \/ Fetch(w) \/ MarkRunning(w) \/ PublishRunning(w)
           \/ Validate(w) \/ Heartbeat(w) \/ PublishHeartbeat(w) \/ Upload(w)
           \/ MarkCompleted(w) \/ PublishCompleted(w)
           \/ MarkFailed(w) \/ PublishFailed(w) \/ Ack(w)

Reconcile(w) == \/ FindStale(w) \/ ResetToQueued(w) \/ PublishQueued(w)
                \/ RequeueStale(w) \/ FindOrphans(w) \/ QueuedIds(w)
                \/ InFlightIds(w) \/ RequeueOrphan(w)

Next ==
    \/ \E j \in Jobs : \/ CreateJob(j) \/ CancelLock(j) \/ Handler(j)
                       \/ EnqueueError(j) \/ CreateDrop(j) \/ CancelDrop(j)
                       \/ Age(j) \/ Expire(j)
    \/ \E w \in Workers : \/ Boot(w) \/ Work(w) \/ Reconcile(w)
                          \/ Stop(w) \/ Raise(w) \/ Crash(w)

Spec == Init /\ [][Next]_vars

\* Handlers and workers that run keep running, a dead worker is restarted
\* (k8s), rows grow old, training ends, and the reconcile interval elapses.
Fairness ==
    /\ \A j \in Jobs : WF_vars(Handler(j)) /\ WF_vars(Age(j))
    /\ \A w \in Workers :
          /\ WF_vars(Boot(w)) /\ WF_vars(Work(w)) /\ WF_vars(Reconcile(w))
          /\ SF_vars(TickReconcile(w))
          /\ SF_vars(PublishHeartbeat(w) /\ pc'[w] = "upload")

FairSpec == Spec /\ Fairness
-----------------------------------------------------------------------------
(* Properties                                                              *)

StoresOK ==
    /\ status \in [Jobs -> Statuses \cup {"absent"}]
    /\ old \in [Jobs -> BOOLEAN]
    /\ queue \in Seq(Ids)
    /\ processing \subseteq Ids
    /\ live \in [Jobs -> Statuses \cup {"none"}]
    /\ ttl \in [Jobs -> BOOLEAN]
    /\ uploaded \in [Jobs -> BOOLEAN]

HandlersOK ==
    /\ create \in [Jobs -> {"idle", "enqueue", "markfailed", "commit",
                            "created", "errored", "dropped"}]
    /\ cancel \in [Jobs -> {"idle", "commit", "dequeue"}]
    /\ mishaps \in 0..MaxMishaps

WorkersOK ==
    /\ pc \in [Workers -> Steps]
    /\ job \in [Workers -> Ids \cup {NoJob}]
    /\ todo \in [Workers -> SUBSET Jobs]
    /\ seen \in [Workers -> SUBSET Ids]
    /\ \A w \in Workers :
          /\ job[w] # NoJob <=> pc[w] \in BusySteps
          /\ job[w] \in Foreign => pc[w] \in {"fetch", "ack"}

\* The type of the state.  A worker has a job in hand exactly at the steps
\* that handle one, and past the checks of process() that job has a row.
TypeOK == StoresOK /\ HandlersOK /\ WorkersOK

\* A job that has ended stays as it ended: no UPDATE of a worker, a zombie,
\* the reconciler or the backend's enqueue-failure path moves it out of
\* completed, failed or cancelled.  Rests on the WHERE clauses of db.py and
\* on the row lock JobStore.Update holds from its check to its write.
TerminalIsFinal ==
    [][\A j \in Jobs : status[j] \in Terminal => status'[j] = status[j]]_vars

\* Between the check and the write of JobStore.Update the row keeps a status
\* that allows the write, and no second Update is past its check: "the
\* read-then-write is atomic and concurrent updates cannot bypass the
\* transition check" (db/jobs.go).
CheckedRowStays ==
    \A j \in Jobs :
        /\ create[j] = "commit" => /\ validateTransition(status[j], "failed")
                                   /\ cancel[j] # "commit"
        /\ cancel[j] = "commit" => validateTransition(status[j], "cancelled")

\* Nobody is told a job is completed, by the row or by the live hash, before
\* its adapter is in Garage; not by a worker that lost the job either.
CompletedHasArtifact ==
    \A j \in Jobs : "completed" \in {status[j], live[j]} => uploaded[j]

\* The pipeline implements the life cycle the platform promises.
Lifecycle == INSTANCE JobLifecycle WITH phase <- status, artifact <- uploaded

RefinesLifecycle == Lifecycle!Spec

\* Some worker will still ack or requeue j.
Kept(j) == \E w \in Workers : job[w] = j /\ pc[w] \in BusySteps

\* A queued job listed in jobs:processing, which hides it from the orphan
\* check, is in jobs:queue as well or is in some worker's hands.
NeverStranded ==
    \A j \in Jobs : status[j] = "queued" /\ j \in processing
                      => j \in Entries \/ Kept(j)

Executes(w, j) == job[w] = j /\ pc[w] \in RunSteps

\* Two workers never execute the same job, and an executing worker's job is
\* in jobs:processing, so no reconciler takes it for an orphan.
OneExecutor ==
    \A w \in Workers : \A j \in Jobs : Executes(w, j) =>
        /\ j \in processing
        /\ \A v \in Workers : Executes(v, j) => v = w

\* An active job is in jobs:queue at most once, and not while in flight:
\* requeue "re-adds the job exactly once" (redis_queue.py).
SingleEntry ==
    \A j \in Jobs : isActiveStatus(status[j]) =>
        /\ \A i, k \in 1..Len(queue) : queue[i] = j /\ queue[k] = j => i = k
        /\ ~(j \in Entries /\ j \in processing)

\* A running job is taken from its worker only while its heartbeat is older
\* than the visibility timeout, so that "long fine-tunes are never falsely
\* reclaimed" (config.py).
NeverFalselyReclaimed ==
    [][\A j \in Jobs : status[j] = "running" /\ status'[j] = "queued"
                          => old[j]]_vars

\* Every job that was accepted ends, whatever the crashes, lost enqueues and
\* failed cancels in between.
EventuallySettled ==
    \A j \in Jobs : status[j] = "queued" ~> status[j] \in Terminal
-----------------------------------------------------------------------------
(* What the repository's comments say, and the code does not do.           *)

\* CreateJob: "If enqueue fails, marks the job failed."
EnqueueFailureMarksFailed ==
    \A j \in Jobs : create[j] = "errored" => status[j] = "failed"

\* Dequeue: "the DB cancel is still authoritative and the worker must respect
\* it before executing".
CancelRespected ==
    [][\A w \in Workers : pc[w] = "start" /\ pc'[w] = "pubrun"
                             => status[job[w]] # "cancelled"]_vars

\* A queued job whose only trace in Redis is jobs:processing.
InFlightQueued(j) ==
    status[j] = "queued" /\ j \in processing /\ j \notin Entries

\* redis_queue.py: "A crash leaves the id in jobs:processing; the reconciler
\* (which trusts Postgres) re-enqueues it."
CrashedClaimRequeued ==
    \A j \in Jobs : InFlightQueued(j) ~> ~InFlightQueued(j)
=============================================================================
