------------------------- MODULE StatusPollProofs -------------------------
(***************************************************************************)
(* Proofs about StatusPoll, and about the pipeline served by one worker:   *)
(* what a poll answers, when the status hash expires, when a job is taken  *)
(* back, and how often it is queued.                                       *)
(***************************************************************************)
EXTENDS StatusPoll, QueueProofs

pollAll == <<vars, clockVars, pollVars>>

\* Clocks and polls leave the pipeline alone.
LEMMA PollStep == [PollNext]_pollAll => [Next]_vars
BY DEF pollAll, PollNext, Timed, Tick, GetJob, GetByID, Answer

\* So the pipeline that is polled is the pipeline, and what is proved of that
\* holds of it.
THEOREM PollIsPipeline == PollSpec => Spec
<1>1. PollInit => Init
  BY DEF PollInit
<1> QED BY <1>1, PollStep, PTL DEF PollSpec, Spec, pollAll

\* There is one worker: a zombie has nobody to lose its job to.
OneWorker == \A v, w \in Workers : v = w

-----------------------------------------------------------------------------
(***************************************************************************)
(* A job is reclaimed only when it is old.  The reset does not test the    *)
(* age again; with one worker nobody has renewed it since it was selected. *)
(***************************************************************************)

StaleIsOld ==
    \A w \in Workers : pc[w] \in RecoverSteps =>
        \A j \in todo[w] : status[j] = "running" => old[j]

\* Only its own worker renews a row, and only selects old ones.
LEMMA StaleNext ==
  ASSUME OneWorker, Inv, StaleIsOld, [Next]_vars PROVE StaleIsOld'
<1>1. CASE UNCHANGED vars
  BY <1>1 DEF StaleIsOld, vars, rows, worker
<1>2. ASSUME NEW j \in Jobs,
             \/ CreateJob(j) \/ CancelLock(j) \/ Handler(j) \/ EnqueueError(j)
             \/ CreateDrop(j) \/ CancelDrop(j) \/ Age(j) \/ Expire(j)
      PROVE  StaleIsOld'
  <2>1. UNCHANGED worker
    BY <1>2, HandlerEffects
  <2>2. \A i \in Jobs : status'[i] = "running" =>
           status[i] = "running" /\ (old[i] => old'[i])
    BY <1>2 DEF CreateJob, CancelLock, Handler, EnqueueError, CreateDrop,
       CancelDrop, Age, Expire, Enqueue, MarkFailedLock, MarkFailedCommit,
       CancelCommit, CancelDequeue, rows, SetStatus, Inv, TypeOK, StoresOK
  <2>3. \A w \in Workers : todo[w] \subseteq Jobs
    BY DEF Inv, TypeOK, WorkersOK
  <2> QED BY <2>1, <2>2, <2>3 DEF StaleIsOld, worker
<1>3. ASSUME NEW w \in Workers,
             \/ Boot(w) \/ Work(w) \/ Reconcile(w) \/ Stop(w) \/ Raise(w)
             \/ Crash(w)
      PROVE  StaleIsOld'
  <2>1. /\ pc \in [Workers -> Steps] /\ job \in [Workers -> Ids \cup {NoJob}]
        /\ todo \in [Workers -> SUBSET Jobs]
        /\ status \in [Jobs -> Statuses \cup {"absent"}]
        /\ old \in [Jobs -> BOOLEAN]
    BY DEF Inv, TypeOK, WorkersOK, StoresOK
  <2>2. SUFFICES ASSUME pc'[w] \in RecoverSteps
                 PROVE  \A j \in todo'[w] : status'[j] = "running" => old'[j]
    BY DEF OneWorker, StaleIsOld
  <2>3. CASE FindStale(w)
    BY <2>1, <2>3 DEF FindStale, rows
  <2>4. CASE ResetToQueued(w)
    <3>1. PICK j \in todo[w] : UpdateWhere(j, "running", "queued")
      BY <2>4 DEF ResetToQueued
    <3>2. todo' = todo /\ pc[w] = "reset"
      BY <2>4 DEF ResetToQueued
    <3>3. \A i \in Jobs : status'[i] = "running" =>
             status[i] = "running" /\ old'[i] = old[i]
      BY <2>1, <3>1 DEF UpdateWhere, SetStatus, rows
    <3> QED BY <2>1, <3>2, <3>3 DEF StaleIsOld, RecoverSteps
  <2>5. CASE PublishQueued(w) \/ RequeueStale(w)
    <3>1. /\ UNCHANGED <<status, old>> /\ todo'[w] \subseteq todo[w]
          /\ pc[w] \in {"pubq", "requeue"}
      BY <2>1, <2>5 DEF PublishQueued, RequeueStale, rows
    <3> QED BY <3>1 DEF StaleIsOld, RecoverSteps
  <2>6. CASE \/ Boot(w) \/ Stop(w) \/ Crash(w) \/ Raise(w) \/ FindOrphans(w)
             \/ QueuedIds(w) \/ InFlightIds(w) \/ RequeueOrphan(w)
    BY <2>1, <2>2, <2>6 DEF Boot, Stop, LoopExit, Crash, Raise, FindOrphans,
       QueuedIds, InFlightIds, RequeueOrphan, Goto, RecoverSteps
  <2>7. CASE \/ LoopTest(w) \/ Claim(w) \/ ClaimTimeout(w)
             \/ TickReconcile(w) \/ TickLoop(w) \/ Fetch(w) \/ MarkRunning(w)
             \/ PublishRunning(w) \/ Validate(w)
    BY <2>1, <2>2, <2>7 DEF LoopTest, Claim, ClaimTimeout, TickReconcile,
       TickLoop, Fetch, MarkRunning, PublishRunning, Validate, Goto,
       RecoverSteps
  <2>8. CASE \/ Upload(w) \/ MarkCompleted(w) \/ PublishCompleted(w)
             \/ MarkFailed(w) \/ PublishFailed(w) \/ Ack(w)
    BY <2>1, <2>2, <2>8 DEF Upload, MarkCompleted, PublishCompleted,
       MarkFailed, PublishFailed, Ack, Goto, RecoverSteps
  <2>9. CASE Heartbeat(w) \/ PublishHeartbeat(w)
    <3>1. /\ pc[w] \in {"ensure", "download", "train", "ensured",
                        "downloaded", "trained"}
          /\ pc'[w] \in RunSteps
      BY <2>1, <2>9 DEF Heartbeat, PublishHeartbeat, AfterHeartbeat, Goto,
         RunSteps
    <3> QED BY <2>2, <3>1 DEF RecoverSteps, RunSteps
  <2> QED BY <1>3, <2>3, <2>4, <2>5, <2>6, <2>7, <2>8, <2>9
          DEF Work, Reconcile
<1> QED BY <1>1, <1>2, <1>3 DEF Next

\* With one worker "long fine-tunes are never falsely reclaimed"
\* (config.py), and no bound on the length of a phase is needed for it: the
\* worker that trains does not reconcile meanwhile.
THEOREM ReclaimsOnlyOld == OneWorker => (Spec => NeverFalselyReclaimed)
<1> SUFFICES ASSUME OneWorker PROVE Spec => NeverFalselyReclaimed
  OBVIOUS
<1>1. Init => StaleIsOld
  BY DEF Init, StaleIsOld, RecoverSteps
<1>2. Inv /\ StaleIsOld /\ [Next]_vars => StaleIsOld'
  BY StaleNext
<1>3. Spec => []StaleIsOld
  BY <1>1, <1>2, Invariance, PTL DEF Spec
<1>4. Inv /\ StaleIsOld /\ [Next]_vars
        => [\A j \in Jobs : status[j] = "running" /\ status'[j] = "queued"
                               => old[j]]_vars
  <2> SUFFICES ASSUME Inv, StaleIsOld, Next, NEW j \in Jobs,
                      status[j] = "running", status'[j] = "queued"
               PROVE  old[j]
    OBVIOUS
  <2>1. ASSUME NEW i \in Jobs,
               \/ CreateJob(i) \/ CancelLock(i) \/ Handler(i)
               \/ EnqueueError(i) \/ CreateDrop(i) \/ CancelDrop(i)
               \/ Age(i) \/ Expire(i)
        PROVE  FALSE
    <3>1. \/ status'[j] = status[j]
          \/ status[j] = "absent"
          \/ status'[j] \in {"failed", "cancelled"}
      BY <2>1, HandlerEffects
    <3> QED BY <3>1
  <2>2. ASSUME NEW w \in Workers,
               \/ Boot(w) \/ Work(w) \/ Reconcile(w) \/ Stop(w) \/ Raise(w)
               \/ Crash(w)
        PROVE  old[j]
    <3>1. status \in [Jobs -> Statuses \cup {"absent"}]
      BY DEF Inv, TypeOK, StoresOK
    <3>2. CASE ResetToQueued(w)
      <4>1. PICK i \in todo[w] : UpdateWhere(i, "running", "queued")
        BY <3>2 DEF ResetToQueued
      <4>2. i = j /\ pc[w] = "reset"
        BY <3>1, <3>2, <4>1
           DEF UpdateWhere, SetStatus, rows, ResetToQueued
      <4> QED BY <4>2 DEF StaleIsOld, RecoverSteps
    <3>3. CASE \/ MarkRunning(w) \/ Heartbeat(w) \/ MarkCompleted(w)
               \/ MarkFailed(w)
      <4>1. status'[j] # "queued"
        BY <3>1, <3>3 DEF MarkRunning, Heartbeat, MarkCompleted, MarkFailed,
           UpdateWhere, SetStatus, rows
      <4> QED BY <4>1
    <3>4. CASE UNCHANGED status
      BY <3>4
    <3> QED BY <2>2, <3>2, <3>3, <3>4
        DEF Work, Reconcile, Boot, Stop, LoopExit, Raise, Crash, LoopTest,
            Claim, ClaimTimeout, TickReconcile, TickLoop, Fetch,
            PublishRunning, Validate, PublishHeartbeat, Upload,
            PublishCompleted, PublishFailed, Ack, FindStale, PublishQueued,
            RequeueStale, FindOrphans, QueuedIds, InFlightIds, RequeueOrphan,
            rows
  <2> QED BY <2>1, <2>2 DEF Next
<1> QED BY <1>3, <1>4, Invariance, PTL DEF Spec, NeverFalselyReclaimed

-----------------------------------------------------------------------------
(***************************************************************************)
(* What the status hash says of an ended job, with one worker and a        *)
(* mark_running that does not fail as an infrastructure fault: the worker  *)
(* executes rows that are running or have ended, so what it publishes as   *)
(* ended has ended.                                                        *)
(***************************************************************************)

HashEnded ==
    \A j \in Jobs : live[j] \in Terminal \/ ttl[j] => status[j] \in Terminal

\* The steps of the backend and of time.
LEMMA HashHandlers ==
  ASSUME Inv, RowFollows, HashEnded, NEW j \in Jobs,
         \/ CreateJob(j) \/ CancelLock(j) \/ Handler(j) \/ EnqueueError(j)
         \/ CreateDrop(j) \/ CancelDrop(j) \/ Age(j) \/ Expire(j)
  PROVE  RowFollows' /\ HashEnded'
<1>1. /\ UNCHANGED worker
      /\ \A i \in Jobs \ {j} : /\ status'[i] = status[i]
                               /\ live'[i] = live[i] /\ ttl'[i] = ttl[i]
      /\ \/ status'[j] = status[j]
         \/ status[j] = "absent"
         \/ status'[j] \in {"failed", "cancelled"}
      /\ live'[j] \in {live[j], "none"} /\ (ttl'[j] => ttl[j])
  BY HandlerEffects
<1>2. \A i \in Jobs : status[i] \in Terminal => status'[i] = status[i]
  BY RowsForward DEF Next
<1>3. \A i \in Jobs : status[i] = "running"
                         => status'[i] \in {"running"} \cup Terminal
  BY <1>1 DEF Terminal
<1>4. RowFollows'
  <2> SUFFICES ASSUME NEW w \in Workers
               PROVE  /\ pc[w] \in WriteSteps
                           => status'[job[w]] \in {"running"} \cup Terminal
                      /\ pc[w] \in WrittenSteps
                           => status'[job[w]] \in Terminal
    BY <1>1 DEF RowFollows, worker
  <2>1. pc[w] \in WriteSteps \cup WrittenSteps => job[w] \in Jobs
    BY HeldJob DEF WriteSteps, WrittenSteps, RunSteps, Inv, TypeOK
  <2> QED BY <1>2, <1>3, <2>1 DEF RowFollows
<1>5. HashEnded'
  <2>1. "none" \notin Terminal
    BY DEF Terminal
  <2> QED BY <1>1, <1>2, <2>1 DEF HashEnded
<1> QED BY <1>4, <1>5

\* The steps of the worker.
LEMMA HashWorkers ==
  ASSUME OneWorker, "raise" \notin Faults, Inv, RowFollows, HashEnded,
         NEW w \in Workers,
         \/ Boot(w) \/ Work(w) \/ Reconcile(w) \/ Stop(w) \/ Raise(w) \/ Crash(w)
  PROVE  RowFollows' /\ HashEnded'
<1>1. /\ pc \in [Workers -> Steps] /\ job \in [Workers -> Ids \cup {NoJob}]
      /\ status \in [Jobs -> Statuses \cup {"absent"}]
      /\ live \in [Jobs -> Statuses \cup {"none"}] /\ ttl \in [Jobs -> BOOLEAN]
  BY DEF Inv, TypeOK, WorkersOK, StoresOK
<1>2. \A i \in Jobs : status[i] \in Terminal => status'[i] = status[i]
  BY RowsForward DEF Next
<1>3. pc[w] \in RunSteps \cup {"fail", "pubfail", "pubq", "requeue"}
         => job[w] \in Jobs
  BY HeldJob DEF Inv, TypeOK
<1>4. /\ pc[w] \in WriteSteps => status[job[w]] \in {"running"} \cup Terminal
      /\ pc[w] \in WrittenSteps => status[job[w]] \in Terminal
  BY DEF RowFollows
<1>5. /\ Terminal = {"completed", "failed", "cancelled"}
      /\ Statuses = {"queued", "running"} \cup Terminal
  BY DEF Terminal, Statuses
<1>6. SUFFICES
        /\ pc'[w] \in WriteSteps
             => status'[job'[w]] \in {"running"} \cup Terminal
        /\ pc'[w] \in WrittenSteps => status'[job'[w]] \in Terminal
        /\ \A i \in Jobs : live'[i] \in Terminal \/ ttl'[i] =>
              live[i] \in Terminal \/ ttl[i] \/ status'[i] \in Terminal
  <2>1. RowFollows'
    BY <1>6 DEF RowFollows, OneWorker
  <2>2. HashEnded'
    BY <1>2, <1>6 DEF HashEnded
  <2> QED BY <2>1, <2>2
<1> USE DEF WriteSteps, WrittenSteps, RunSteps
<1>a. CASE \/ Boot(w) \/ LoopTest(w) \/ Claim(w) \/ ClaimTimeout(w)
           \/ TickReconcile(w) \/ TickLoop(w) \/ Stop(w) \/ Fetch(w) \/ Ack(w)
           \/ Crash(w)
  <2>1. /\ UNCHANGED hash
        /\ pc'[w] \in {"stale", "claim", "fetch", "tick", "loop", "down",
                       "start", "ack"}
    BY <1>1, <1>a DEF Boot, LoopTest, Claim, ClaimTimeout, TickReconcile,
       TickLoop, Stop, LoopExit, Fetch, Ack, Crash, Goto
  <2> QED BY <2>1 DEF hash
<1>b. CASE \/ FindStale(w) \/ RequeueStale(w) \/ FindOrphans(w)
           \/ QueuedIds(w) \/ InFlightIds(w) \/ RequeueOrphan(w)
           \/ ResetToQueued(w)
  <2>1. UNCHANGED hash /\ pc'[w] \in ReconcileSteps \cup {"loop"}
    BY <1>1, <1>b DEF FindStale, RequeueStale, FindOrphans, QueuedIds,
       InFlightIds, RequeueOrphan, ResetToQueued, Goto, ReconcileSteps
  <2> QED BY <2>1 DEF hash, ReconcileSteps
<1>c. CASE Validate(w) \/ Upload(w) \/ Raise(w)
  <2>1. /\ UNCHANGED <<status, hash, job>> /\ pc[w] \in RunSteps \ {"start"}
        /\ pc'[w] \in {"ensure", "complete", "fail"}
    BY <1>1, <1>c DEF Validate, Upload, Raise, Goto, rows
  <2> QED BY <1>4, <2>1 DEF hash
<1>d. CASE PublishRunning(w) \/ PublishHeartbeat(w) \/ PublishQueued(w)
  <2>1. /\ UNCHANGED <<status, job>> /\ job[w] \in Jobs
        /\ \A i \in Jobs : /\ live'[i] \in {live[i], "running", "queued"}
                           /\ ttl'[i] = ttl[i]
        /\ \/ pc[w] \in WriteSteps /\ pc'[w] \in WriteSteps
           \/ pc'[w] = "requeue"
    BY <1>1, <1>3, <1>d DEF PublishRunning, PublishHeartbeat, PublishQueued,
       AfterHeartbeat, Goto, rows, publish
  <2> QED BY <1>4, <1>5, <2>1
<1>e. CASE PublishCompleted(w) \/ PublishFailed(w)
  <2>1. /\ UNCHANGED <<status, job>> /\ job[w] \in Jobs
        /\ \A i \in Jobs \ {job[w]} : live'[i] = live[i] /\ ttl'[i] = ttl[i]
        /\ pc[w] \in WrittenSteps /\ pc'[w] = "ack"
    BY <1>1, <1>3, <1>e DEF PublishCompleted, PublishFailed, Goto, rows,
       publish
  <2> QED BY <1>4, <2>1
<1>f. ASSUME NEW from, NEW to, UpdateWhere(job[w], from, to), job[w] \in Jobs
      PROVE  status'[job[w]] = IF status[job[w]] = from THEN to
                               ELSE status[job[w]]
  BY <1>1, <1>f DEF UpdateWhere, SetStatus, rows
<1>g. CASE MarkRunning(w)
  <2>1. /\ UNCHANGED <<hash, job>> /\ job[w] \in Jobs /\ pc[w] = "start"
        /\ pc'[w] = "pubrun" /\ UpdateWhere(job[w], "queued", "running")
    BY <1>1, <1>3, <1>g DEF MarkRunning, Goto
  <2>2. status[job[w]] # "absent"
    BY <2>1 DEF Inv, RowExists
  <2>3. status'[job[w]] \in {"running"} \cup Terminal
    BY <1>1, <1>5, <1>f, <2>1, <2>2
  <2> QED BY <2>1, <2>3 DEF hash
<1>h. CASE Heartbeat(w)
  <2>1. /\ UNCHANGED <<hash, job>> /\ job[w] \in Jobs /\ pc[w] \in WriteSteps
        /\ pc'[w] \in WriteSteps /\ UpdateWhere(job[w], "running", "running")
    BY <1>1, <1>3, <1>h DEF Heartbeat, Goto
  <2>2. status'[job[w]] = status[job[w]]
    BY <1>f, <2>1
  <2> QED BY <1>4, <2>1, <2>2 DEF hash
<1>i. CASE MarkCompleted(w) \/ MarkFailed(w)
  <2>1. /\ UNCHANGED <<hash, job>> /\ job[w] \in Jobs /\ pc[w] \in WriteSteps
        /\ pc'[w] \in WrittenSteps
        /\ \/ UpdateWhere(job[w], "running", "completed")
           \/ UpdateWhere(job[w], "running", "failed")
    BY <1>1, <1>3, <1>i DEF MarkCompleted, MarkFailed, Goto
  <2>2. status'[job[w]] \in Terminal
    BY <1>4, <1>5, <1>f, <2>1
  <2> QED BY <2>1, <2>2 DEF hash
<1> QED BY <1>a, <1>b, <1>c, <1>d, <1>e, <1>g, <1>h, <1>i DEF Work, Reconcile

\* Both are kept.
LEMMA HashInvariant ==
  ASSUME OneWorker, "raise" \notin Faults
  PROVE  Spec => [](RowFollows /\ HashEnded)
<1>1. Init => RowFollows /\ HashEnded
  BY DEF Init, RowFollows, HashEnded, WriteSteps, WrittenSteps, RunSteps,
     Terminal
<1>2. Inv /\ RowFollows /\ HashEnded /\ [Next]_vars
        => (RowFollows /\ HashEnded)'
  <2>1. ASSUME RowFollows, HashEnded, UNCHANGED vars
        PROVE  RowFollows' /\ HashEnded'
    BY <2>1 DEF RowFollows, HashEnded, vars, rows, hash, worker
  <2> QED BY <2>1, HashHandlers, HashWorkers DEF Next
<1> QED BY <1>1, <1>2, Invariance, PTL DEF Spec

\* publish gives a hash its expiry only once the row has ended, so the hash of
\* an active job never expires.
THEOREM ExpiryMeansEnded ==
  OneWorker /\ "raise" \notin Faults => (PollSpec => []ExpiresOnlyEnded)
<1> SUFFICES ASSUME OneWorker, "raise" \notin Faults
             PROVE  PollSpec => []ExpiresOnlyEnded
  OBVIOUS
<1>1. HashEnded => ExpiresOnlyEnded
  BY DEF HashEnded, ExpiresOnlyEnded
<1> QED BY <1>1, PollIsPipeline, HashInvariant, PTL

\* What a poll has read was active, and what it was told.
PollTells ==
    /\ read = [j \in Jobs |-> read[j]]
    /\ told = [j \in Jobs |-> told[j]]
    /\ \A j \in Jobs : read[j] # NoRead => isActiveStatus(read[j].status)
    /\ ToldEnded

\* An answer comes from the row or from the hash.
LEMMA PollTellsNext ==
  ASSUME Inv, HashEnded, PollTells, [PollNext]_pollAll PROVE PollTells'
<1> USE DEF PollTells
<1>1. Terminal = {"completed", "failed", "cancelled"}
  BY DEF Terminal
<1>2. CASE UNCHANGED pollAll
  BY <1>2 DEF pollAll, vars, rows, pollVars, ToldEnded
<1>3. CASE Timed
  <2>1. \A i \in Jobs : status[i] \in Terminal => status'[i] = status[i]
    BY <1>3, RowsForward DEF Timed
  <2> QED BY <1>3, <2>1 DEF Timed, ToldEnded
<1>4. CASE Tick
  BY <1>4 DEF Tick, vars, rows, pollVars, ToldEnded
<1>5. ASSUME NEW j \in Jobs, GetByID(j) PROVE PollTells'
  <2>1. UNCHANGED status
    BY <1>5 DEF GetByID, vars, rows
  <2>2. status[j] \in {"queued", "running"} \cup Terminal
    BY <1>1, <1>5 DEF GetByID, Inv, TypeOK, StoresOK, Statuses
  <2>3. CASE isActiveStatus(status[j])
    <3>1. /\ UNCHANGED told
          /\ read' = [read EXCEPT ![j] = [status |-> status[j],
                                          at |-> rowAt[j]]]
      BY <1>5, <2>3 DEF GetByID
    <3>2. read'[j].status = status[j]
      BY <3>1
    <3> QED BY <2>1, <2>3, <3>1, <3>2 DEF ToldEnded
  <2>4. CASE ~isActiveStatus(status[j])
    <3>1. /\ UNCHANGED read
          /\ told' = [told EXCEPT ![j] = status[j]]
      BY <1>5, <2>4 DEF GetByID
    <3>2. status[j] \in Terminal
      BY <2>2, <2>4 DEF isActiveStatus
    <3> QED BY <2>1, <3>1, <3>2 DEF ToldEnded
  <2> QED BY <2>3, <2>4
<1>6. ASSUME NEW j \in Jobs, Answer(j) PROVE PollTells'
  <2>1. /\ UNCHANGED status
        /\ read[j] # NoRead
        /\ read' = [read EXCEPT ![j] = NoRead]
        /\ \/ told' = [told EXCEPT ![j] = read[j].status]
           \/ told' = [told EXCEPT ![j] = live[j]]
    BY <1>6 DEF Answer, vars, rows
  <2>2. read[j].status \notin Terminal
    BY <1>1, <2>1 DEF isActiveStatus
  <2>3. live[j] \in Terminal => status[j] \in Terminal
    BY DEF HashEnded
  <2>4. ToldEnded'
    <3>1. \A i \in Jobs : /\ i # j => told'[i] = told[i]
                          /\ told'[j] \in {read[j].status, live[j]}
      BY <2>1
    <3> QED BY <2>1, <2>2, <2>3, <3>1 DEF ToldEnded
  <2>5. \A i \in Jobs : read'[i] # NoRead => isActiveStatus(read'[i].status)
    <3>1. \A i \in Jobs : /\ i # j => read'[i] = read[i]
                          /\ read'[j] = NoRead
      BY <2>1
    <3> QED BY <3>1
  <2> QED BY <2>1, <2>4, <2>5
<1> QED BY <1>2, <1>3, <1>4, <1>5, <1>6 DEF PollNext, GetJob

\* A client that is told its job has ended can rely on it, though the answer
\* may come from a hash written after the row was read.
THEOREM ToldMeansEnded ==
  OneWorker /\ "raise" \notin Faults => (PollSpec => []ToldEnded)
<1> SUFFICES ASSUME OneWorker, "raise" \notin Faults
             PROVE  PollSpec => []ToldEnded
  OBVIOUS
<1>1. PollInit => PollTells
  BY DEF PollInit, PollTells, ToldEnded, Terminal
<1>2. Inv /\ HashEnded /\ PollTells /\ [PollNext]_pollAll => PollTells'
  BY PollTellsNext
<1>3. PollTells => ToldEnded
  BY DEF PollTells
<1> QED BY <1>1, <1>2, <1>3, PollIsPipeline, Invariance, HashInvariant, PTL
        DEF PollSpec, pollAll

-----------------------------------------------------------------------------
(***************************************************************************)
(* A poll answers with a status the row had meanwhile.  A hash is believed *)
(* only if its timestamp is later than the row's.  Timestamps are cut to   *)
(* the second, never rounded up, so a hash is not later than a row written *)
(* after it; and what is published is what the row says, unless the row    *)
(* has ended.                                                              *)
(***************************************************************************)

\* Of the rows a worker has selected as stale, it has reset only the one in
\* hand.
ResetInHand ==
    \A w \in Workers :
        /\ pc[w] \in RecoverSteps =>
              \A i \in todo[w] \ {job[w]} :
                 status[i] \in {"running"} \cup Terminal
        /\ pc[w] \in {"pubq", "requeue"} =>
              status[job[w]] \in {"queued"} \cup Terminal

\* A row that is running or has ended does so until its worker resets it.
LEMMA ResetInHandNext ==
  ASSUME OneWorker, Inv, ResetInHand, [Next]_vars PROVE ResetInHand'
<1>1. /\ pc \in [Workers -> Steps] /\ job \in [Workers -> Ids \cup {NoJob}]
      /\ todo \in [Workers -> SUBSET Jobs]
      /\ status \in [Jobs -> Statuses \cup {"absent"}]
  BY DEF Inv, TypeOK, WorkersOK, StoresOK
<1>2. CASE UNCHANGED vars
  BY <1>2 DEF ResetInHand, vars, rows, worker
<1>3. ASSUME NEW j \in Jobs,
             \/ CreateJob(j) \/ CancelLock(j) \/ Handler(j) \/ EnqueueError(j)
             \/ CreateDrop(j) \/ CancelDrop(j) \/ Age(j) \/ Expire(j)
      PROVE  ResetInHand'
  <2>1. UNCHANGED worker
    BY <1>3, HandlerEffects
  <2>2. \A i \in Jobs : \/ status'[i] = status[i]
                        \/ status[i] = "absent"
                        \/ status'[i] \in {"failed", "cancelled"}
    BY <1>3, HandlerEffects
  <2>3. \A i \in Jobs :
           /\ status[i] \in {"running"} \cup Terminal
                => status'[i] \in {"running"} \cup Terminal
           /\ status[i] \in {"queued"} \cup Terminal
                => status'[i] \in {"queued"} \cup Terminal
    BY <2>2 DEF Terminal
  <2>4. \A w \in Workers : pc[w] \in {"pubq", "requeue"} => job[w] \in Jobs
    BY HeldJob DEF Inv, TypeOK
  <2> QED BY <1>1, <2>1, <2>3, <2>4 DEF ResetInHand, worker
<1>4. ASSUME NEW w \in Workers,
             \/ Boot(w) \/ Work(w) \/ Reconcile(w) \/ Stop(w) \/ Raise(w)
             \/ Crash(w)
      PROVE  ResetInHand'
  <2>1. SUFFICES
          /\ pc'[w] \in RecoverSteps =>
                \A i \in todo'[w] \ {job'[w]} :
                   status'[i] \in {"running"} \cup Terminal
          /\ pc'[w] \in {"pubq", "requeue"} =>
                status'[job'[w]] \in {"queued"} \cup Terminal
    BY <2>1 DEF OneWorker, ResetInHand
  <2>2. /\ pc[w] \in RecoverSteps =>
              \A i \in todo[w] \ {job[w]} :
                 status[i] \in {"running"} \cup Terminal
        /\ pc[w] \in {"pubq", "requeue"} =>
              status[job[w]] \in {"queued"} \cup Terminal
    BY DEF ResetInHand
  <2>3. CASE FindStale(w)
    BY <1>1, <2>3 DEF FindStale, Goto, rows, RecoverSteps
  <2>4. CASE ResetToQueued(w)
    <3>1. PICK j \in todo[w] : /\ UpdateWhere(j, "running", "queued")
                               /\ job' = [job EXCEPT ![w] = j]
      BY <2>4 DEF ResetToQueued
    <3>2. /\ UNCHANGED todo /\ pc[w] = "reset" /\ pc'[w] = "pubq"
          /\ j \in Jobs /\ job'[w] = j /\ todo[w] \subseteq Jobs
      BY <1>1, <2>4, <3>1 DEF ResetToQueued, Goto
    <3>3. job[w] \notin Jobs
      BY <3>2, ConstantAssumption
         DEF BusySteps, HoldSteps, RunSteps, Inv, TypeOK, WorkersOK, Ids
    <3>4. \A i \in todo[w] : status[i] \in {"running"} \cup Terminal
      BY <2>2, <3>2, <3>3 DEF RecoverSteps
    <3>5. /\ \A i \in Jobs \ {j} : status'[i] = status[i]
          /\ status'[j] = IF status[j] = "running" THEN "queued"
                          ELSE status[j]
      BY <1>1, <3>1, <3>2 DEF UpdateWhere, SetStatus, rows
    <3> QED BY <3>2, <3>4, <3>5
  <2>5. CASE PublishQueued(w) \/ RequeueStale(w)
    <3>1. /\ UNCHANGED status
          /\ pc[w] \in {"pubq", "requeue"}
          /\ todo'[w] \ {job'[w]} \subseteq todo[w] \ {job[w]}
          /\ pc'[w] \in {"pubq", "requeue"} => UNCHANGED job
      BY <1>1, <2>5 DEF PublishQueued, RequeueStale, Goto, rows
    <3> QED BY <2>2, <3>1 DEF RecoverSteps
  <2>6. CASE \/ Boot(w) \/ Stop(w) \/ Crash(w) \/ Raise(w) \/ FindOrphans(w)
             \/ QueuedIds(w) \/ InFlightIds(w) \/ RequeueOrphan(w)
    BY <1>1, <2>6 DEF Boot, Stop, LoopExit, Crash, Raise, FindOrphans,
       QueuedIds, InFlightIds, RequeueOrphan, Goto, RecoverSteps
  <2>7. CASE \/ LoopTest(w) \/ Claim(w) \/ ClaimTimeout(w)
             \/ TickReconcile(w) \/ TickLoop(w) \/ Fetch(w) \/ MarkRunning(w)
             \/ PublishRunning(w) \/ Validate(w)
    BY <1>1, <2>7 DEF LoopTest, Claim, ClaimTimeout, TickReconcile,
       TickLoop, Fetch, MarkRunning, PublishRunning, Validate, Goto,
       RecoverSteps
  <2>8. CASE \/ Upload(w) \/ MarkCompleted(w) \/ PublishCompleted(w)
             \/ MarkFailed(w) \/ PublishFailed(w) \/ Ack(w)
    BY <1>1, <2>8 DEF Upload, MarkCompleted, PublishCompleted,
       MarkFailed, PublishFailed, Ack, Goto, RecoverSteps
  <2>9. CASE Heartbeat(w) \/ PublishHeartbeat(w)
    <3>1. pc'[w] \in RunSteps
      BY <1>1, <2>9 DEF Heartbeat, PublishHeartbeat, AfterHeartbeat, Goto,
         RunSteps
    <3> QED BY <3>1 DEF RecoverSteps, RunSteps
  <2> QED BY <1>4, <2>3, <2>4, <2>5, <2>6, <2>7, <2>8, <2>9
          DEF Work, Reconcile
<1> QED BY <1>2, <1>3, <1>4 DEF Next

\* What a worker publishes is the row's status, unless the row has ended.
LEMMA PublishesTruth ==
  ASSUME Inv, RowFollows, ResetInHand, NEW w \in Workers, Publishes(w)
  PROVE  /\ UNCHANGED status
         /\ \/ live'[job[w]] = status[job[w]]
            \/ status[job[w]] \in Terminal
<1>1. /\ job[w] \in Jobs /\ live \in [Jobs -> Statuses \cup {"none"}]
      /\ UNCHANGED status
      /\ \/ /\ pc[w] \in {"pubrun", "ensured", "downloaded", "trained"}
            /\ publish(job[w], "running", FALSE)
         \/ pc[w] \in WrittenSteps
         \/ pc[w] = "pubq" /\ publish(job[w], "queued", FALSE)
  <2>1. /\ UNCHANGED status
        /\ pc[w] \in RunSteps \cup {"pubfail", "pubq"}
        /\ \/ /\ pc[w] \in {"pubrun", "ensured", "downloaded", "trained"}
              /\ publish(job[w], "running", FALSE)
           \/ pc[w] \in WrittenSteps
           \/ pc[w] = "pubq" /\ publish(job[w], "queued", FALSE)
    BY DEF Publishes, PublishRunning, PublishHeartbeat, PublishCompleted,
       PublishFailed, PublishQueued, RunSteps, WrittenSteps, rows
  <2> QED BY <2>1, HeldJob DEF Inv, TypeOK, StoresOK
<1>2. CASE /\ pc[w] \in {"pubrun", "ensured", "downloaded", "trained"}
           /\ publish(job[w], "running", FALSE)
  BY <1>1, <1>2 DEF RowFollows, WriteSteps, RunSteps, publish
<1>3. CASE pc[w] \in WrittenSteps
  BY <1>1, <1>3 DEF RowFollows
<1>4. CASE pc[w] = "pubq" /\ publish(job[w], "queued", FALSE)
  BY <1>1, <1>4 DEF ResetInHand, publish
<1> QED BY <1>1, <1>2, <1>3, <1>4

\* Nothing but a publish writes a hash; an expiry removes it.
LEMMA HashWriters ==
  ASSUME Inv, Next, NEW j \in Jobs
  PROVE  \/ \E w \in Workers : job[w] = j /\ Publishes(w)
         \/ live'[j] \in {live[j], "none"}
<1>1. ASSUME NEW i \in Jobs,
             \/ CreateJob(i) \/ CancelLock(i) \/ Handler(i) \/ EnqueueError(i)
             \/ CreateDrop(i) \/ CancelDrop(i) \/ Age(i) \/ Expire(i)
      PROVE  live'[j] \in {live[j], "none"}
  BY <1>1, HandlerEffects
<1>2. ASSUME NEW w \in Workers,
             \/ Boot(w) \/ Work(w) \/ Reconcile(w) \/ Stop(w) \/ Raise(w)
             \/ Crash(w)
      PROVE  (job[w] = j /\ Publishes(w)) \/ live'[j] = live[j]
  <2>1. CASE Publishes(w)
    <3>1. \E s, t : publish(job[w], s, t)
      BY <2>1 DEF Publishes, PublishRunning, PublishHeartbeat,
         PublishCompleted, PublishFailed, PublishQueued
    <3>2. live \in [Jobs -> Statuses \cup {"none"}]
      BY DEF Inv, TypeOK, StoresOK
    <3> QED BY <2>1, <3>1, <3>2 DEF publish
  <2>2. CASE ~Publishes(w)
    <3>1. UNCHANGED live
      BY <1>2, <2>2 DEF Publishes, Work, Reconcile, Boot, Stop, LoopExit,
         Raise, Crash, LoopTest, Claim, ClaimTimeout, TickReconcile, TickLoop,
         Fetch, MarkRunning, Validate, Heartbeat, Upload, MarkCompleted,
         MarkFailed, Ack, FindStale, ResetToQueued, RequeueStale, FindOrphans,
         QueuedIds, InFlightIds, RequeueOrphan, hash
    <3> QED BY <3>1
  <2> QED BY <2>1, <2>2
<1> QED BY <1>1, <1>2 DEF Next

\* Cutting a time to the second never yields a later one.
LEMMA CutToSecond ==
  ASSUME NEW t \in Nat
  PROVE  _now_rfc3339(t) \in Int /\ _now_rfc3339(t) <= t
<1>1. t % TicksPerSecond \in Nat
  BY ClockAssumption
<1> QED BY <1>1 DEF _now_rfc3339

\* No hash is dated in the future, and one that is later than its row agrees
\* with it, or the row has ended.
HashClock ==
    /\ now \in Nat
    /\ \A j \in Jobs : hashAt[j] \in Int /\ hashAt[j] <= now
    /\ \A j \in Jobs : live[j] # "none" /\ hashAt[j] > rowAt[j]
                          => live[j] = status[j] \/ status[j] \in Terminal

\* A poll in progress has seen what it would answer, or the job has ended.
PollSees ==
    /\ had = [j \in Jobs |-> had[j]]
    /\ \A j \in Jobs : read[j] # NoRead =>
          /\ {status[j], read[j].status} \subseteq had[j]
          /\ Fresher(j) => live[j] \in had[j] \/ had[j] \cap Terminal # {}

\* Rows and hashes keep their dates in order.
LEMMA HashClockNext ==
  ASSUME Inv, RowFollows, ResetInHand, HashClock, [PollNext]_pollAll
  PROVE  HashClock'
<1> USE DEF HashClock
<1>1. /\ \A j \in Jobs : hashAt[j] \in Int /\ hashAt[j] <= now
      /\ now \in Nat
  OBVIOUS
<1>2. CASE UNCHANGED pollAll
  BY <1>2 DEF pollAll, vars, rows, hash, clockVars
<1>3. CASE Timed
  <2>1. now' \in Nat /\ now <= now'
    <3>1. CASE \E j \in Jobs : Age(j)
      <4>1. now' \in 0..MaxTime /\ _now_rfc3339(now') > now
        BY <1>3, <3>1 DEF Timed
      <4>2. now' \in Nat
        BY <4>1, ClockAssumption
      <4>3. _now_rfc3339(now') \in Int /\ _now_rfc3339(now') <= now'
        BY <4>2, CutToSecond
      <4> QED BY <1>1, <4>1, <4>2, <4>3
    <3>2. CASE ~\E j \in Jobs : Age(j)
      BY <1>1, <1>3, <3>2 DEF Timed
    <3> QED BY <3>1, <3>2
  <2>2. _now_rfc3339(now) \in Int /\ _now_rfc3339(now) <= now
    BY <1>1, CutToSecond
  <2>3. ASSUME NEW j \in Jobs
        PROVE  /\ hashAt'[j] = IF \E w \in Workers : job[w] = j /\ Publishes(w)
                               THEN _now_rfc3339(now) ELSE hashAt[j]
               /\ rowAt'[j] = IF WritesRow(j) THEN now ELSE rowAt[j]
    BY <1>3 DEF Timed
  <2>4. ASSUME NEW j \in Jobs
        PROVE  hashAt'[j] \in Int /\ hashAt'[j] <= now
    BY <1>1, <2>2, <2>3
  <2>5. ASSUME NEW j \in Jobs, live'[j] # "none", hashAt'[j] > rowAt'[j]
        PROVE  live'[j] = status'[j] \/ status'[j] \in Terminal
    <3>1. /\ ~WritesRow(j)
          /\ rowAt'[j] = rowAt[j]
      BY <1>1, <2>3, <2>4, <2>5
    <3>2. status'[j] = status[j]
      BY <3>1 DEF WritesRow
    <3>3. CASE \E w \in Workers : job[w] = j /\ Publishes(w)
      BY <3>2, <3>3, PublishesTruth
    <3>4. CASE ~\E w \in Workers : job[w] = j /\ Publishes(w)
      <4>1. live'[j] = live[j] /\ hashAt'[j] = hashAt[j]
        BY <1>3, <2>3, <2>5, <3>4, HashWriters DEF Timed
      <4> QED BY <2>5, <3>1, <3>2, <4>1
    <3> QED BY <3>3, <3>4
  <2>6. \A j \in Jobs : hashAt'[j] \in Int /\ hashAt'[j] <= now'
    BY <1>1, <2>1, <2>4
  <2> QED BY <2>1, <2>5, <2>6
<1>4. CASE Tick
  <2>1. /\ now' = now + 1
        /\ UNCHANGED <<status, live, rowAt, hashAt>>
    BY <1>4 DEF Tick, vars, rows, hash
  <2> QED BY <1>1, <2>1
<1>5. CASE \E j \in Jobs : GetJob(j)
  <2>1. UNCHANGED <<status, live, now, rowAt, hashAt>>
    BY <1>5 DEF GetJob, GetByID, Answer, vars, rows, hash, clockVars
  <2> QED BY <2>1
<1> QED BY <1>2, <1>3, <1>4, <1>5 DEF PollNext

\* A poll starts with a row no later hash contradicts, and sees what the row
\* becomes.
LEMMA PollSeesNext ==
  ASSUME Inv, RowFollows, ResetInHand, HashClock, PollTells, PollSees,
         [PollNext]_pollAll
  PROVE  PollSees'
<1> USE DEF PollSees
<1>1. CASE UNCHANGED pollAll
  BY <1>1 DEF pollAll, vars, rows, hash, clockVars, pollVars, Fresher
<1>2. CASE Timed
  <2>1. /\ had' = [j \in Jobs |-> IF read[j] = NoRead THEN {}
                                  ELSE had[j] \cup {status'[j]}]
        /\ UNCHANGED read
    BY <1>2 DEF Timed
  <2>2. ASSUME NEW j \in Jobs, read'[j] # NoRead
        PROVE  /\ {status'[j], read'[j].status} \subseteq had'[j]
               /\ Fresher(j)' => \/ live'[j] \in had'[j]
                                 \/ had'[j] \cap Terminal # {}
    <3>1. had'[j] = had[j] \cup {status'[j]} /\ read'[j] = read[j]
      BY <2>1, <2>2
    <3>2. read[j].status \in had[j]
      BY <2>2, <3>1
    <3>3. CASE \E w \in Workers : job[w] = j /\ Publishes(w)
      <4>1. live'[j] = status'[j] \/ status'[j] \in Terminal
        BY <3>3, PublishesTruth
      <4> QED BY <3>1, <3>2, <4>1
    <3>4. CASE ~\E w \in Workers : job[w] = j /\ Publishes(w)
      <4>1. live'[j] \in {live[j], "none"} /\ hashAt'[j] = hashAt[j]
        BY <1>2, <3>4, HashWriters DEF Timed
      <4>2. Fresher(j)' => Fresher(j) /\ live'[j] = live[j]
        BY <3>1, <4>1 DEF Fresher
      <4> QED BY <2>2, <3>1, <3>2, <4>2
    <3> QED BY <3>3, <3>4
  <2> QED BY <2>1, <2>2
<1>3. CASE Tick
  BY <1>3 DEF Tick, vars, rows, hash, pollVars, Fresher
<1>4. ASSUME NEW j \in Jobs, GetByID(j) PROVE PollSees'
  <2>1. UNCHANGED <<status, live, rowAt, hashAt>>
    BY <1>4 DEF GetByID, vars, rows, hash, clockVars
  <2>2. CASE UNCHANGED <<read, had>>
    BY <2>1, <2>2 DEF Fresher
  <2>3. CASE /\ read' = [read EXCEPT ![j] = [status |-> status[j],
                                             at |-> rowAt[j]]]
             /\ had' = [had EXCEPT ![j] = {status[j]}]
    <3>1. /\ \A i \in Jobs \ {j} : read'[i] = read[i] /\ had'[i] = had[i]
          /\ read'[j].status = status[j] /\ read'[j].at = rowAt[j]
          /\ had'[j] = {status[j]}
          /\ had' = [i \in Jobs |-> had'[i]]
      BY <2>3 DEF PollTells
    <3>2. Fresher(j)' => live[j] = status[j] \/ status[j] \in Terminal
      BY <2>1, <3>1 DEF Fresher, HashClock
    <3>3. \A i \in Jobs \ {j} : Fresher(i)' <=> Fresher(i)
      BY <2>1, <3>1 DEF Fresher
    <3> QED BY <2>1, <3>1, <3>2, <3>3
  <2> QED BY <1>4, <2>2, <2>3 DEF GetByID
<1>5. ASSUME NEW j \in Jobs, Answer(j) PROVE PollSees'
  <2>1. /\ UNCHANGED <<status, live, hashAt>>
        /\ read' = [read EXCEPT ![j] = NoRead]
        /\ had' = [had EXCEPT ![j] = {}]
    BY <1>5 DEF Answer, vars, rows, hash, clockVars
  <2>2. /\ \A i \in Jobs \ {j} : read'[i] = read[i] /\ had'[i] = had[i]
        /\ read'[j] = NoRead
        /\ had' = [i \in Jobs |-> had'[i]]
    BY <2>1 DEF PollTells
  <2>3. \A i \in Jobs \ {j} : Fresher(i)' <=> Fresher(i)
    BY <2>1, <2>2 DEF Fresher
  <2> QED BY <2>1, <2>2, <2>3
<1> QED BY <1>1, <1>2, <1>3, <1>4, <1>5 DEF PollNext, GetJob

\* The answer to a poll is a status the row had meanwhile, or the job ended
\* meanwhile: a hash left by an earlier attempt never hides what the row has
\* become since.
THEOREM AnswersAreTrue ==
  OneWorker /\ "raise" \notin Faults => (PollSpec => AnswerWasTrue)
<1> SUFFICES ASSUME OneWorker, "raise" \notin Faults
             PROVE  PollSpec => AnswerWasTrue
  OBVIOUS
<1> DEFINE PipelineInv == Inv /\ RowFollows /\ HashEnded /\ ResetInHand
           PollInv == PollTells /\ HashClock /\ PollSees
<1>1. Spec => []ResetInHand
  <2>1. Init => ResetInHand
    BY DEF Init, ResetInHand, RecoverSteps
  <2>2. Inv /\ ResetInHand /\ [Next]_vars => ResetInHand'
    BY ResetInHandNext
  <2> QED BY <2>1, <2>2, Invariance, PTL DEF Spec
<1>2. PollSpec => []PipelineInv
  BY <1>1, PollIsPipeline, Invariance, HashInvariant, PTL
<1>3. PollInit => PollInv
  <2> SUFFICES ASSUME PollInit PROVE PollInv
    OBVIOUS
  <2>1. PollTells
    BY DEF PollInit, PollTells, ToldEnded, Terminal
  <2>2. HashClock
    BY DEF PollInit, HashClock
  <2>3. PollSees
    BY DEF PollInit, PollSees
  <2> QED BY <2>1, <2>2, <2>3
<1>4. PipelineInv /\ PollInv /\ [PollNext]_pollAll => PollInv'
  BY PollTellsNext, HashClockNext, PollSeesNext
<1>5. PollSpec => []PollInv
  BY <1>2, <1>3, <1>4, PTL DEF PollSpec, pollAll
<1>6. PollInv
        => [\A j \in Jobs : Answer(j) =>
              told'[j] \in had[j] \/ had[j] \cap Terminal # {}]_pollAll
  <2> SUFFICES ASSUME PollInv, NEW j \in Jobs, Answer(j)
               PROVE  told'[j] \in had[j] \/ had[j] \cap Terminal # {}
    OBVIOUS
  <2>1. /\ read[j] # NoRead
        /\ \/ told'[j] = read[j].status
           \/ Fresher(j) /\ told'[j] = live[j]
    BY DEF Answer, PollTells
  <2> QED BY <2>1 DEF PollSees
<1> QED BY <1>5, <1>6, PTL DEF AnswerWasTrue, pollAll

-----------------------------------------------------------------------------
(***************************************************************************)
(* With one worker an active job is queued once: an LPUSH that follows the *)
(* first one finds the id in neither list.                                 *)
(***************************************************************************)

LookSteps == {"lookq", "lookp", "push"}

\* What the worker holds is in flight; what it recovers is running, or is
\* queued by its own reset, and is in no queue; what it is to push as an
\* orphan is in no list.
WorkerLists(w) ==
    /\ pc[w] \in HoldSteps /\ Active(job[w]) => job[w] \in processing
    /\ pc[w] \in RecoverSteps =>
          /\ Active(job[w]) => job[w] \notin Entries
          /\ \A i \in todo[w] \ {job[w]} :
                status[i] \in {"running"} \cup Terminal
    /\ pc[w] \in {"pubq", "requeue"} =>
          status[job[w]] \in {"queued"} \cup Terminal
    /\ pc[w] \in LookSteps =>
          \A i \in todo[w] : status[i] \in {"queued"} \cup Terminal
    /\ pc[w] = "lookp" =>
          \A i \in todo[w] \cap Entries : Active(i) => i \in seen[w]
    /\ pc[w] = "push" =>
          \A i \in todo[w] : Active(i) => i \notin Entries \cup processing

\* An active job has one entry in one list, and none in jobs:queue while it
\* is running.
ListedOnce ==
    /\ \A j \in Jobs : Active(j) => /\ Once(queue, j)
                                    /\ ~(j \in Entries /\ j \in processing)
    /\ \A j \in Jobs : status[j] = "running" => j \notin Entries

SoloInv == KnownPushed /\ ListedOnce /\ \A w \in Workers : WorkerLists(w)

\* The steps of the backend and of time.
LEMMA SoloHandlers ==
  ASSUME Inv, DequeuedEnded, SoloInv, NEW j \in Jobs,
         \/ CreateJob(j) \/ CancelLock(j) \/ Handler(j) \/ EnqueueError(j)
         \/ CreateDrop(j) \/ CancelDrop(j) \/ Age(j) \/ Expire(j)
  PROVE  ListedOnce' /\ \A w \in Workers : WorkerLists(w)'
<1> DEFINE Known(i) == create[i] \notin {"idle", "enqueue"}
<1>1. /\ pc' = pc /\ job' = job /\ todo' = todo /\ seen' = seen
      /\ processing' = processing
      /\ \A i \in Jobs \ {j} : status'[i] = status[i]
      /\ \/ status'[j] = status[j]
         \/ /\ status[j] = "absent" /\ status'[j] = "queued"
            /\ create[j] = "idle"
         \/ status'[j] \in {"failed", "cancelled"}
  BY HandlerEffects DEF worker
<1>2. /\ \/ Entries' = Entries
         \/ Entries' = Entries \cup {j} /\ create[j] = "enqueue"
         \/ Entries' = Entries \ {j} /\ status[j] \in Terminal
      /\ \A i \in Jobs : Once(queue, i)
                            /\ ~(create[i] = "enqueue" /\ i \in Entries)
                            => Once(queue', i)
  BY HandlerEntries
<1>3. /\ \A i \in Jobs : i \in Entries \cup processing => Known(i)
      /\ \A w \in Workers : /\ \A i \in todo[w] : Known(i)
                            /\ job[w] \in Jobs => Known(job[w])
  BY DEF SoloInv, KnownPushed, Pushed
<1>4. \A i \in Jobs : Known(i) => /\ i \in Entries' => i \in Entries
                                  /\ Active(i)' => Active(i)
  BY <1>1, <1>2 DEF Active, isActiveStatus
<1>5. \A w \in Workers : todo[w] \subseteq Jobs
  BY DEF Inv, TypeOK, WorkersOK
<1>6. ListedOnce'
  <2>1. ASSUME NEW i \in Jobs, Active(i)'
        PROVE  Once(queue', i) /\ ~(i \in Entries' /\ i \in processing')
    <3>1. CASE Known(i)
      BY <1>1, <1>2, <1>4, <2>1, <3>1 DEF SoloInv, ListedOnce
    <3>2. CASE ~Known(i)
      <4>1. i \notin Entries /\ i \notin processing
        BY <1>3, <3>2
      <4>2. Once(queue, i)
        BY <4>1 DEF Once, Entries
      <4> QED BY <1>1, <1>2, <4>1, <4>2
    <3> QED BY <3>1, <3>2
  <2>2. ASSUME NEW i \in Jobs, status'[i] = "running" PROVE i \notin Entries'
    <3>1. status[i] = "running"
      BY <1>1, <2>2
    <3>2. i \notin Entries /\ Known(i)
      BY <3>1 DEF SoloInv, ListedOnce, KnownPushed, Pushed
    <3> QED BY <1>4, <3>2
  <2> QED BY <2>1, <2>2 DEF ListedOnce
<1>7. ASSUME NEW w \in Workers PROVE WorkerLists(w)'
  <2>1. WorkerLists(w)
    BY DEF SoloInv
  <2>2. \A i \in todo[w] : /\ i \in Entries' => i \in Entries
                           /\ Active(i)' => Active(i)
    BY <1>3, <1>4, <1>5
  <2>3. /\ Active(job[w])' => Active(job[w])
        /\ job[w] \in Jobs /\ job[w] \in Entries' => job[w] \in Entries
    BY <1>1, <1>3, <1>4 DEF Active
  <2>4. \A i \in todo[w] :
           /\ status[i] \in {"running"} \cup Terminal
                => status'[i] \in {"running"} \cup Terminal
           /\ status[i] \in {"queued"} \cup Terminal
                => status'[i] \in {"queued"} \cup Terminal
    BY <1>1, <1>3, <1>5 DEF Terminal
  <2>5. ASSUME pc[w] \in {"pubq", "requeue"}
        PROVE  status'[job[w]] \in {"queued"} \cup Terminal
    <3>1. job[w] \in Jobs
      BY <2>5, HeldJob DEF Inv, TypeOK
    <3>2. status[job[w]] \in {"queued"} \cup Terminal /\ Known(job[w])
      BY <1>3, <2>1, <2>5, <3>1 DEF WorkerLists
    <3> QED BY <1>1, <3>1, <3>2 DEF Terminal
  <2> QED BY <1>1, <2>1, <2>2, <2>3, <2>4, <2>5 DEF WorkerLists, Active
<1> QED BY <1>6, <1>7

\* The steps of the worker.
LEMMA SoloWorkers ==
  ASSUME OneWorker, Inv, SoloInv, NEW w \in Workers,
         \/ Boot(w) \/ Work(w) \/ Reconcile(w) \/ Stop(w) \/ Raise(w) \/ Crash(w)
  PROVE  ListedOnce' /\ \A v \in Workers : WorkerLists(v)'
<1>1. /\ pc \in [Workers -> Steps] /\ job \in [Workers -> Ids \cup {NoJob}]
      /\ todo \in [Workers -> SUBSET Jobs] /\ seen \in [Workers -> SUBSET Ids]
      /\ status \in [Jobs -> Statuses \cup {"absent"}]
      /\ queue \in Seq(Ids) /\ Jobs \subseteq Ids
  BY DEF Inv, TypeOK, WorkersOK, StoresOK, Ids
<1>2. pc[w] \in RunSteps \cup {"fail", "pubfail", "pubq", "requeue"}
         => job[w] \in Jobs
  BY HeldJob DEF Inv, TypeOK
<1>3. /\ Terminal = {"completed", "failed", "cancelled"}
      /\ Statuses = {"queued", "running"} \cup Terminal
      /\ \A i : Active(i) <=> i \in Jobs /\ status[i] \in {"queued", "running"}
      /\ \A i : Active(i)' <=> i \in Jobs /\ status'[i] \in {"queued", "running"}
  BY DEF Terminal, Statuses, Active, isActiveStatus
<1>4. /\ ListedOnce /\ WorkerLists(w)
      /\ pc[w] \notin BusySteps => job[w] = NoJob
      /\ NoJob \notin Jobs
  BY ConstantAssumption DEF SoloInv, Inv, TypeOK, WorkersOK, Ids
<1>5. Entries = Elements(queue) /\ Entries' = Elements(queue')
  BY DEF Entries, Elements
<1>6. SUFFICES ListedOnce' /\ WorkerLists(w)'
  BY <1>6 DEF OneWorker
<1> DEFINE NoneActivated == \A i \in Jobs : status'[i] \in {"queued", "running"}
                               => status[i] \in {"queued", "running"}
           Obliged == HoldSteps \cup RecoverSteps \cup LookSteps
<1>7. ASSUME UNCHANGED lists, NoneActivated,
             \A i \in Jobs : status'[i] = "running" => i \notin Entries
      PROVE  ListedOnce' /\ Entries' = Entries /\ processing' = processing
  <2>1. /\ queue' = queue /\ Entries' = Entries /\ processing' = processing
    BY <1>7 DEF lists, Entries
  <2> QED BY <1>3, <1>4, <1>7, <2>1 DEF ListedOnce
<1>8. UNCHANGED <<lists, status>>
        => ListedOnce' /\ Entries' = Entries /\ processing' = processing
  BY <1>4, <1>7 DEF ListedOnce
<1> USE DEF HoldSteps, RecoverSteps, LookSteps, RunSteps
<1>a. CASE \/ Boot(w) \/ LoopTest(w) \/ ClaimTimeout(w) \/ TickReconcile(w)
           \/ TickLoop(w) \/ Stop(w) \/ Crash(w)
  <2>1. /\ UNCHANGED <<lists, status>>
        /\ pc'[w] \in {"stale", "claim", "tick", "loop", "down"}
    BY <1>1, <1>a DEF Boot, LoopTest, ClaimTimeout, TickReconcile, TickLoop,
       Stop, LoopExit, Crash, Goto, rows
  <2> QED BY <1>8, <2>1 DEF WorkerLists
<1>b. CASE \/ Fetch(w) \/ PublishRunning(w) \/ Validate(w)
           \/ PublishHeartbeat(w) \/ Upload(w) \/ PublishCompleted(w)
           \/ PublishFailed(w) \/ Raise(w)
  <2>1. /\ UNCHANGED <<lists, status, job>>
        /\ pc[w] \in HoldSteps /\ pc'[w] \in HoldSteps
    BY <1>1, <1>b DEF Fetch, PublishRunning, Validate, PublishHeartbeat,
       AfterHeartbeat, Upload, PublishCompleted, PublishFailed, Raise, Goto,
       rows
  <2>2. \A i : Active(i)' <=> Active(i)
    BY <1>3, <2>1
  <2> QED BY <1>4, <1>8, <2>1, <2>2 DEF WorkerLists
<1>c. CASE \/ MarkRunning(w) \/ Heartbeat(w) \/ MarkCompleted(w)
           \/ MarkFailed(w)
  <2>1. /\ UNCHANGED <<lists, job>>
        /\ pc[w] \in HoldSteps \ {"fetch", "ack"} /\ pc'[w] \in HoldSteps
        /\ \E from \in {"queued", "running"}, to \in Statuses \ {"queued"} :
              UpdateWhere(job[w], from, to)
    BY <1>1, <1>3, <1>c DEF MarkRunning, Heartbeat, MarkCompleted, MarkFailed,
       Goto
  <2>2. job[w] \in Jobs
    BY <1>2, <2>1
  <2>3. /\ \A i \in Jobs \ {job[w]} : status'[i] = status[i]
        /\ \/ status'[job[w]] = status[job[w]]
           \/ /\ status[job[w]] \in {"queued", "running"}
              /\ status'[job[w]] # "queued"
    BY <1>1, <2>1, <2>2 DEF UpdateWhere, SetStatus, rows
  <2>4. Active(job[w]) => job[w] \in processing /\ job[w] \notin Entries
    BY <1>4, <2>1, <2>2 DEF WorkerLists, ListedOnce
  <2>5. NoneActivated
    BY <2>2, <2>3
  <2>6. \A i \in Jobs : status'[i] = "running" => i \notin Entries
    BY <1>3, <1>4, <2>2, <2>3, <2>4 DEF ListedOnce
  <2>7. \A i : Active(i)' => Active(i)
    BY <1>3, <2>5
  <2>8. ListedOnce' /\ processing' = processing
    BY <1>7, <2>1, <2>5, <2>6
  <2> QED BY <2>1, <2>4, <2>7, <2>8 DEF WorkerLists
<1>d. CASE FindStale(w)
  <2>1. /\ UNCHANGED <<lists, status, job>> /\ pc[w] = "stale"
        /\ pc'[w] \in {"orphan", "reset"}
        /\ \A i \in todo'[w] : status[i] = "running"
    BY <1>1, <1>d DEF FindStale, Goto, rows
  <2>2. job[w] \notin Jobs
    BY <1>4, <2>1 DEF BusySteps
  <2>3. ~Active(job[w])'
    BY <1>3, <2>1, <2>2
  <2> QED BY <1>8, <2>1, <2>3 DEF WorkerLists
<1>e. CASE PublishQueued(w)
  <2>1. /\ UNCHANGED <<lists, status, job, todo>> /\ pc[w] = "pubq"
        /\ pc'[w] = "requeue"
    BY <1>1, <1>e DEF PublishQueued, Goto, rows
  <2>2. \A i : Active(i)' <=> Active(i)
    BY <1>3, <2>1
  <2> QED BY <1>4, <1>8, <2>1, <2>2 DEF WorkerLists
<1>f. CASE FindOrphans(w)
  <2>1. /\ UNCHANGED <<lists, status>>
        /\ pc'[w] \in {"loop", "lookq"}
        /\ \A i \in todo'[w] : status[i] = "queued"
    BY <1>1, <1>f DEF FindOrphans, Goto, rows
  <2> QED BY <1>8, <2>1 DEF WorkerLists
<1>g. CASE QueuedIds(w)
  <2>1. /\ UNCHANGED <<lists, status, todo>> /\ pc[w] = "lookq"
        /\ pc'[w] = "lookp" /\ seen'[w] = Entries
    BY <1>1, <1>g DEF QueuedIds, Goto, rows
  <2> QED BY <1>4, <1>8, <2>1 DEF WorkerLists
<1>h. CASE InFlightIds(w)
  <2>1. /\ UNCHANGED <<lists, status>> /\ pc[w] = "lookp"
        /\ pc'[w] \in {"loop", "push"}
        /\ todo'[w] = todo[w] \ (seen[w] \cup processing)
    BY <1>1, <1>h DEF InFlightIds, Goto, rows
  <2>2. \A i : Active(i)' <=> Active(i)
    BY <1>3, <2>1
  <2> QED BY <1>4, <1>8, <2>1, <2>2 DEF WorkerLists
<1>i. CASE ResetToQueued(w)
  <2>1. PICK j \in todo[w] : /\ UpdateWhere(j, "running", "queued")
                             /\ job' = [job EXCEPT ![w] = j]
    BY <1>i DEF ResetToQueued
  <2>2. /\ UNCHANGED <<lists, todo>> /\ pc[w] = "reset" /\ pc'[w] = "pubq"
        /\ j \in Jobs /\ job'[w] = j
    BY <1>1, <1>i, <2>1 DEF ResetToQueued, Goto
  <2>3. job[w] \notin Jobs /\ j # job[w]
    BY <1>4, <2>2 DEF BusySteps
  <2>4. /\ \A i \in Jobs \ {j} : status'[i] = status[i]
        /\ \/ status'[j] = status[j]
           \/ status[j] = "running" /\ status'[j] = "queued"
    BY <1>1, <2>1, <2>2 DEF UpdateWhere, SetStatus, rows
  <2>5. status[j] \in {"running"} \cup Terminal
    BY <1>4, <2>2, <2>3 DEF WorkerLists
  <2>6. status'[j] \in {"queued", "running"} => j \notin Entries
    BY <1>3, <1>4, <2>2, <2>4, <2>5 DEF ListedOnce
  <2>7. ListedOnce' /\ Entries' = Entries
    <3>1. NoneActivated
      BY <2>4
    <3>2. \A i \in Jobs : status'[i] = "running" => i \notin Entries
      BY <1>4, <2>4, <2>6 DEF ListedOnce
    <3> QED BY <1>7, <2>2, <3>1, <3>2
  <2>8. \A i \in todo[w] \ {j} : status'[i] \in {"running"} \cup Terminal
    BY <1>1, <1>4, <2>2, <2>3, <2>4 DEF WorkerLists
  <2>9. /\ Active(j)' => j \notin Entries'
        /\ status'[j] \in {"queued"} \cup Terminal
    <3>1. status[j] = "running" => status'[j] = "queued"
      BY <1>1, <2>1, <2>2 DEF UpdateWhere, SetStatus, rows
    <3> QED BY <1>3, <2>2, <2>4, <2>5, <2>6, <2>7, <3>1
  <2> QED BY <2>2, <2>7, <2>8, <2>9 DEF WorkerLists, Active
<1>j. CASE Claim(w)
  <2> DEFINE e == queue[Len(queue)]
  <2>1. /\ queue # <<>> /\ UNCHANGED status /\ pc'[w] = "fetch"
        /\ job'[w] = e /\ processing' = processing \cup {e}
        /\ queue' = SubSeq(queue, 1, Len(queue) - 1)
    BY <1>1, <1>j DEF Claim, Goto, rows
  <2>2. Entries = Entries' \cup {e}
    BY <1>1, <1>5, <2>1, PopElements
  <2>3. ASSUME NEW i \in Jobs, Once(queue, i)
        PROVE  Once(queue', i) /\ (i = e => i \notin Entries')
    BY <1>1, <1>5, <2>1, <2>3, PopOnce
  <2> HIDE DEF e
  <2>4. ListedOnce'
    BY <1>3, <1>4, <2>1, <2>2, <2>3 DEF ListedOnce
  <2> QED BY <2>1, <2>4 DEF WorkerLists
<1>k. CASE Ack(w)
  <2>1. /\ UNCHANGED <<queue, status>> /\ pc'[w] = "tick"
        /\ processing' = processing \ {job[w]}
    BY <1>1, <1>k DEF Ack, Goto, rows
  <2>2. ListedOnce'
    BY <1>3, <1>4, <1>5, <2>1 DEF ListedOnce
  <2> QED BY <2>1, <2>2 DEF WorkerLists
<1>l. ASSUME NEW j \in Jobs, Requeue(j), UNCHANGED status,
             Active(j) => j \notin Entries,
             status[j] # "running"
      PROVE  /\ ListedOnce' /\ Entries' = Entries \cup {j}
             /\ processing' = processing \ {j}
  <2>1. processing' = processing \ {j} /\ queue' = LPUSH(queue, j)
    BY <1>l DEF Requeue
  <2>2. Entries' = Entries \cup {j}
    BY <1>1, <1>5, <2>1, LpushElements
  <2>3. ASSUME NEW i \in Jobs, Once(queue, i), i = j => i \notin Entries
        PROVE  Once(queue', i)
    BY <1>1, <1>5, <2>1, <2>3, LpushOnce
  <2>4. ListedOnce'
    BY <1>3, <1>4, <1>l, <2>1, <2>2, <2>3 DEF ListedOnce
  <2> QED BY <2>1, <2>2, <2>4
<1>m. CASE RequeueStale(w)
  <2>1. /\ UNCHANGED status /\ pc[w] = "requeue"
        /\ pc'[w] \in {"orphan", "reset"} /\ Requeue(job[w])
        /\ todo'[w] = todo[w] \ {job[w]} /\ job'[w] = NoJob
        /\ job[w] \in Jobs
    BY <1>1, <1>2, <1>m DEF RequeueStale, Goto, rows
  <2>2. ListedOnce'
    <3>1. /\ Active(job[w]) => job[w] \notin Entries
          /\ status[job[w]] # "running"
      BY <1>3, <1>4, <2>1 DEF WorkerLists
    <3> QED BY <1>l, <2>1, <3>1
  <2>3. ~Active(NoJob)'
    BY <1>3, <1>4
  <2> QED BY <1>4, <2>1, <2>2, <2>3 DEF WorkerLists
<1>n. CASE RequeueOrphan(w)
  <2>1. PICK j \in todo[w] : /\ Requeue(j)
                             /\ todo' = [todo EXCEPT ![w] = @ \ {j}]
                             /\ Goto(w, IF todo[w] = {j} THEN "loop" ELSE "push")
    BY <1>n DEF RequeueOrphan
  <2>2. /\ UNCHANGED status /\ pc[w] = "push" /\ j \in Jobs
        /\ pc'[w] \in {"loop", "push"} /\ todo'[w] = todo[w] \ {j}
    BY <1>1, <1>n, <2>1 DEF RequeueOrphan, Goto, rows
  <2>3. /\ Active(j) => j \notin Entries \cup processing
        /\ status[j] \in {"queued"} \cup Terminal
        /\ \A i \in todo'[w] : /\ Active(i) => i \notin Entries \cup processing
                               /\ status[i] \in {"queued"} \cup Terminal
    BY <1>4, <2>2 DEF WorkerLists
  <2>4. /\ ListedOnce' /\ Entries' = Entries \cup {j}
        /\ processing' = processing \ {j}
    BY <1>3, <1>l, <2>1, <2>2, <2>3
  <2>5. \A i : Active(i)' <=> Active(i)
    BY <1>3, <2>2
  <2> QED BY <2>2, <2>3, <2>4, <2>5 DEF WorkerLists
<1> QED BY <1>a, <1>b, <1>c, <1>d, <1>e, <1>f, <1>g, <1>h, <1>i, <1>j, <1>k,
           <1>m, <1>n DEF Work, Reconcile

\* Served by one worker that may die anywhere, a job that is active is queued
\* at most once, and not while it is in flight, if no enqueue outlasts the
\* orphan grace.
THEOREM QueuedOnce ==
  OneWorker /\ "enqueue" \notin Slow => (Spec => []SingleEntry)
<1> SUFFICES ASSUME OneWorker, "enqueue" \notin Slow
             PROVE  Spec => []SingleEntry
  OBVIOUS
<1>1. Init => SoloInv /\ DequeuedEnded
  <2> SUFFICES ASSUME Init PROVE SoloInv /\ DequeuedEnded
    OBVIOUS
  <2>1. KnownPushed /\ DequeuedEnded
    BY KnownInit, QueueInit DEF QueueInv
  <2>2. \A j \in Jobs : status[j] = "absent"
    BY DEF Init
  <2>3. ListedOnce
    BY <2>2 DEF ListedOnce, Active, isActiveStatus
  <2>4. ASSUME NEW w \in Workers PROVE WorkerLists(w)
    BY DEF Init, WorkerLists, HoldSteps, RunSteps, RecoverSteps, LookSteps
  <2> QED BY <2>1, <2>3, <2>4 DEF SoloInv
<1>2. Inv /\ SoloInv /\ DequeuedEnded /\ [Next]_vars
        => SoloInv' /\ DequeuedEnded'
  <2> SUFFICES ASSUME Inv, SoloInv, DequeuedEnded, [Next]_vars
               PROVE  SoloInv' /\ DequeuedEnded'
    OBVIOUS
  <2>1. KnownPushed' /\ DequeuedEnded'
    BY KnownNext, DequeuedNext DEF SoloInv
  <2>2. CASE UNCHANGED vars
    BY <2>1, <2>2
       DEF SoloInv, ListedOnce, WorkerLists, Active, Entries, vars, rows,
           lists, worker
  <2>3. CASE Next
    BY <2>1, <2>3, SoloHandlers, SoloWorkers DEF Next, SoloInv
  <2> QED BY <2>2, <2>3
<1>3. SoloInv => SingleEntry
  BY DEF SoloInv, ListedOnce, SingleEntry, Active, Once
<1> QED BY <1>1, <1>2, <1>3, Invariance, PTL DEF Spec
=============================================================================
