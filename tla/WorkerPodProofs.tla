-------------------------- MODULE WorkerPodProofs --------------------------
(***************************************************************************)
(* Proofs about WorkerPod: what holds of the pipeline holds of it under    *)
(* the launcher too, where children are started, told to stop and killed   *)
(* together, and stopping the pod cuts no job short.                       *)
(***************************************************************************)
EXTENDS WorkerPod, QueueProofs

(***************************************************************************)
(* A step of the pod is a step of the pipeline, one that leaves the        *)
(* pipeline alone, or one by which children go down.                       *)
(***************************************************************************)

\* Every child stays as it is or goes down, from one of the steps in From.
GoDown(From) ==
    /\ pc' \in [Workers -> Steps]
    /\ job' \in [Workers -> Ids \cup {NoJob}]
    /\ todo' \in [Workers -> SUBSET Jobs]
    /\ seen' \in [Workers -> SUBSET Ids]
    /\ \A w \in Workers :
          \/ /\ pc'[w] = pc[w] /\ job'[w] = job[w]
             /\ todo'[w] = todo[w] /\ seen'[w] = seen[w]
          \/ /\ pc[w] \in From /\ pc'[w] = "down" /\ job'[w] = NoJob
             /\ todo'[w] \subseteq todo[w]

\* The steps of a child from which it can go down.
Ends == CrashPoints \cup {"down", "loop"}

\* The three kinds of steps.
LEMMA PodSteps ==
  ASSUME TypeOK, PodNext
  PROVE  \/ Next
         \/ UNCHANGED vars
         \/ /\ UNCHANGED <<rows, lists, hash, uploaded, api, worker>>
            /\ mishaps' \in 0..MaxMishaps
         \/ /\ GoDown(Ends)
            /\ UNCHANGED <<rows, lists, hash, uploaded, api>>
            /\ mishaps' \in 0..MaxMishaps
<1> USE DEF TypeOK
<1>1. ASSUME NEW j \in Jobs,
             \/ CreateJob(j) \/ CancelLock(j) \/ Handler(j) \/ EnqueueError(j)
             \/ CreateDrop(j) \/ CancelDrop(j) \/ Age(j) \/ Expire(j)
      PROVE  Next
  BY <1>1 DEF Next
<1>2. ASSUME NEW w \in Workers,
             \/ RunPinned(w) \/ ChildWork(w) \/ ChildReconcile(w)
             \/ ChildDies(w) \/ Raise(w)
      PROVE  Next
  <2>1. Boot(w) \/ Work(w) \/ Reconcile(w) \/ Crash(w) \/ Raise(w)
    BY <1>2 DEF RunPinned, ChildWork, ChildReconcile, ChildDies
  <2> QED BY <2>1 DEF Next
<1>3. ASSUME NEW w \in Workers, ChildExit(w)
      PROVE  /\ GoDown(Ends)
             /\ UNCHANGED <<rows, lists, hash, uploaded, api>>
             /\ mishaps' \in 0..MaxMishaps
  <2>1. /\ pc[w] = "loop" /\ pc' = [pc EXCEPT ![w] = "down"]
        /\ UNCHANGED <<job, todo, seen>>
        /\ UNCHANGED <<rows, lists, hash, uploaded, api, mishaps>>
    BY <1>3 DEF ChildExit, LoopExit, Goto
  <2>2. job[w] = NoJob
    <3>1. "loop" \notin BusySteps
      BY DEF BusySteps, HoldSteps, RunSteps
    <3> QED BY <2>1, <3>1 DEF WorkersOK
  <2>3. "down" \in Steps /\ "loop" \in Ends
    BY DEF Steps, Ends
  <2> QED BY <2>1, <2>2, <2>3 DEF GoDown, WorkersOK, HandlersOK
<1>4. ASSUME Supervisor \/ Sigterm
      PROVE  /\ UNCHANGED <<rows, lists, hash, uploaded, api, worker>>
             /\ mishaps' \in 0..MaxMishaps
  <2>1. CASE Supervise \/ \E w \in Workers : StartChild(w)
    BY <2>1 DEF Supervise, StartChild, vars, HandlersOK
  <2>2. ASSUME NEW w \in Workers, Reap(w)
        PROVE  /\ UNCHANGED <<rows, lists, hash, uploaded, api, worker>>
               /\ mishaps' = mishaps
    BY <2>2 DEF Reap, terminate
  <2>3. CASE Sigterm
    BY <2>3, MishapType DEF Sigterm, terminate
  <2> QED BY <1>4, <2>1, <2>2, <2>3 DEF Supervisor, HandlersOK
<1>5. ASSUME PodKill
      PROVE  /\ GoDown(Ends)
             /\ UNCHANGED <<rows, lists, hash, uploaded, api>>
             /\ mishaps' \in 0..MaxMishaps
  <2>1. "down" \in Steps
    BY DEF Steps
  <2>2. /\ \A w \in Workers : pc[w] \in Ends
        /\ pc' = [w \in Workers |-> "down"]
        /\ job' = [w \in Workers |-> NoJob]
        /\ todo' = [w \in Workers |-> {}]
        /\ seen' = [w \in Workers |-> {}]
        /\ UNCHANGED <<rows, lists, hash, uploaded, api>>
        /\ Mishap
    BY <1>5 DEF PodKill, Ends
  <2> QED BY <2>1, <2>2, MishapType DEF GoDown
<1> QED BY <1>1, <1>2, <1>3, <1>4, <1>5 DEF PodNext

\* Children that go down take nothing of what the pipeline relies on along.
LEMMA GoDownKeeps ==
  ASSUME Inv, NEW From, GoDown(From),
         UNCHANGED <<rows, lists, hash, uploaded, api>>,
         mishaps' \in 0..MaxMishaps
  PROVE  Inv'
<1> USE DEF Inv, TypeOK
<1>1. "down" \notin BusySteps /\ "down" \notin RunSteps
  BY DEF BusySteps, HoldSteps, RunSteps
<1>2. StoresOK' /\ HandlersOK'
  BY StoresKept DEF HandlersOK, api
<1>3. WorkersOK'
  <2>1. ASSUME NEW w \in Workers
        PROVE  /\ job'[w] # NoJob <=> pc'[w] \in BusySteps
               /\ job'[w] \in Foreign => pc'[w] \in {"fetch", "ack"}
    <3>1. NoJob \notin Foreign
      BY ConstantAssumption DEF Ids
    <3>2. CASE pc'[w] = pc[w] /\ job'[w] = job[w]
      BY <3>2 DEF WorkersOK
    <3>3. CASE pc'[w] = "down" /\ job'[w] = NoJob
      BY <1>1, <3>1, <3>3
    <3> QED BY <3>2, <3>3 DEF GoDown
  <2> QED BY <2>1 DEF GoDown, WorkersOK
<1>4. CheckedRowStays'
  BY DEF CheckedRowStays, rows, api
<1>5. \A w \in Workers : pc'[w] \in RunSteps => /\ pc'[w] = pc[w]
                                                /\ job'[w] = job[w]
  BY <1>1 DEF GoDown
<1>6. RowExists'
  BY <1>5 DEF RowExists, rows, api
<1>7. UploadedFirst'
  <2>1. {"complete", "pubdone"} \subseteq RunSteps
    BY DEF RunSteps
  <2> QED BY <1>5, <2>1 DEF UploadedFirst
<1>8. CompletedHasArtifact'
  BY DEF CompletedHasArtifact, rows, hash
<1> QED BY <1>2, <1>3, <1>4, <1>6, <1>7, <1>8

\* Nor a queued job, if none of them had one in hand.
LEMMA GoDownFinds ==
  ASSUME QueueInv, NEW From, From \cap HandSteps = {}, GoDown(From),
         UNCHANGED <<rows, lists, api>>
  PROVE  QueueInv'
<1> USE DEF QueueInv
<1>1. UNCHANGED <<status, processing, cancel>> /\ Entries' = Entries
  BY DEF rows, lists, api, Entries
<1>2. ListedHasRow'
  BY <1>1 DEF GoDown, ListedHasRow
<1>3. DequeuedEnded'
  BY <1>1 DEF DequeuedEnded
<1>4. \A j \in Jobs : Handled(j) => Handled(j)'
  BY DEF GoDown, Handled
<1>5. Findable'
  BY <1>1, <1>4 DEF Findable
<1> QED BY <1>2, <1>3, <1>5

\* The invariant of the pipeline is kept by every step of the pod.
LEMMA PodInv ==
  ASSUME Inv, [PodNext]_all PROVE Inv'
<1>1. CASE UNCHANGED all
  BY <1>1, InvNext DEF all
<1>2. CASE PodNext
  <2>1. TypeOK
    BY DEF Inv
  <2>2. CASE Next \/ UNCHANGED vars
    BY <2>2, InvNext
  <2>3. CASE /\ UNCHANGED <<rows, lists, hash, uploaded, api, worker>>
             /\ mishaps' \in 0..MaxMishaps
    <3>1. GoDown({})
      BY <2>1, <2>3 DEF GoDown, TypeOK, WorkersOK, worker
    <3> QED BY <2>3, <3>1, GoDownKeeps
  <2>4. CASE /\ GoDown(Ends)
             /\ UNCHANGED <<rows, lists, hash, uploaded, api>>
             /\ mishaps' \in 0..MaxMishaps
    BY <2>4, GoDownKeeps
  <2> QED BY <1>2, <2>1, <2>2, <2>3, <2>4, PodSteps
<1> QED BY <1>1, <1>2

\* So is the invariant of the lists, if no child dies with a queued job in
\* hand.
LEMMA PodQueueInv ==
  ASSUME CrashPoints \cap HandSteps = {}, Inv, Inv', QueueInv, [PodNext]_all
  PROVE  QueueInv'
<1>1. Next => QueueInv'
  BY QueueHandlers, QueueWorkers DEF Next
<1>2. UNCHANGED vars => QueueInv'
  BY QueueStutter
<1>3. Ends \cap HandSteps = {}
  BY HandStepsAre DEF Ends
<1>4. CASE UNCHANGED all
  BY <1>2, <1>4 DEF all
<1>5. CASE PodNext
  <2>1. TypeOK
    BY DEF Inv
  <2>2. CASE /\ UNCHANGED <<rows, lists, hash, uploaded, api, worker>>
             /\ mishaps' \in 0..MaxMishaps
    <3>1. GoDown({})
      BY <2>1, <2>2 DEF GoDown, TypeOK, WorkersOK, worker
    <3> QED BY <2>2, <3>1, GoDownFinds
  <2>3. CASE /\ GoDown(Ends)
             /\ UNCHANGED <<rows, lists, hash, uploaded, api>>
    BY <1>3, <2>3, GoDownFinds
  <2> QED BY <1>1, <1>2, <1>5, <2>1, <2>2, <2>3, PodSteps
<1> QED BY <1>4, <1>5

-----------------------------------------------------------------------------
(***************************************************************************)
(* Theorems.                                                               *)
(***************************************************************************)

\* What is proved of the pipeline's states holds of it in the pod, whatever
\* children die and whenever k8s stops or kills the pod: the types, the
\* atomic Update, and that nothing is called completed before its adapter is
\* in Garage.
THEOREM PodInvariance == PodSpec => []Inv
<1>1. PodInit => Inv
  BY InvInit DEF PodInit
<1> QED BY <1>1, PodInv, PTL DEF PodSpec

\* A restart of the whole pod leaves no queued job hidden in jobs:processing
\* either, provided it does not kill a child between its claim and
\* mark_running, nor between reset_to_queued and requeue.
THEOREM PodFindable ==
  CrashPoints \cap HandSteps = {} => (PodSpec => []NeverStranded)
<1> SUFFICES ASSUME CrashPoints \cap HandSteps = {}
             PROVE  PodSpec => []NeverStranded
  OBVIOUS
<1>1. PodInit => QueueInv
  BY QueueInit DEF PodInit
<1>2. Inv /\ Inv' /\ QueueInv /\ [PodNext]_all => QueueInv'
  BY PodQueueInv
<1>3. PodSpec => []QueueInv
  BY <1>1, <1>2, PodInvariance, PTL DEF PodSpec
<1>4. QueueInv => NeverStranded
  BY FindableKept
<1> QED BY <1>3, <1>4, PTL

\* The pipeline in the pod implements the life cycle: stopping, reaping and
\* killing children moves no job.
THEOREM PodRefines == PodSpec => RefinesLifecycle
<1>1. PodInit => Lifecycle!Init
  BY DEF PodInit, Init, Lifecycle!Init
<1>2. Inv /\ [PodNext]_all => [Lifecycle!Next]_(Lifecycle!lifecycleVars)
  <2> SUFFICES ASSUME Inv, [PodNext]_all
               PROVE  [Lifecycle!Next]_<<status, uploaded>>
    BY DEF Lifecycle!lifecycleVars
  <2>1. CASE UNCHANGED all
    BY <2>1 DEF all, vars, rows
  <2>2. CASE PodNext
    <3>1. Next => [Lifecycle!Next]_<<status, uploaded>>
      BY StepRefines
    <3>2. TypeOK
      BY DEF Inv
    <3> QED BY <2>2, <3>1, <3>2, PodSteps DEF vars, rows
  <2> QED BY <2>1, <2>2
<1> QED BY <1>1, <1>2, PodInvariance, PTL DEF PodSpec, RefinesLifecycle,
           Lifecycle!Spec

\* Neither a sibling that exits nor a SIGTERM to the pod ends a child that
\* has a job in hand: a child goes down with a job only if the process is
\* killed ("shutting down after current job", launcher.py).
THEOREM StoppingWaits == PodSpec => StopFinishesJob
<1> DEFINE Cut == \A w \in Workers :
                     job[w] # NoJob /\ pc'[w] = "down"
                       => mishaps' > mishaps /\ (stopping' => stopping)
<1>1. TypeOK /\ [PodNext]_all => [Cut]_all
  <2> SUFFICES ASSUME TypeOK, PodNext, NEW w \in Workers,
                      job[w] # NoJob, pc'[w] = "down"
               PROVE  mishaps' > mishaps /\ (stopping' => stopping)
    OBVIOUS
  <2>1. /\ pc \in [Workers -> Steps] /\ pc[w] \in BusySteps
        /\ mishaps \in Nat
    BY ConstantAssumption DEF TypeOK, WorkersOK, HandlersOK
  <2>2. pc[w] \notin {"down", "loop"}
    BY <2>1 DEF BusySteps, HoldSteps, RunSteps
  <2>3. CASE UNCHANGED pc
    BY <2>2, <2>3
  <2>4. ASSUME NEW j \in Jobs,
               \/ CreateJob(j) \/ CancelLock(j) \/ Handler(j)
               \/ EnqueueError(j) \/ CreateDrop(j) \/ CancelDrop(j)
               \/ Age(j) \/ Expire(j)
        PROVE  UNCHANGED pc
    BY <2>4 DEF CreateJob, CancelLock, Handler, EnqueueError, CreateDrop,
       CancelDrop, Age, Expire, Enqueue, MarkFailedLock, MarkFailedCommit,
       CancelCommit, CancelDequeue, worker
  <2>5. Supervisor \/ Sigterm => UNCHANGED pc
    BY DEF Supervisor, Supervise, StartChild, Reap, Sigterm, terminate, vars,
       worker
  <2>6. CASE PodKill
    BY <2>1, <2>6 DEF PodKill, Mishap
  <2>7. ASSUME NEW v \in Workers, RunPinned(v) \/ ChildExit(v)
        PROVE  FALSE
    BY <2>1, <2>2, <2>7 DEF RunPinned, Boot, ChildExit, LoopExit, Goto
  <2>8. ASSUME NEW v \in Workers, ChildDies(v)
        PROVE  mishaps' > mishaps /\ (stopping' => stopping)
    BY <2>1, <2>8 DEF ChildDies, Crash, Mishap
  <2>9. ASSUME NEW v \in Workers,
               ChildWork(v) \/ ChildReconcile(v) \/ Raise(v)
        PROVE  FALSE
    <3>1. Work(v) \/ Reconcile(v) \/ Raise(v)
      BY <2>9 DEF ChildWork, ChildReconcile
    <3>2. ASSUME NEW next, Goto(v, next), next # "down" PROVE FALSE
      BY <2>1, <2>2, <3>2 DEF Goto
    <3>3. CASE PublishHeartbeat(v)
      <4>1. PICK next \in AfterHeartbeat(pc[v]) : Goto(v, next)
        BY <3>3 DEF PublishHeartbeat
      <4>2. next # "down"
        BY <3>3, <4>1 DEF PublishHeartbeat, AfterHeartbeat
      <4> QED BY <3>2, <4>1, <4>2
    <3>4. CASE Heartbeat(v)
      BY <2>1, <2>2, <3>4 DEF Heartbeat, Goto
    <3>5. CASE \/ LoopTest(v) \/ Claim(v) \/ ClaimTimeout(v)
               \/ TickReconcile(v) \/ TickLoop(v) \/ MarkRunning(v)
               \/ PublishRunning(v) \/ Validate(v) \/ Upload(v)
               \/ MarkCompleted(v) \/ MarkFailed(v) \/ PublishFailed(v)
               \/ Ack(v) \/ Raise(v) \/ ResetToQueued(v)
               \/ PublishQueued(v) \/ QueuedIds(v)
      BY <3>2, <3>5 DEF LoopTest, Claim, ClaimTimeout, TickReconcile,
         TickLoop, MarkRunning, PublishRunning, Validate, Upload,
         MarkCompleted, MarkFailed, PublishFailed, Ack, Raise,
         ResetToQueued, PublishQueued, QueuedIds
    <3>6. CASE \/ Fetch(v) \/ PublishCompleted(v) \/ FindStale(v)
               \/ RequeueStale(v) \/ FindOrphans(v) \/ InFlightIds(v)
               \/ RequeueOrphan(v)
      BY <2>1, <2>2, <3>6 DEF Fetch, PublishCompleted, FindStale,
         RequeueStale, FindOrphans, InFlightIds, RequeueOrphan, Goto
    <3> QED BY <3>1, <3>3, <3>4, <3>5, <3>6 DEF Work, Reconcile
  <2> QED BY <2>3, <2>4, <2>5, <2>6, <2>7, <2>8, <2>9 DEF PodNext
<1>2. Inv => TypeOK
  BY DEF Inv
<1> QED BY <1>1, <1>2, PodInvariance, PTL DEF PodSpec, StopFinishesJob
=============================================================================
