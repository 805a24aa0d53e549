------------------------- MODULE OneExecutorProofs -------------------------
(***************************************************************************)
(* Proofs about the pipeline on a calm day, with any number of workers: no *)
(* worker dies with a job in hand, no phase outlasts its window and of the *)
(* faults only the reply to an LPUSH may be lost.  Then two workers never  *)
(* execute the same job, and an active job is queued once.                 *)
(***************************************************************************)
EXTENDS QueueProofs

Calm == /\ CrashPoints \cap BusySteps = {}
        /\ Slow = {}
        /\ Faults \subseteq {"lpush_reply"}

(***************************************************************************)
(* The inductive invariant.                                                *)
(***************************************************************************)

\* The steps of a worker that executes its job, or has failed to.
ExecSteps == RunSteps \cup {"fail", "pubfail"}

\* No other worker holds the job of w.
Alone(w) == \A v \in Workers \ {w} : job[v] # job[w]

\* What a worker relies on, by its step: an executed job is its alone, in
\* flight, not queued and about to be pushed by nobody; so is a claimed one if
\* it is active; a job to be acked has ended; an id the orphan check does not
\* find has ended; nobody recovers stale rows.
Relies(w) ==
    /\ pc[w] \notin RecoverSteps
    /\ pc[w] \in ExecSteps =>
          /\ Alone(w) /\ job[w] \in processing /\ job[w] \notin Entries
          /\ \A v \in Workers : pc[v] = "push" => job[w] \notin todo[v]
    /\ pc[w] = "fetch" /\ Active(job[w]) => Alone(w) /\ job[w] \in processing
    /\ pc[w] = "ack" /\ job[w] \in Jobs => status[job[w]] \in Terminal
    /\ pc[w] = "lookq" => \A i \in todo[w] :
          i \in Entries \cup processing \/ status[i] \in Terminal
    /\ pc[w] = "lookp" => \A i \in todo[w] :
          i \in seen[w] \cup processing \/ status[i] \in Terminal
    /\ pc[w] = "push" => \A i \in todo[w] : status[i] \in Terminal

\* A queued job is in a list from its LPUSH on.
QueuedIsListed ==
    \A j \in Jobs : Pushed(j) /\ status[j] = "queued"
                      => j \in Entries \cup processing

\* A running job is in the hands of a worker that renews it in time.
RunningIsHeld ==
    \A j \in Jobs : status[j] = "running" =>
        /\ ~old[j]
        /\ \E w \in Workers : job[w] = j /\ pc[w] \in WriteSteps

\* An active job has one entry in one list.
OneEntry ==
    \A j \in Jobs : Active(j) => /\ Once(queue, j)
                                 /\ ~(j \in Entries /\ j \in processing)

CalmInv ==
    /\ KnownPushed /\ QueuedIsListed /\ RunningIsHeld /\ OneEntry /\ RowFollows
    /\ \A w \in Workers : Relies(w)

\* A job in execution has a row.
LEMMA ExecutedJob ==
  ASSUME Inv, NEW w \in Workers, pc[w] \in ExecSteps
  PROVE  job[w] \in Jobs
BY HeldJob DEF ExecSteps, Inv, TypeOK

-----------------------------------------------------------------------------
(***************************************************************************)
(* Every step keeps it.                                                    *)
(***************************************************************************)

\* The steps of the backend and of time.
LEMMA CalmHandlers ==
  ASSUME Calm, Inv, DequeuedEnded, CalmInv, KnownPushed', NEW j \in Jobs,
         \/ CreateJob(j) \/ CancelLock(j) \/ Handler(j) \/ EnqueueError(j)
         \/ CreateDrop(j) \/ CancelDrop(j) \/ Age(j) \/ Expire(j)
  PROVE  CalmInv'
<1> DEFINE Known(i) == create[i] \notin {"idle", "enqueue"}
<1>1. /\ pc' = pc /\ job' = job /\ todo' = todo /\ seen' = seen
      /\ processing' = processing
      /\ \A i \in Jobs \ {j} : /\ status'[i] = status[i]
                               /\ old'[i] = old[i] /\ create'[i] = create[i]
      /\ \/ status'[j] = status[j]
         \/ /\ status[j] = "absent" /\ status'[j] = "queued"
            /\ create[j] = "idle"
         \/ status'[j] \in {"failed", "cancelled"}
      /\ old'[j] => old[j] \/ Age(j)
      /\ \/ create'[j] = create[j]
         \/ create'[j] = "enqueue"
         \/ create'[j] \notin {"idle", "enqueue"} /\ status[j] # "absent"
  BY HandlerEffects DEF worker
<1>2. /\ \/ Entries' = Entries
         \/ Entries' = Entries \cup {j} /\ create[j] = "enqueue"
         \/ Entries' = Entries \ {j} /\ status[j] \in Terminal
      /\ \A i \in Jobs : Once(queue, i)
                            /\ ~(create[i] = "enqueue" /\ i \in Entries)
                            => Once(queue', i)
  BY HandlerEntries
<1>3. /\ \A i \in Jobs : i \in Entries \cup processing => Known(i)
      /\ \A w \in Workers : /\ \A i \in todo[w] : Known(i)
                            /\ job[w] \in Jobs => Known(job[w])
  BY DEF CalmInv, KnownPushed, Pushed
<1>4. \A i \in Jobs : /\ Known(i) => /\ i \in Entries' => i \in Entries
                                     /\ Active(i)' => Active(i)
                      /\ status[i] \in Terminal => status'[i] \in Terminal
                      /\ status[i] = "running"
                           => status'[i] \in {"running"} \cup Terminal
                      /\ status'[i] = "running" => status[i] = "running"
  BY <1>1, <1>2 DEF Active, isActiveStatus, Terminal
<1>5. \A w \in Workers : todo[w] \subseteq Jobs
  BY DEF Inv, TypeOK, WorkersOK
<1>6. OneEntry'
  <2> SUFFICES ASSUME NEW i \in Jobs, Active(i)'
               PROVE  /\ Once(queue', i)
                      /\ ~(i \in Entries' /\ i \in processing')
    BY DEF OneEntry
  <2>1. CASE Known(i)
    BY <1>1, <1>2, <1>4, <2>1 DEF CalmInv, OneEntry
  <2>2. CASE ~Known(i)
    <3>1. i \notin Entries /\ i \notin processing
      BY <1>3, <2>2
    <3>2. Once(queue, i)
      BY <3>1 DEF Once, Entries
    <3> QED BY <1>1, <1>2, <3>1, <3>2
  <2> QED BY <2>1, <2>2
<1>7. QueuedIsListed'
  <2> SUFFICES ASSUME NEW i \in Jobs, Pushed(i)', status'[i] = "queued"
               PROVE  i \in Entries' \cup processing'
    BY DEF QueuedIsListed
  <2>1. create[j] = "enqueue" /\ Pushed(j)' => j \in Entries'
    <3> SUFFICES ASSUME create[j] = "enqueue", Pushed(j)' PROVE j \in Entries'
      OBVIOUS
    <3>1. Enqueue(j) \/ EnqueueError(j)
      BY DEF Calm, CreateJob, CancelLock, Handler, MarkFailedLock,
         MarkFailedCommit, CancelCommit, CancelDequeue, CreateDrop,
         CancelDrop, Age, Expire, api, Pushed
    <3>2. queue' = LPUSH(queue, j)
      BY <3>1 DEF Calm, Enqueue, EnqueueError
    <3>3. Entries' = Elements(queue') /\ queue \in Seq(Ids) /\ j \in Ids
      BY DEF Entries, Elements, Inv, TypeOK, StoresOK, Ids
    <3> QED BY <3>2, <3>3, LpushElements
  <2>2. CASE i = j /\ create[j] = "enqueue"
    BY <2>1, <2>2
  <2>3. CASE ~(i = j /\ create[j] = "enqueue")
    <3>1. Pushed(i) /\ status[i] = "queued"
      <4>1. create[i] = "idle" => status[i] = "absent"
        BY DEF Inv, RowExists
      <4> QED BY <1>1, <2>3, <4>1 DEF Pushed
    <3>2. i \in Entries \cup processing /\ status[i] \notin Terminal
      BY <3>1 DEF CalmInv, QueuedIsListed, Terminal
    <3> QED BY <1>1, <1>2, <3>2
  <2> QED BY <2>2, <2>3
<1>8. RunningIsHeld'
  <2> SUFFICES ASSUME NEW i \in Jobs, status'[i] = "running"
               PROVE  /\ ~old'[i]
                      /\ \E w \in Workers : job[w] = i /\ pc[w] \in WriteSteps
    BY <1>1 DEF RunningIsHeld
  <2>1. status[i] = "running" /\ ~old[i]
    BY <1>4 DEF CalmInv, RunningIsHeld
  <2>2. PICK w \in Workers : job[w] = i /\ pc[w] \in WriteSteps
    BY <2>1 DEF CalmInv, RunningIsHeld
  <2>3. pc[w] \in RunSteps \cup {"fail"} /\ pc[w] \notin Slow
    BY <2>2 DEF WriteSteps, Calm
  <2>4. i = j => ~Age(j)
    BY <2>1, <2>2, <2>3 DEF Age
  <2> QED BY <1>1, <2>1, <2>2, <2>4
<1>9. RowFollows'
  <2> SUFFICES ASSUME NEW w \in Workers
               PROVE  /\ pc[w] \in WriteSteps
                           => status'[job[w]] \in {"running"} \cup Terminal
                      /\ pc[w] \in WrittenSteps
                           => status'[job[w]] \in Terminal
    BY <1>1 DEF RowFollows
  <2>1. pc[w] \in WriteSteps \cup WrittenSteps => job[w] \in Jobs
    BY HeldJob DEF WriteSteps, WrittenSteps, RunSteps, Inv, TypeOK
  <2> QED BY <1>4, <2>1 DEF CalmInv, RowFollows
<1>10. ASSUME NEW w \in Workers PROVE Relies(w)'
  <2>1. Relies(w)
    BY DEF CalmInv
  <2>2. pc[w] \in ExecSteps => job[w] \in Jobs
    BY ExecutedJob
  <2>3. /\ job[w] \in Jobs /\ job[w] \in Entries' => job[w] \in Entries
        /\ Active(job[w])' => Active(job[w])
    BY <1>1, <1>3, <1>4 DEF Active
  <2>4. \A i \in todo[w] :
           /\ status[i] \in Terminal => status'[i] \in Terminal
           /\ i \in Entries => i \in Entries' \/ status[i] \in Terminal
    BY <1>2, <1>4, <1>5
  <2>5. Alone(w)' <=> Alone(w)
    BY <1>1 DEF Alone
  <2> QED BY <1>1, <1>4, <2>1, <2>2, <2>3, <2>4, <2>5 DEF Relies, Active
<1> QED BY <1>6, <1>7, <1>8, <1>9, <1>10 DEF CalmInv

\* What a step of w may not do to the other workers: take a job in flight out
\* of jobs:processing while it is active or executed, lose an entry, or queue,
\* claim or push a job that is executed.
LEMMA CalmOthers ==
  ASSUME Inv, CalmInv, NEW w \in Workers,
         \A v \in Workers \ {w} : /\ pc'[v] = pc[v] /\ job'[v] = job[v]
                                  /\ todo'[v] = todo[v] /\ seen'[v] = seen[v],
         UNCHANGED create,
         \A i \in Jobs : /\ status[i] \in Terminal => status'[i] \in Terminal
                         /\ status'[i] = "queued" => status[i] = "queued"
                         /\ Active(i)' => Active(i),
         \A i \in Jobs : i \in processing \ processing' =>
            /\ status[i] \in Terminal
            /\ \A v \in Workers \ {w} : job[v] = i => pc[v] \notin ExecSteps,
         \A i \in Jobs : i \in Entries \ Entries' => i \in processing',
         \A i \in Jobs : i \in Entries' \ Entries =>
            \A v \in Workers \ {w} : job[v] = i => pc[v] \notin ExecSteps,
         \A v \in Workers \ {w} :
            /\ pc[v] \in ExecSteps => job'[w] # job[v]
            /\ pc[v] = "fetch" /\ Active(job[v]) => job'[w] # job[v],
         pc'[w] = "push" =>
            \A v \in Workers \ {w} : pc[v] \in ExecSteps => job[v] \notin todo'[w]
  PROVE  /\ QueuedIsListed'
         /\ \A v \in Workers \ {w} : Relies(v)'
<1>1. QueuedIsListed'
  <2>1. \A i \in Jobs : status[i] = "queued" => status[i] \notin Terminal
    BY DEF Terminal
  <2> QED BY <2>1 DEF QueuedIsListed, CalmInv, Pushed
<1>2. ASSUME NEW v \in Workers \ {w} PROVE Relies(v)'
  <2>1. Relies(v) /\ todo[v] \subseteq Jobs
    BY DEF CalmInv, Inv, TypeOK, WorkersOK
  <2>2. pc[v] \in ExecSteps => job[v] \in Jobs
    BY ExecutedJob
  <2>3. pc[v] \in ExecSteps =>
           /\ Alone(v)' /\ job[v] \in processing' /\ job[v] \notin Entries'
           /\ \A u \in Workers : pc'[u] = "push" => job[v] \notin todo'[u]
    <3> SUFFICES ASSUME pc[v] \in ExecSteps
                 PROVE  /\ Alone(v)' /\ job[v] \in processing'
                        /\ job[v] \notin Entries'
                        /\ \A u \in Workers :
                              pc'[u] = "push" => job[v] \notin todo'[u]
      OBVIOUS
    <3>1. /\ Alone(v) /\ job[v] \in processing /\ job[v] \notin Entries
          /\ \A u \in Workers : pc[u] = "push" => job[v] \notin todo[u]
      BY <2>1 DEF Relies
    <3>2. Alone(v)'
      BY <3>1 DEF Alone
    <3>3. job[v] \in processing' /\ job[v] \notin Entries'
      BY <2>2, <3>1
    <3>4. \A u \in Workers : pc'[u] = "push" => job[v] \notin todo'[u]
      BY <3>1
    <3> QED BY <3>2, <3>3, <3>4
  <2>4. pc[v] = "fetch" /\ Active(job[v])'
           => Alone(v)' /\ job[v] \in processing'
    <3> SUFFICES ASSUME pc[v] = "fetch", Active(job[v])'
                 PROVE  Alone(v)' /\ job[v] \in processing'
      OBVIOUS
    <3>1. job'[v] = job[v]
      OBVIOUS
    <3>2. job[v] \in Jobs /\ Active(job[v])
      BY <3>1 DEF Active
    <3>3. Alone(v) /\ job[v] \in processing
      BY <2>1, <3>2 DEF Relies
    <3>4. status[job[v]] \notin Terminal
      BY <3>2 DEF Active, isActiveStatus, Terminal
    <3>5. Alone(v)'
      BY <3>2, <3>3 DEF Alone
    <3> QED BY <3>2, <3>3, <3>4, <3>5
  <2>5. pc[v] = "ack" /\ job[v] \in Jobs => status'[job[v]] \in Terminal
    BY <2>1 DEF Relies
  <2>6. /\ pc[v] = "lookq" => \A i \in todo[v] :
              i \in Entries' \cup processing' \/ status'[i] \in Terminal
        /\ pc[v] = "lookp" => \A i \in todo[v] :
              i \in seen[v] \cup processing' \/ status'[i] \in Terminal
        /\ pc[v] = "push" => \A i \in todo[v] : status'[i] \in Terminal
    BY <2>1 DEF Relies
  <2>7. pc[v] \notin RecoverSteps
    BY <2>1 DEF Relies
  <2> QED BY <2>3, <2>4, <2>5, <2>6, <2>7 DEF Relies
<1> QED BY <1>1, <1>2

\* The steps of the workers.
LEMMA CalmWorkers ==
  ASSUME Calm, Inv, CalmInv, KnownPushed', NEW w \in Workers,
         \/ Boot(w) \/ Work(w) \/ Reconcile(w) \/ Stop(w) \/ Raise(w) \/ Crash(w)
  PROVE  CalmInv'
<1>1. /\ pc \in [Workers -> Steps] /\ job \in [Workers -> Ids \cup {NoJob}]
      /\ todo \in [Workers -> SUBSET Jobs] /\ seen \in [Workers -> SUBSET Ids]
      /\ status \in [Jobs -> Statuses \cup {"absent"}]
      /\ old \in [Jobs -> BOOLEAN]
      /\ queue \in Seq(Ids) /\ Jobs \subseteq Ids
  BY DEF Inv, TypeOK, WorkersOK, StoresOK, Ids
<1>2. pc[w] \in ExecSteps => job[w] \in Jobs
  BY ExecutedJob
<1>3. /\ Terminal = {"completed", "failed", "cancelled"}
      /\ Statuses = {"queued", "running"} \cup Terminal
      /\ \A i : Active(i) <=> i \in Jobs /\ status[i] \in {"queued", "running"}
      /\ \A i : Active(i)' <=> i \in Jobs /\ status'[i] \in {"queued", "running"}
  BY DEF Terminal, Statuses, Active, isActiveStatus
<1>4. /\ Relies(w)
      /\ pc[w] \notin BusySteps => job[w] = NoJob
      /\ NoJob \notin Ids
      /\ pc[w] \in WriteSteps => status[job[w]] \in {"running"} \cup Terminal
      /\ pc[w] \in WrittenSteps => status[job[w]] \in Terminal
  BY ConstantAssumption DEF CalmInv, RowFollows, Inv, TypeOK, WorkersOK
<1>5. Entries = Elements(queue) /\ Entries' = Elements(queue')
  BY DEF Entries, Elements
<1>6. /\ UNCHANGED create
      /\ \A v \in Workers \ {w} : /\ pc'[v] = pc[v] /\ job'[v] = job[v]
                                  /\ todo'[v] = todo[v] /\ seen'[v] = seen[v]
      /\ \A i \in Jobs : old'[i] => old[i]
      /\ \A i \in Jobs : status[i] \in Terminal => status'[i] = status[i]
  BY WorkerEffects, RowsForward DEF Next, api
<1>7. \A v \in Workers \ {w} : pc[v] \in ExecSteps =>
         job[v] \in Jobs /\ job[v] \notin Entries /\ job[w] # job[v]
  BY ExecutedJob DEF CalmInv, Relies, Alone
<1> USE DEF HoldSteps, RecoverSteps, RunSteps, ExecSteps, WriteSteps,
            WrittenSteps
<1>8. ASSUME UNCHANGED <<status, lists>>, job'[w] \in {job[w], NoJob},
             job[w] # NoJob => job'[w] = job[w],
             pc'[w] = "push" => \A i \in todo'[w] : i \notin processing,
             pc[w] \in WriteSteps => pc'[w] \in WriteSteps,
             pc'[w] \in WriteSteps => pc[w] \in WriteSteps \cup WrittenSteps,
             pc'[w] \in WrittenSteps => pc[w] \in WrittenSteps,
             Relies(w)'
      PROVE  CalmInv'
  <2>1. Entries' = Entries /\ queue' = queue /\ processing' = processing
    BY <1>8 DEF Entries, lists
  <2>2. \A i : Active(i)' <=> Active(i)
    BY <1>3, <1>8
  <2>3. \A v \in Workers \ {w} :
            /\ pc[v] \in ExecSteps => job'[w] # job[v]
            /\ pc[v] = "fetch" /\ Active(job[v]) => job'[w] # job[v]
    <3>1. ASSUME NEW v \in Workers \ {w},
                 pc[v] \in ExecSteps \/ (pc[v] = "fetch" /\ Active(job[v]))
          PROVE  job'[w] # job[v]
      <4>1. job[v] \in Jobs /\ job[w] # job[v]
        BY <1>7, <3>1 DEF Active, CalmInv, Relies, Alone
      <4> QED BY <1>1, <1>4, <1>8, <4>1
    <3> QED BY <3>1
  <2>4. pc'[w] = "push" =>
            \A v \in Workers \ {w} : pc[v] \in ExecSteps => job[v] \notin todo'[w]
    BY <1>8 DEF CalmInv, Relies
  <2>5. QueuedIsListed' /\ \A v \in Workers \ {w} : Relies(v)'
    <3>1. \A i \in Jobs : /\ i \in processing \ processing' => FALSE
                          /\ i \in Entries \ Entries' => FALSE
                          /\ i \in Entries' \ Entries => FALSE
      BY <2>1
    <3>2. \A i \in Jobs : /\ status[i] \in Terminal => status'[i] \in Terminal
                          /\ status'[i] = "queued" => status[i] = "queued"
                          /\ Active(i)' => Active(i)
      BY <1>8, <2>2
    <3> HIDE DEF HoldSteps, RecoverSteps, RunSteps, ExecSteps
    <3> QED BY <1>6, <2>3, <2>4, <3>1, <3>2, CalmOthers
  <2>6. OneEntry'
    BY <2>1, <2>2 DEF CalmInv, OneEntry
  <2>7. RunningIsHeld'
    <3> SUFFICES ASSUME NEW i \in Jobs, status'[i] = "running"
                 PROVE  /\ ~old'[i]
                        /\ \E u \in Workers : job'[u] = i /\ pc'[u] \in WriteSteps
      BY DEF RunningIsHeld
    <3>1. ~old[i] /\ \E u \in Workers : job[u] = i /\ pc[u] \in WriteSteps
      BY <1>8 DEF CalmInv, RunningIsHeld
    <3>2. PICK u \in Workers : job[u] = i /\ pc[u] \in WriteSteps
      BY <3>1
    <3>3. job[u] # NoJob
      BY <1>1, <1>4, <3>2
    <3>4. job'[u] = i /\ pc'[u] \in WriteSteps
      BY <1>6, <1>8, <3>2, <3>3
    <3> QED BY <1>6, <3>1, <3>4
  <2>8. RowFollows'
    <3>1. ASSUME NEW v \in Workers \ {w}
          PROVE  /\ pc'[v] \in WriteSteps
                      => status'[job'[v]] \in {"running"} \cup Terminal
                 /\ pc'[v] \in WrittenSteps => status'[job'[v]] \in Terminal
      BY <1>6, <1>8 DEF CalmInv, RowFollows
    <3>2. pc[w] \in WriteSteps \cup WrittenSteps => job'[w] = job[w]
      BY <1>1, <1>2, <1>4, <1>8
    <3>3. /\ pc'[w] \in WriteSteps
                 => status'[job'[w]] \in {"running"} \cup Terminal
          /\ pc'[w] \in WrittenSteps => status'[job'[w]] \in Terminal
      BY <1>4, <1>8, <3>2
    <3> QED BY <3>1, <3>3 DEF RowFollows
  <2> QED BY <1>8, <2>5, <2>6, <2>7, <2>8 DEF CalmInv
<1>a. CASE \/ Boot(w) \/ LoopTest(w) \/ ClaimTimeout(w) \/ TickReconcile(w)
           \/ TickLoop(w) \/ Stop(w) \/ Crash(w)
  <2>1. /\ UNCHANGED <<status, lists>> /\ job'[w] \in {job[w], NoJob}
        /\ pc'[w] \in {"stale", "claim", "tick", "loop", "down"}
        /\ pc[w] \notin BusySteps
    BY <1>1, <1>a DEF Calm, Boot, LoopTest, ClaimTimeout, TickReconcile,
       TickLoop, Stop, LoopExit, Crash, Goto, rows, BusySteps
  <2>2. Relies(w)'
    BY <2>1 DEF Relies
  <2> QED BY <1>4, <1>8, <2>1, <2>2 DEF BusySteps
<1>b. CASE \/ PublishRunning(w) \/ Validate(w) \/ PublishHeartbeat(w)
           \/ Upload(w) \/ PublishCompleted(w) \/ PublishFailed(w) \/ Raise(w)
  <2>1. /\ UNCHANGED <<status, lists, job, todo>> /\ pc[w] \in ExecSteps
        /\ \/ pc[w] \in WriteSteps /\ pc'[w] \in WriteSteps
           \/ pc[w] = "pubdone" /\ pc'[w] = "fail"
           \/ pc[w] \in WrittenSteps /\ pc'[w] = "ack"
    BY <1>1, <1>b DEF PublishRunning, Validate, PublishHeartbeat,
       AfterHeartbeat, Upload, PublishCompleted, PublishFailed, Raise, Goto,
       rows, Calm
  <2>2. Relies(w)'
    <3>1. /\ Alone(w) /\ job[w] \in processing /\ job[w] \notin Entries
          /\ \A v \in Workers : pc[v] = "push" => job[w] \notin todo[v]
      BY <1>4, <2>1 DEF Relies
    <3>2. /\ Alone(w)' /\ job[w] \in processing' /\ job[w] \notin Entries'
          /\ \A v \in Workers : pc'[v] = "push" => job[w] \notin todo'[v]
      BY <1>6, <2>1, <3>1 DEF Alone, Entries, lists
    <3>3. pc'[w] = "ack" => status'[job[w]] \in Terminal
      BY <1>4, <2>1
    <3> QED BY <2>1, <3>2, <3>3 DEF Relies
  <2> QED BY <1>8, <2>1, <2>2
<1>c. CASE Fetch(w)
  <2>1. /\ UNCHANGED <<status, lists, job, todo>> /\ pc[w] = "fetch"
        /\ pc'[w] = IF Active(job[w]) THEN "start" ELSE "ack"
    BY <1>1, <1>c DEF Fetch, Goto, rows, Active
  <2>2. job[w] \in Jobs => status[job[w]] # "absent"
    BY DEF CalmInv, KnownPushed, Pushed, Inv, RowExists
  <2>3. CASE Active(job[w])
    <3>1. /\ Alone(w) /\ job[w] \in processing /\ job[w] \in Jobs
          /\ status[job[w]] \in {"queued", "running"}
      BY <1>3, <1>4, <2>1, <2>3 DEF Relies
    <3>2. job[w] \notin Entries
      BY <2>3, <3>1 DEF CalmInv, OneEntry
    <3>3. \A v \in Workers : pc[v] = "push" => job[w] \notin todo[v]
      BY <1>3, <3>1 DEF CalmInv, Relies
    <3>4. /\ Alone(w)' /\ job[w] \in processing' /\ job[w] \notin Entries'
          /\ \A v \in Workers : pc'[v] = "push" => job[w] \notin todo'[v]
      BY <1>6, <2>1, <2>3, <3>1, <3>2, <3>3 DEF Alone, Entries, lists
    <3>5. Relies(w)'
      BY <2>1, <2>3, <3>4 DEF Relies
    <3> QED BY <1>8, <2>1, <2>3, <3>5
  <2>4. CASE ~Active(job[w])
    <3>1. job[w] \in Jobs => status[job[w]] \in Terminal
      BY <1>1, <1>3, <2>2, <2>4
    <3>2. Relies(w)'
      BY <2>1, <2>4, <3>1 DEF Relies
    <3> QED BY <1>8, <2>1, <2>4, <3>2
  <2> QED BY <2>3, <2>4
<1>d. CASE FindStale(w)
  <2>1. {j \in Jobs : status[j] = "running" /\ old[j]} = {}
    BY DEF CalmInv, RunningIsHeld
  <2>2. /\ UNCHANGED <<status, lists, job>> /\ pc[w] = "stale"
        /\ pc'[w] = "orphan"
    BY <1>1, <1>d, <2>1 DEF FindStale, Goto, rows
  <2>3. Relies(w)'
    BY <2>2 DEF Relies
  <2> QED BY <1>8, <2>2, <2>3
<1>e. CASE FindOrphans(w)
  <2>1. /\ UNCHANGED <<status, lists, job>> /\ pc[w] = "orphan"
        /\ pc'[w] \in {"loop", "lookq"}
        /\ \A i \in todo'[w] : i \in Jobs /\ status[i] = "queued" /\ old[i]
    BY <1>1, <1>e DEF FindOrphans, Goto, rows
  <2>2. \A i \in todo'[w] : i \in Entries' \cup processing'
    BY <2>1 DEF CalmInv, KnownPushed, QueuedIsListed, Entries, lists
  <2>3. Relies(w)'
    BY <2>1, <2>2 DEF Relies
  <2> QED BY <1>8, <2>1, <2>3
<1>f. CASE QueuedIds(w)
  <2>1. /\ UNCHANGED <<status, lists, job, todo>> /\ pc[w] = "lookq"
        /\ pc'[w] = "lookp" /\ seen'[w] = Entries
    BY <1>1, <1>f DEF QueuedIds, Goto, rows
  <2>2. \A i \in todo'[w] : i \in seen'[w] \cup processing'
                              \/ status'[i] \in Terminal
    BY <1>4, <2>1 DEF Relies, lists
  <2>3. Relies(w)'
    BY <2>1, <2>2 DEF Relies
  <2> QED BY <1>8, <2>1, <2>3
<1>g. CASE InFlightIds(w)
  <2>1. /\ UNCHANGED <<status, lists, job>> /\ pc[w] = "lookp"
        /\ pc'[w] \in {"loop", "push"}
        /\ todo'[w] = todo[w] \ (seen[w] \cup processing)
    BY <1>1, <1>g DEF InFlightIds, Goto, rows
  <2>2. \A i \in todo'[w] : status'[i] \in Terminal
    BY <1>4, <2>1 DEF Relies
  <2>3. Relies(w)'
    BY <2>1, <2>2 DEF Relies
  <2> QED BY <1>8, <2>1, <2>3
<1>h. CASE ResetToQueued(w) \/ PublishQueued(w) \/ RequeueStale(w)
  BY <1>4, <1>h DEF ResetToQueued, PublishQueued, RequeueStale, Relies
<1>i. CASE \/ MarkRunning(w) \/ Heartbeat(w) \/ MarkCompleted(w)
           \/ MarkFailed(w)
  <2>1. /\ UNCHANGED <<lists, job, todo>> /\ pc[w] \in ExecSteps
        /\ \E next : Goto(w, next)
    BY <1>i DEF MarkRunning, Heartbeat, MarkCompleted, MarkFailed
  <2>2. job[w] \in Jobs /\ status[job[w]] # "absent"
    BY <1>2, <2>1 DEF CalmInv, KnownPushed, Pushed, Inv, RowExists
  <2>3. PICK from, to : UpdateWhere(job[w], from, to)
    BY <1>i DEF MarkRunning, Heartbeat, MarkCompleted, MarkFailed
  <2>4. \A i \in Jobs \ {job[w]} : status'[i] = status[i] /\ old'[i] = old[i]
    BY <1>1, <2>2, <2>3 DEF UpdateWhere, SetStatus, rows
  <2>5. \/ /\ status'[job[w]] \in {"running"} \cup Terminal
           /\ pc'[w] \in WriteSteps /\ pc[w] # "fetch"
        \/ status'[job[w]] \in Terminal /\ pc'[w] \in WrittenSteps
    <3>1. CASE MarkRunning(w)
      BY <1>1, <1>3, <2>2, <3>1 DEF MarkRunning, UpdateWhere, SetStatus, rows,
         Goto
    <3>2. CASE Heartbeat(w)
      BY <1>1, <1>3, <1>4, <2>2, <3>2 DEF Heartbeat, UpdateWhere, SetStatus,
         rows, Goto
    <3>3. CASE MarkCompleted(w)
      BY <1>1, <1>3, <1>4, <2>2, <3>3 DEF MarkCompleted, UpdateWhere,
         SetStatus, rows, Goto
    <3>4. CASE MarkFailed(w)
      BY <1>1, <1>3, <1>4, <2>2, <3>4 DEF MarkFailed, UpdateWhere, SetStatus,
         rows, Goto
    <3> QED BY <1>i, <3>1, <3>2, <3>3, <3>4
  <2>6. \A i \in Jobs : /\ status[i] \in Terminal => status'[i] \in Terminal
                        /\ status'[i] = "queued" => status[i] = "queued"
                        /\ Active(i)' => Active(i)
    <3>1. ASSUME NEW i \in Jobs, i # job[w] PROVE status'[i] = status[i]
      BY <2>4, <3>1
    <3>2. ASSUME NEW i \in Jobs, i = job[w]
          PROVE  /\ status[i] \in Terminal => status'[i] \in Terminal
                 /\ status'[i] # "queued"
                 /\ status'[i] \in {"queued", "running"}
                      => status[i] \in {"queued", "running"}
      <4>1. status'[i] \in {"running"} \cup Terminal
        BY <2>5, <3>2
      <4>2. status[i] \in {"queued", "running"} \cup Terminal
        BY <1>1, <1>3, <2>2, <3>2
      <4>3. status[i] \in Terminal => status'[i] = status[i]
        BY <1>6
      <4> QED BY <1>3, <4>1, <4>2, <4>3
    <3> QED BY <1>3, <3>1, <3>2
  <2>7. Entries' = Entries /\ queue' = queue /\ processing' = processing
    BY <2>1 DEF Entries, lists
  <2>8. QueuedIsListed' /\ \A v \in Workers \ {w} : Relies(v)'
    <3>1. \A v \in Workers \ {w} : /\ pc[v] \in ExecSteps => job'[w] # job[v]
                                   /\ pc[v] = "fetch" /\ Active(job[v])
                                        => job'[w] # job[v]
      BY <2>1 DEF CalmInv, Relies, Alone
    <3>2. pc'[w] # "push"
      BY <2>5
    <3>3. \A i \in Jobs : /\ i \in processing \ processing' => FALSE
                          /\ i \in Entries \ Entries' => FALSE
                          /\ i \in Entries' \ Entries => FALSE
      BY <2>7
    <3> HIDE DEF HoldSteps, RecoverSteps, RunSteps, ExecSteps
    <3> QED BY <1>6, <2>6, <3>1, <3>2, <3>3, CalmOthers
  <2>9. OneEntry'
    BY <2>6, <2>7 DEF CalmInv, OneEntry
  <2>10. RunningIsHeld'
    <3> SUFFICES ASSUME NEW i \in Jobs, status'[i] = "running"
                 PROVE  /\ ~old'[i]
                        /\ \E u \in Workers : job'[u] = i /\ pc'[u] \in WriteSteps
      BY DEF RunningIsHeld
    <3>1. CASE i = job[w]
      <4>1. pc'[w] \in WriteSteps /\ job'[w] = i
        BY <1>3, <2>1, <2>5, <3>1
      <4>2. status[i] = "running" => ~old[i]
        BY DEF CalmInv, RunningIsHeld
      <4>3. ~old'[i]
        BY <1>1, <1>6, <2>2, <2>3, <3>1, <4>2
           DEF UpdateWhere, SetStatus, rows
      <4> QED BY <4>1, <4>3
    <3>2. CASE i # job[w]
      <4>1. status[i] = "running" /\ old'[i] = old[i]
        BY <2>4, <3>2
      <4>2. PICK u \in Workers : job[u] = i /\ pc[u] \in WriteSteps
        BY <4>1 DEF CalmInv, RunningIsHeld
      <4>3. u # w
        BY <3>2, <4>2
      <4> QED BY <1>6, <4>1, <4>2, <4>3 DEF CalmInv, RunningIsHeld
    <3> QED BY <3>1, <3>2
  <2>11. RowFollows'
    <3>1. ASSUME NEW v \in Workers \ {w}
          PROVE  /\ pc'[v] \in WriteSteps
                      => status'[job'[v]] \in {"running"} \cup Terminal
                 /\ pc'[v] \in WrittenSteps => status'[job'[v]] \in Terminal
      <4>1. pc[v] \in WriteSteps \cup WrittenSteps =>
               job[v] \in Jobs /\ job[v] # job[w]
        BY <1>7
      <4> QED BY <1>6, <2>4, <4>1 DEF CalmInv, RowFollows
    <3>2. /\ pc'[w] \in WriteSteps
                 => status'[job'[w]] \in {"running"} \cup Terminal
          /\ pc'[w] \in WrittenSteps => status'[job'[w]] \in Terminal
      BY <2>1, <2>5
    <3> QED BY <3>1, <3>2 DEF RowFollows
  <2>12. Relies(w)'
    <3>1. /\ Alone(w) /\ job[w] \in processing /\ job[w] \notin Entries
          /\ \A v \in Workers : pc[v] = "push" => job[w] \notin todo[v]
      BY <1>4, <2>1 DEF Relies
    <3>2. /\ Alone(w)' /\ job[w] \in processing' /\ job[w] \notin Entries'
          /\ \A v \in Workers : pc'[v] = "push" => job[w] \notin todo'[v]
      BY <1>6, <2>1, <2>5, <2>7, <3>1 DEF Alone
    <3>3. pc'[w] \in ExecSteps
      BY <2>5
    <3> QED BY <2>1, <3>2, <3>3 DEF Relies
  <2> QED BY <2>8, <2>9, <2>10, <2>11, <2>12 DEF CalmInv
\* The steps that move an id between the lists leave the rows alone.
<1>9. ASSUME UNCHANGED <<status, old>>, QueuedIsListed', OneEntry',
             \A v \in Workers : Relies(v)',
             pc[w] \notin WriteSteps, pc'[w] \notin WriteSteps \cup WrittenSteps
      PROVE  CalmInv'
  <2>1. RunningIsHeld'
    <3> SUFFICES ASSUME NEW i \in Jobs, status'[i] = "running"
                 PROVE  /\ ~old'[i]
                        /\ \E u \in Workers : job'[u] = i /\ pc'[u] \in WriteSteps
      BY DEF RunningIsHeld
    <3>1. ~old[i] /\ \E u \in Workers : job[u] = i /\ pc[u] \in WriteSteps
      BY <1>9 DEF CalmInv, RunningIsHeld
    <3>2. PICK u \in Workers : job[u] = i /\ pc[u] \in WriteSteps
      BY <3>1
    <3>3. u # w
      BY <1>9, <3>2
    <3> QED BY <1>6, <1>9, <3>1, <3>2, <3>3
  <2>2. RowFollows'
    <3>1. ASSUME NEW v \in Workers \ {w}
          PROVE  /\ pc'[v] \in WriteSteps
                      => status'[job'[v]] \in {"running"} \cup Terminal
                 /\ pc'[v] \in WrittenSteps => status'[job'[v]] \in Terminal
      BY <1>6, <1>9 DEF CalmInv, RowFollows
    <3> QED BY <1>9, <3>1 DEF RowFollows
  <2> QED BY <1>9, <2>1, <2>2 DEF CalmInv
<1>j. CASE Ack(w)
  <2>1. /\ UNCHANGED <<status, old, queue, todo>> /\ pc[w] = "ack"
        /\ pc'[w] = "tick" /\ job'[w] = NoJob
        /\ processing' = processing \ {job[w]}
    BY <1>1, <1>j DEF Ack, Goto, rows
  <2>2. job[w] \in Jobs => status[job[w]] \in Terminal
    BY <1>4, <2>1 DEF Relies
  <2>3. Entries' = Entries
    BY <2>1 DEF Entries
  <2>4. OneEntry'
    BY <1>3, <2>1, <2>3 DEF CalmInv, OneEntry
  <2>5. Relies(w)'
    BY <2>1 DEF Relies
  <2>6. QueuedIsListed' /\ \A v \in Workers \ {w} : Relies(v)'
    <3>1. \A v \in Workers \ {w} : /\ pc[v] \in ExecSteps => job'[w] # job[v]
                                   /\ pc[v] = "fetch" /\ Active(job[v])
                                        => job'[w] # job[v]
      BY <1>1, <1>3, <1>4, <1>7, <2>1
    <3>2. \A i \in Jobs : i \in processing \ processing' =>
             /\ status[i] \in Terminal
             /\ \A v \in Workers \ {w} : job[v] = i => pc[v] \notin ExecSteps
      BY <1>7, <2>1, <2>2
    <3>3. \A i \in Jobs : /\ i \in Entries \ Entries' => FALSE
                          /\ i \in Entries' \ Entries => FALSE
      BY <2>3
    <3>4. \A i \in Jobs : /\ status[i] \in Terminal => status'[i] \in Terminal
                          /\ status'[i] = "queued" => status[i] = "queued"
                          /\ Active(i)' => Active(i)
      BY <1>3, <2>1
    <3>5. pc'[w] # "push"
      BY <2>1
    <3> HIDE DEF HoldSteps, RecoverSteps, RunSteps, ExecSteps
    <3> QED BY <1>6, <3>1, <3>2, <3>3, <3>4, <3>5, CalmOthers
  <2> QED BY <1>9, <2>1, <2>4, <2>5, <2>6
<1>k. CASE RequeueOrphan(w)
  <2>1. PICK j \in todo[w] : /\ Requeue(j)
                             /\ todo' = [todo EXCEPT ![w] = @ \ {j}]
                             /\ Goto(w, IF todo[w] = {j} THEN "loop" ELSE "push")
    BY <1>k DEF RequeueOrphan
  <2>2. /\ UNCHANGED <<status, old, job>> /\ pc[w] = "push" /\ j \in Jobs
        /\ pc'[w] \in {"loop", "push"} /\ todo'[w] = todo[w] \ {j}
        /\ processing' = processing \ {j} /\ queue' = LPUSH(queue, j)
    BY <1>1, <1>k, <2>1 DEF RequeueOrphan, Goto, rows, Requeue
  <2>3. \A i \in todo[w] : status[i] \in Terminal
    BY <1>4, <2>2 DEF Relies
  <2>4. Entries' = Entries \cup {j}
    BY <1>1, <1>5, <2>2, LpushElements
  <2>5. ASSUME NEW i \in Jobs, Once(queue, i), i # j PROVE Once(queue', i)
    BY <1>1, <1>5, <2>2, <2>5, LpushOnce
  <2>6. ~Active(j)
    BY <1>3, <2>3
  <2>7. \A i : Active(i)' <=> Active(i)
    BY <1>3, <2>2
  <2>8. OneEntry'
    <3> SUFFICES ASSUME NEW i \in Jobs, Active(i)'
                 PROVE  /\ Once(queue', i)
                        /\ ~(i \in Entries' /\ i \in processing')
      BY DEF OneEntry
    <3>1. Active(i) /\ i # j
      BY <2>6, <2>7
    <3> QED BY <2>2, <2>4, <2>5, <3>1 DEF CalmInv, OneEntry
  <2>9. Relies(w)'
    <3>1. \A i \in todo'[w] : status'[i] \in Terminal
      BY <2>2, <2>3
    <3> QED BY <2>2, <3>1 DEF Relies
  <2>10. \A v \in Workers \ {w} : pc[v] \in ExecSteps => job[v] \notin todo[w]
    BY <2>2 DEF CalmInv, Relies
  <2>11. QueuedIsListed' /\ \A v \in Workers \ {w} : Relies(v)'
    <3>1. \A v \in Workers \ {w} : /\ pc[v] \in ExecSteps => job'[w] # job[v]
                                   /\ pc[v] = "fetch" /\ Active(job[v])
                                        => job'[w] # job[v]
      BY <2>2 DEF CalmInv, Relies, Alone
    <3>2. /\ \A i \in Jobs : i \in processing \ processing' =>
                /\ status[i] \in Terminal
                /\ \A v \in Workers \ {w} : job[v] = i => pc[v] \notin ExecSteps
          /\ \A i \in Jobs : i \in Entries' \ Entries =>
                \A v \in Workers \ {w} : job[v] = i => pc[v] \notin ExecSteps
      BY <2>2, <2>3, <2>4, <2>10
    <3>3. \A i \in Jobs : i \in Entries \ Entries' => FALSE
      BY <2>4
    <3>4. \A i \in Jobs : /\ status[i] \in Terminal => status'[i] \in Terminal
                          /\ status'[i] = "queued" => status[i] = "queued"
                          /\ Active(i)' => Active(i)
      BY <2>2, <2>7
    <3>5. \A v \in Workers \ {w} : pc[v] \in ExecSteps => job[v] \notin todo'[w]
      BY <2>2, <2>10
    <3> HIDE DEF HoldSteps, RecoverSteps, RunSteps, ExecSteps
    <3> QED BY <1>6, <3>1, <3>2, <3>3, <3>4, <3>5, CalmOthers
  <2> QED BY <1>9, <2>2, <2>8, <2>9, <2>11
<1>l. CASE Claim(w)
  <2> DEFINE e == queue[Len(queue)]
  <2>1. /\ queue # <<>> /\ UNCHANGED <<status, old, todo>> /\ pc[w] = "claim"
        /\ pc'[w] = "fetch" /\ job'[w] = e /\ processing' = processing \cup {e}
        /\ queue' = SubSeq(queue, 1, Len(queue) - 1)
    BY <1>1, <1>l DEF Claim, Goto, rows
  <2>2. Entries = Entries' \cup {e}
    BY <1>1, <1>5, <2>1, PopElements
  <2>3. ASSUME NEW i \in Jobs, Once(queue, i)
        PROVE  Once(queue', i) /\ (i = e => i \notin Entries')
    BY <1>1, <1>5, <2>1, <2>3, PopOnce
  <2> HIDE DEF e
  <2>4. \A i : Active(i)' <=> Active(i)
    BY <1>3, <2>1
  <2>5. OneEntry'
    BY <2>1, <2>2, <2>3, <2>4 DEF CalmInv, OneEntry
  <2>6. \A v \in Workers \ {w} : /\ pc[v] \in ExecSteps => job[v] # e
                                 /\ Active(e) => job[v] # e
    <3>1. \A v \in Workers \ {w} : pc[v] \in ExecSteps => job[v] # e
      BY <1>7, <2>2
    <3>2. ASSUME Active(e), NEW v \in Workers \ {w}, job[v] = e PROVE FALSE
      <4>1. e \in Jobs /\ e \notin processing /\ status[e] \notin Terminal
        BY <1>3, <2>2, <3>2 DEF CalmInv, OneEntry
      <4>2. Relies(v) /\ pc[v] \notin ExecSteps
        BY <3>1, <3>2 DEF CalmInv
      <4>3. pc[v] # "fetch" /\ pc[v] # "ack"
        BY <3>2, <4>1, <4>2 DEF Relies
      <4>4. pc[v] \notin {"pubq", "requeue"}
        BY <4>2 DEF Relies
      <4>5. pc[v] \in BusySteps
        BY <1>4, <3>2, <4>1 DEF Inv, TypeOK, WorkersOK, Ids
      <4> QED BY <4>2, <4>3, <4>4, <4>5 DEF BusySteps
    <3> QED BY <3>1, <3>2
  <2>7. Relies(w)'
    <3>1. Active(e) => Alone(w)'
      BY <1>6, <2>1, <2>6 DEF Alone
    <3> QED BY <2>1, <2>4, <3>1 DEF Relies
  <2>8. QueuedIsListed' /\ \A v \in Workers \ {w} : Relies(v)'
    <3>1. \A v \in Workers \ {w} : /\ pc[v] \in ExecSteps => job'[w] # job[v]
                                   /\ pc[v] = "fetch" /\ Active(job[v])
                                        => job'[w] # job[v]
      BY <2>1, <2>6
    <3>2. /\ \A i \in Jobs : i \in processing \ processing' => FALSE
          /\ \A i \in Jobs : i \in Entries' \ Entries => FALSE
          /\ \A i \in Jobs : i \in Entries \ Entries' => i \in processing'
      BY <2>1, <2>2
    <3>3. \A i \in Jobs : /\ status[i] \in Terminal => status'[i] \in Terminal
                          /\ status'[i] = "queued" => status[i] = "queued"
                          /\ Active(i)' => Active(i)
      BY <2>1, <2>4
    <3>4. pc'[w] # "push"
      BY <2>1
    <3> HIDE DEF HoldSteps, RecoverSteps, RunSteps, ExecSteps
    <3> QED BY <1>6, <3>1, <3>2, <3>3, <3>4, CalmOthers
  <2> QED BY <1>9, <2>1, <2>5, <2>7, <2>8
<1> QED BY <1>a, <1>b, <1>c, <1>d, <1>e, <1>f, <1>g, <1>h, <1>i, <1>j, <1>k,
           <1>l DEF Work, Reconcile

\* And so does the start.
LEMMA CalmInit == Init => CalmInv
<1> SUFFICES ASSUME Init PROVE CalmInv
  OBVIOUS
<1>1. KnownPushed
  BY KnownInit
<1>2. \A j \in Jobs : status[j] = "absent"
  BY DEF Init
<1>3. QueuedIsListed /\ RunningIsHeld /\ OneEntry
  BY <1>2 DEF QueuedIsListed, RunningIsHeld, OneEntry, Active, isActiveStatus
<1>4. RowFollows
  BY DEF Init, RowFollows, WriteSteps, WrittenSteps, RunSteps
<1>5. ASSUME NEW w \in Workers PROVE Relies(w)
  BY DEF Init, Relies, ExecSteps, RunSteps, RecoverSteps
<1> QED BY <1>1, <1>3, <1>4, <1>5 DEF CalmInv

\* On a calm day CalmInv holds throughout.
LEMMA CalmThroughout == Calm => (Spec => []CalmInv)
<1> SUFFICES ASSUME Calm PROVE Spec => []CalmInv
  OBVIOUS
<1>1. Init => CalmInv /\ DequeuedEnded
  BY CalmInit, QueueInit DEF QueueInv
<1>2. Inv /\ CalmInv /\ DequeuedEnded /\ [Next]_vars
        => CalmInv' /\ DequeuedEnded'
  <2> SUFFICES ASSUME Inv, CalmInv, DequeuedEnded, [Next]_vars
               PROVE  CalmInv' /\ DequeuedEnded'
    OBVIOUS
  <2>1. KnownPushed' /\ DequeuedEnded'
    BY KnownNext, DequeuedNext DEF CalmInv, Calm
  <2>2. CASE UNCHANGED vars
    <3>1. Entries' = Entries /\ \A i : Active(i)' <=> Active(i)
      BY <2>2 DEF Entries, Active, vars, rows, lists
    <3>2. \A w \in Workers : Relies(w)'
      BY <2>2, <3>1 DEF CalmInv, Relies, Alone, vars, rows, lists, worker
    <3> QED BY <2>1, <2>2, <3>1, <3>2
            DEF CalmInv, QueuedIsListed, RunningIsHeld, OneEntry, RowFollows,
                Pushed, vars, rows, lists, api, worker
  <2>3. CASE Next
    BY <2>1, <2>3, CalmHandlers, CalmWorkers DEF Next
  <2> QED BY <2>2, <2>3
<1> QED BY <1>1, <1>2, Invariance, PTL DEF Spec

\* On a calm day two workers never execute the same job, and the job an
\* executing worker holds is in jobs:processing, whatever the number of
\* workers and however their claims, acks and orphan checks interleave.
THEOREM OneExecutes == Calm => (Spec => []OneExecutor)
<1> SUFFICES ASSUME Calm PROVE Spec => []OneExecutor
  OBVIOUS
<1>1. CalmInv => OneExecutor
  <2> SUFFICES ASSUME CalmInv, NEW w \in Workers, NEW j \in Jobs,
                      Executes(w, j)
               PROVE  /\ j \in processing
                      /\ \A v \in Workers : Executes(v, j) => v = w
    BY DEF OneExecutor
  <2>1. job[w] = j /\ Alone(w) /\ job[w] \in processing
    BY DEF CalmInv, Relies, Executes, ExecSteps
  <2> QED BY <2>1 DEF Alone, Executes
<1> QED BY <1>1, CalmThroughout, PTL

\* On a calm day an active job is queued at most once, and not while it is in
\* flight, with any number of reconcilers at work.
THEOREM CalmQueuesOnce == Calm => (Spec => []SingleEntry)
<1> SUFFICES ASSUME Calm PROVE Spec => []SingleEntry
  OBVIOUS
<1>1. CalmInv => SingleEntry
  BY DEF CalmInv, OneEntry, SingleEntry, Active, Once
<1> QED BY <1>1, CalmThroughout, PTL
=============================================================================
