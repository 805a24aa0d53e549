------------------------- MODULE JobPipelineProofs -------------------------
(***************************************************************************)
(* Proofs about JobPipeline for every set of jobs, workers and foreign     *)
(* ids, every choice of crash points, slow phases and faults, and every    *)
(* bound on the mishaps.                                                   *)
(***************************************************************************)
EXTENDS JobPipeline, TLAPS, NaturalsInduction, WellFoundedInduction

(***************************************************************************)
(* Redis LREM: what the scan returns is a list over the same ids.          *)
(***************************************************************************)

\* A non-empty set of naturals has a least element: the principle behind the
\* inductions over a list's length below.
LEMMA LeastNatural ==
  ASSUME NEW T, T \subseteq Nat, T # {}
  PROVE  \E n \in T : \A m \in T : n =< m
<1>1. IsWellFoundedOn(OpToRel(<, Nat), Nat)
  BY NatLessThanWellFounded
<1>2. PICK n \in T : \A y \in T : ~ (<<y, n>> \in OpToRel(<, Nat))
  BY <1>1, WFMin
<1>3. ASSUME NEW m \in T PROVE n =< m
  <2>1. ~ (<<m, n>> \in OpToRel(<, Nat))
    BY <1>2
  <2>2. ~ (m < n)
    BY <2>1, m \in Nat, n \in Nat DEF OpToRel
  <2> QED BY <2>2, m \in Nat, n \in Nat
<1> QED BY <1>3

\* The i-th value of LREM's scan in terms of the one before.
ScanStep(s, e, i, f) ==
    IF i = 0 THEN <<>>
    ELSE IF s[i] = e THEN f[i - 1] ELSE Append(f[i - 1], s[i])

\* The recursion of LREM's scan has a solution on the first n entries.
HasScan(S, s, e, n) ==
    \E f \in [0..n -> Seq(S)] : \A i \in 0..n : f[i] = ScanStep(s, e, i, f)

\* It has one on every prefix.
LEMMA ScanExists ==
  ASSUME NEW S, NEW s \in Seq(S), NEW e
  PROVE  \A n \in 0..Len(s) : HasScan(S, s, e, n)
<1> DEFINE T == {m \in 0..Len(s) : ~HasScan(S, s, e, m)}
<1> SUFFICES ASSUME T # {} PROVE FALSE
  OBVIOUS
<1>1. PICK m \in T : \A k \in T : m =< k
  <2>1. T \subseteq Nat
    OBVIOUS
  <2> HIDE DEF T
  <2> QED BY <2>1, LeastNatural
<1>2. CASE m = 0
  <2> DEFINE g == [i \in 0..0 |-> <<>>]
  <2>1. g \in [0..0 -> Seq(S)]
    OBVIOUS
  <2>2. \A i \in 0..0 : g[i] = ScanStep(s, e, i, g)
    BY DEF ScanStep
  <2> QED BY <2>1, <2>2, <1>2 DEF HasScan
<1>3. CASE m # 0
  <2>1. m \in 1..Len(s) /\ m - 1 \in 0..Len(s)
    BY <1>3
  <2>2. m - 1 \notin T
    <3> HIDE DEF T
    <3> QED BY <1>1, <2>1
  <2>3. PICK f \in [0..(m-1) -> Seq(S)] :
                \A i \in 0..(m-1) : f[i] = ScanStep(s, e, i, f)
    BY <2>1, <2>2 DEF HasScan
  <2> DEFINE v == IF s[m] = e THEN f[m - 1] ELSE Append(f[m - 1], s[m])
             g == [i \in 0..m |-> IF i = m THEN v ELSE f[i]]
  <2>4. v \in Seq(S)
    BY <2>1
  <2>5. g \in [0..m -> Seq(S)]
    <3> HIDE DEF v
    <3> QED BY <2>1, <2>4
  <2>6. ASSUME NEW i \in 0..m PROVE g[i] = ScanStep(s, e, i, g)
    <3>1. CASE i = m
      BY <3>1, <2>1 DEF ScanStep
    <3>2. CASE i # m
      <4>1. i \in 0..(m-1)
        BY <3>2, <2>1
      <4>2. g[i] = f[i] /\ (i # 0 => g[i-1] = f[i-1])
        BY <4>1, <3>2, <2>1
      <4>3. f[i] = ScanStep(s, e, i, f)
        BY <2>3, <4>1
      <4> HIDE DEF g
      <4> QED BY <4>2, <4>3 DEF ScanStep
    <3> QED BY <3>1, <3>2
  <2> HIDE DEF g
  <2> QED BY <2>5, <2>6, <2>1 DEF HasScan
<1> QED BY <1>2, <1>3

\* What LREM computes: a scan that takes every entry in turn and leaves out
\* those equal to e.
LEMMA LremScan ==
  ASSUME NEW S, NEW s \in Seq(S), NEW e
  PROVE  \E f \in [0..Len(s) -> Seq(S)] :
            /\ \A i \in 0..Len(s) : f[i] = ScanStep(s, e, i, f)
            /\ LREM(s, e) = f[Len(s)]
<1>1. PICK f \in [0..Len(s) -> Seq(S)] :
              \A i \in 0..Len(s) : f[i] = ScanStep(s, e, i, f)
  <2>1. HasScan(S, s, e, Len(s))
    BY ScanExists
  <2> QED BY <2>1 DEF HasScan
<1> DEFINE G(h) == [i \in 0..Len(s) |->
                      IF i = 0 THEN <<>>
                      ELSE IF s[i] = e THEN h[i - 1]
                                       ELSE Append(h[i - 1], s[i])]
           F == CHOOSE h : h = G(h)
<1>2. f = G(f)
  BY <1>1 DEF ScanStep
<1>3. F = G(F)
  BY <1>2
<1>4. \A i \in 0..Len(s) : F[i] \in Seq(S)
  <2> DEFINE T == {m \in 0..Len(s) : F[m] \notin Seq(S)}
  <2> SUFFICES ASSUME T # {} PROVE FALSE
    OBVIOUS
  <2> HIDE DEF F
  <2>1. PICK m \in T : \A k \in T : m =< k
    <3>1. T \subseteq Nat
      OBVIOUS
    <3> HIDE DEF T
    <3> QED BY <3>1, LeastNatural
  <2>2. F[m] = IF m = 0 THEN <<>>
               ELSE IF s[m] = e THEN F[m - 1] ELSE Append(F[m - 1], s[m])
    BY <1>3
  <2>3. m # 0 => m - 1 \in 0..Len(s) /\ m \in 1..Len(s)
    OBVIOUS
  <2>4. m # 0 => F[m-1] \in Seq(S) /\ s[m] \in S
    BY <2>1, <2>3
  <2>5. F[m] \in Seq(S)
    BY <2>2, <2>4
  <2> QED BY <2>5
<1>5. LREM(s, e) = F[Len(s)]
  BY DEF LREM
<1>6. F \in [0..Len(s) -> Seq(S)]
  <2>1. F = [i \in 0..Len(s) |-> F[i]]
    BY <1>3
  <2> HIDE DEF F
  <2> QED BY <1>4, <2>1
<1>7. \A i \in 0..Len(s) : F[i] = ScanStep(s, e, i, F)
  <2> HIDE DEF F
  <2> QED BY <1>3 DEF ScanStep
<1> HIDE DEF F
<1> QED BY <1>5, <1>6, <1>7

\* LREM of a list of ids is a list of ids.
LEMMA LremType ==
  ASSUME NEW S, NEW s \in Seq(S), NEW e
  PROVE  LREM(s, e) \in Seq(S)
<1>1. Len(s) \in 0..Len(s)
  OBVIOUS
<1> QED BY <1>1, LremScan

-----------------------------------------------------------------------------
(***************************************************************************)
(* Type correctness.                                                       *)
(***************************************************************************)

\* A worker executing or recovering a job has the id of a row in hand.
LEMMA HeldJob ==
  ASSUME WorkersOK, NEW w \in Workers,
         pc[w] \in RunSteps \cup {"fail", "pubfail", "pubq", "requeue"}
  PROVE  job[w] \in Jobs
<1>1. pc[w] \in BusySteps /\ pc[w] \notin {"fetch", "ack"}
  BY DEF BusySteps, HoldSteps, RunSteps
<1>2. job[w] \in Ids /\ job[w] \notin Foreign
  BY <1>1 DEF WorkersOK
<1> QED BY <1>2 DEF Ids

\* Writing a row's status keeps the types of the table.
LEMMA SetStatusType ==
  ASSUME StoresOK, NEW j \in Jobs, NEW s \in Statuses, SetStatus(j, s)
  PROVE  /\ status' \in [Jobs -> Statuses \cup {"absent"}]
         /\ old' \in [Jobs -> BOOLEAN]
BY DEF StoresOK, SetStatus

\* So does a worker's conditional UPDATE.
LEMMA UpdateWhereType ==
  ASSUME StoresOK, NEW j \in Jobs, NEW from, NEW to \in Statuses,
         UpdateWhere(j, from, to)
  PROVE  /\ status' \in [Jobs -> Statuses \cup {"absent"}]
         /\ old' \in [Jobs -> BOOLEAN]
BY SetStatusType DEF StoresOK, UpdateWhere, rows

\* publish keeps the types of the status hash.
LEMMA PublishType ==
  ASSUME StoresOK, NEW j \in Jobs, NEW s \in Statuses, NEW t \in BOOLEAN,
         publish(j, s, t)
  PROVE  /\ live' \in [Jobs -> Statuses \cup {"none"}]
         /\ ttl' \in [Jobs -> BOOLEAN]
BY DEF StoresOK, publish

\* requeue keeps the types of the two lists.
LEMMA RequeueType ==
  ASSUME StoresOK, NEW j \in Jobs, Requeue(j)
  PROVE  queue' \in Seq(Ids) /\ processing' \subseteq Ids
BY DEF StoresOK, Requeue, LPUSH, Ids

\* A mishap stays within the bound.
LEMMA MishapType ==
  ASSUME HandlersOK, Mishap PROVE mishaps' \in 0..MaxMishaps
BY ConstantAssumption DEF HandlersOK, Mishap

\* What the types of the stores depend on.
LEMMA StoresKept ==
  ASSUME StoresOK, UNCHANGED <<rows, lists, hash, uploaded>> PROVE StoresOK'
BY DEF StoresOK, rows, lists, hash

\* What the types of the handlers depend on.
LEMMA HandlersKept ==
  ASSUME HandlersOK, UNCHANGED <<api, mishaps>> PROVE HandlersOK'
BY DEF HandlersOK, api

\* What the types of the workers depend on.
LEMMA WorkersKept ==
  ASSUME WorkersOK, UNCHANGED worker PROVE WorkersOK'
BY DEF WorkersOK, worker

\* One worker moves, keeping the tie between its step and its job.
LEMMA WorkerStep ==
  ASSUME WorkersOK, NEW w \in Workers, NEW next \in Steps,
         NEW i \in Ids \cup {NoJob}, NEW t \in SUBSET Jobs,
         NEW s \in SUBSET Ids,
         pc' = [pc EXCEPT ![w] = next], job' = [job EXCEPT ![w] = i],
         todo' = [todo EXCEPT ![w] = t], seen' = [seen EXCEPT ![w] = s],
         i # NoJob <=> next \in BusySteps,
         i \in Foreign => next \in {"fetch", "ack"}
  PROVE  WorkersOK'
<1>1. /\ pc' \in [Workers -> Steps] /\ job' \in [Workers -> Ids \cup {NoJob}]
      /\ todo' \in [Workers -> SUBSET Jobs] /\ seen' \in [Workers -> SUBSET Ids]
  BY DEF WorkersOK
<1>2. ASSUME NEW v \in Workers
      PROVE  /\ job'[v] # NoJob <=> pc'[v] \in BusySteps
             /\ job'[v] \in Foreign => pc'[v] \in {"fetch", "ack"}
  <2>1. CASE v = w
    BY <2>1 DEF WorkersOK
  <2>2. CASE v # w
    BY <2>2 DEF WorkersOK
  <2> QED BY <2>1, <2>2
<1> QED BY <1>1, <1>2 DEF WorkersOK

\* The move of a worker that keeps its job and its lists.
LEMMA GotoStep ==
  ASSUME WorkersOK, NEW w \in Workers, NEW next \in Steps, Goto(w, next),
         UNCHANGED <<job, todo, seen>>,
         next \in BusySteps <=> pc[w] \in BusySteps,
         job[w] \in Foreign => next = "ack"
  PROVE  WorkersOK'
BY WorkerStep DEF WorkersOK, Goto

\* The move of a worker with no job in hand: only its lists change.
LEMMA ReconcilerStep ==
  ASSUME WorkersOK, NEW w \in Workers, NEW next \in Steps \ BusySteps,
         pc[w] \notin BusySteps, Goto(w, next), UNCHANGED job,
         NEW t \in SUBSET Jobs, NEW s \in SUBSET Ids,
         todo' = [todo EXCEPT ![w] = t], seen' = [seen EXCEPT ![w] = s]
  PROVE  WorkersOK'
<1>1. job[w] = NoJob /\ job' = [job EXCEPT ![w] = NoJob]
  BY DEF WorkersOK
<1>2. NoJob \notin Foreign
  BY ConstantAssumption DEF Ids
<1> QED BY <1>1, <1>2, WorkerStep DEF Goto

\* The steps of the backend's handlers and of time keep the types.
LEMMA TypeHandlers ==
  ASSUME TypeOK, NEW j \in Jobs,
         \/ CreateJob(j) \/ CancelLock(j) \/ Handler(j) \/ EnqueueError(j)
         \/ CreateDrop(j) \/ CancelDrop(j) \/ Age(j) \/ Expire(j)
  PROVE  TypeOK'
<1> USE DEF TypeOK
<1>1. CASE CreateJob(j)
  <2>1. StoresOK'
    BY <1>1, SetStatusType DEF CreateJob, StoresOK, Statuses, lists, hash
  <2>2. HandlersOK'
    BY <1>1 DEF CreateJob, HandlersOK
  <2>3. WorkersOK'
    BY <1>1, WorkersKept DEF CreateJob
  <2> QED BY <2>1, <2>2, <2>3
<1>2. CASE Enqueue(j)
  <2>1. StoresOK'
    BY <1>2 DEF Enqueue, LPUSH, Ids, StoresOK, rows, hash
  <2>2. HandlersOK'
    BY <1>2 DEF Enqueue, HandlersOK
  <2>3. WorkersOK'
    BY <1>2, WorkersKept DEF Enqueue
  <2> QED BY <2>1, <2>2, <2>3
<1>3. CASE EnqueueError(j)
  <2>1. StoresOK'
    <3>1. queue' = queue \/ queue' = <<j>> \o queue
      BY <1>3 DEF EnqueueError, LPUSH
    <3>2. queue' \in Seq(Ids)
      <4>1. queue \in Seq(Ids) /\ j \in Ids
        BY DEF StoresOK, Ids
      <4>2. <<j>> \o queue \in Seq(Ids)
        BY <4>1
      <4> QED BY <3>1, <4>1, <4>2
    <3> QED BY <1>3, <3>2 DEF EnqueueError, StoresOK, rows, hash
  <2>2. HandlersOK'
    BY <1>3, MishapType DEF EnqueueError, HandlersOK
  <2>3. WorkersOK'
    BY <1>3, WorkersKept DEF EnqueueError
  <2> QED BY <2>1, <2>2, <2>3
<1>4. CASE MarkFailedLock(j)
  <2>1. StoresOK'
    BY <1>4, StoresKept DEF MarkFailedLock
  <2>2. HandlersOK'
    BY <1>4 DEF MarkFailedLock, HandlersOK
  <2>3. WorkersOK'
    BY <1>4, WorkersKept DEF MarkFailedLock
  <2> QED BY <2>1, <2>2, <2>3
<1>5. CASE MarkFailedCommit(j)
  <2>1. StoresOK'
    BY <1>5, SetStatusType DEF MarkFailedCommit, StoresOK, Statuses, lists,
       hash
  <2>2. HandlersOK'
    BY <1>5 DEF MarkFailedCommit, HandlersOK
  <2>3. WorkersOK'
    BY <1>5, WorkersKept DEF MarkFailedCommit
  <2> QED BY <2>1, <2>2, <2>3
<1>6. CASE CreateDrop(j)
  <2>1. StoresOK'
    BY <1>6, StoresKept DEF CreateDrop
  <2>2. HandlersOK'
    BY <1>6, MishapType DEF CreateDrop, HandlersOK
  <2>3. WorkersOK'
    BY <1>6, WorkersKept DEF CreateDrop
  <2> QED BY <2>1, <2>2, <2>3
<1>7. CASE CancelLock(j)
  <2>1. StoresOK'
    BY <1>7, StoresKept DEF CancelLock
  <2>2. HandlersOK'
    BY <1>7 DEF CancelLock, HandlersOK
  <2>3. WorkersOK'
    BY <1>7, WorkersKept DEF CancelLock
  <2> QED BY <2>1, <2>2, <2>3
<1>8. CASE CancelCommit(j)
  <2>1. StoresOK'
    BY <1>8, SetStatusType DEF CancelCommit, StoresOK, Statuses, lists, hash
  <2>2. HandlersOK'
    BY <1>8 DEF CancelCommit, HandlersOK
  <2>3. WorkersOK'
    BY <1>8, WorkersKept DEF CancelCommit
  <2> QED BY <2>1, <2>2, <2>3
<1>9. CASE CancelDequeue(j)
  <2>1. StoresOK'
    BY <1>9, LremType DEF CancelDequeue, StoresOK, rows, hash
  <2>2. HandlersOK'
    BY <1>9 DEF CancelDequeue, HandlersOK
  <2>3. WorkersOK'
    BY <1>9, WorkersKept DEF CancelDequeue
  <2> QED BY <2>1, <2>2, <2>3
<1>10. CASE CancelDrop(j)
  <2>1. StoresOK'
    BY <1>10, StoresKept DEF CancelDrop
  <2>2. HandlersOK'
    BY <1>10, MishapType DEF CancelDrop, HandlersOK
  <2>3. WorkersOK'
    BY <1>10, WorkersKept DEF CancelDrop
  <2> QED BY <2>1, <2>2, <2>3
<1>11. CASE Age(j)
  <2>1. StoresOK'
    BY <1>11 DEF Age, StoresOK, lists, hash
  <2>2. HandlersOK'
    BY <1>11, HandlersKept DEF Age
  <2>3. WorkersOK'
    BY <1>11, WorkersKept DEF Age
  <2> QED BY <2>1, <2>2, <2>3
<1>12. CASE Expire(j)
  <2>1. StoresOK'
    BY <1>12 DEF Expire, StoresOK, rows, lists
  <2>2. HandlersOK'
    BY <1>12, HandlersKept DEF Expire
  <2>3. WorkersOK'
    BY <1>12, WorkersKept DEF Expire
  <2> QED BY <2>1, <2>2, <2>3
<1> QED BY <1>1, <1>2, <1>3, <1>4, <1>5, <1>6, <1>7, <1>8, <1>9, <1>10, <1>11,
           <1>12 DEF Handler

\* The steps of the workers keep the types.
LEMMA TypeWorkers ==
  ASSUME TypeOK, NEW w \in Workers,
         \/ Boot(w) \/ Work(w) \/ Reconcile(w) \/ Stop(w) \/ Raise(w) \/ Crash(w)
  PROVE  TypeOK'
<1> USE DEF TypeOK
<1>1. CASE Boot(w)
  <2>1. StoresOK'
    BY <1>1, StoresKept DEF Boot
  <2>2. HandlersOK'
    BY <1>1, HandlersKept DEF Boot
  <2>3. WorkersOK'
    BY <1>1, GotoStep, ConstantAssumption DEF Boot, WorkersOK, Ids, Steps,
       BusySteps, HoldSteps, RunSteps, ReconcileSteps
  <2> QED BY <2>1, <2>2, <2>3
<1>2. CASE ClaimTimeout(w)
  <2>1. StoresOK'
    BY <1>2, StoresKept DEF ClaimTimeout
  <2>2. HandlersOK'
    BY <1>2, HandlersKept DEF ClaimTimeout
  <2>3. WorkersOK'
    BY <1>2, GotoStep, ConstantAssumption DEF ClaimTimeout, WorkersOK, Ids,
       Steps, BusySteps, HoldSteps, RunSteps, ReconcileSteps
  <2> QED BY <2>1, <2>2, <2>3
<1>3. CASE TickReconcile(w)
  <2>1. StoresOK'
    BY <1>3, StoresKept DEF TickReconcile
  <2>2. HandlersOK'
    BY <1>3, HandlersKept DEF TickReconcile
  <2>3. WorkersOK'
    BY <1>3, GotoStep, ConstantAssumption DEF TickReconcile, WorkersOK, Ids,
       Steps, BusySteps, HoldSteps, RunSteps, ReconcileSteps
  <2> QED BY <2>1, <2>2, <2>3
<1>4. CASE TickLoop(w)
  <2>1. StoresOK'
    BY <1>4, StoresKept DEF TickLoop
  <2>2. HandlersOK'
    BY <1>4, HandlersKept DEF TickLoop
  <2>3. WorkersOK'
    BY <1>4, GotoStep, ConstantAssumption DEF TickLoop, WorkersOK, Ids, Steps,
       BusySteps, HoldSteps, RunSteps, ReconcileSteps
  <2> QED BY <2>1, <2>2, <2>3
<1>4a. CASE LoopTest(w)
  <2>1. StoresOK'
    BY <1>4a, StoresKept DEF LoopTest
  <2>2. HandlersOK'
    BY <1>4a, HandlersKept DEF LoopTest
  <2>3. WorkersOK'
    BY <1>4a, GotoStep, ConstantAssumption DEF LoopTest, WorkersOK, Ids, Steps,
       BusySteps, HoldSteps, RunSteps, ReconcileSteps
  <2> QED BY <2>1, <2>2, <2>3
<1>5. CASE Stop(w)
  <2>1. StoresOK'
    BY <1>5, StoresKept DEF Stop, LoopExit
  <2>2. HandlersOK'
    BY <1>5, MishapType DEF Stop, LoopExit, HandlersOK, api
  <2>3. WorkersOK'
    BY <1>5, GotoStep, ConstantAssumption DEF Stop, LoopExit, WorkersOK, Ids,
       Steps, BusySteps, HoldSteps, RunSteps, ReconcileSteps
  <2> QED BY <2>1, <2>2, <2>3
<1>6. CASE Fetch(w)
  <2>1. StoresOK'
    BY <1>6, StoresKept DEF Fetch
  <2>2. HandlersOK'
    BY <1>6, HandlersKept DEF Fetch
  <2>3. WorkersOK'
    BY <1>6, GotoStep, ConstantAssumption DEF Fetch, WorkersOK, Ids, Steps,
       BusySteps, HoldSteps, RunSteps, ReconcileSteps
  <2> QED BY <2>1, <2>2, <2>3
<1>7. CASE Validate(w)
  <2>0. job[w] \in Jobs
    BY <1>7, HeldJob DEF Validate, RunSteps
  <2>1. StoresOK'
    BY <1>7, StoresKept DEF Validate
  <2>2. HandlersOK'
    BY <1>7, HandlersKept DEF Validate
  <2>3. WorkersOK'
    BY <1>7, <2>0, GotoStep, ConstantAssumption DEF Validate, WorkersOK, Ids,
       Steps, BusySteps, HoldSteps, RunSteps, ReconcileSteps
  <2> QED BY <2>1, <2>2, <2>3
<1>8. CASE Raise(w)
  <2>0. job[w] \in Jobs
    BY <1>8, HeldJob DEF Raise, RunSteps
  <2>1. StoresOK'
    BY <1>8, StoresKept DEF Raise
  <2>2. HandlersOK'
    BY <1>8, MishapType DEF Raise, HandlersOK, api
  <2>3. WorkersOK'
    BY <1>8, <2>0, GotoStep, ConstantAssumption DEF Raise, WorkersOK, Ids,
       Steps, BusySteps, HoldSteps, RunSteps, ReconcileSteps
  <2> QED BY <2>1, <2>2, <2>3
<1>9. CASE MarkRunning(w)
  <2>0. job[w] \in Jobs
    BY <1>9, HeldJob DEF MarkRunning, RunSteps
  <2>1. StoresOK'
    BY <1>9, <2>0, UpdateWhereType DEF MarkRunning, StoresOK, Statuses, lists,
       hash
  <2>2. HandlersOK'
    BY <1>9, HandlersKept DEF MarkRunning
  <2>3. WorkersOK'
    BY <1>9, <2>0, GotoStep, ConstantAssumption DEF MarkRunning, WorkersOK,
       Ids, Steps, BusySteps, HoldSteps, RunSteps, ReconcileSteps
  <2> QED BY <2>1, <2>2, <2>3
<1>10. CASE Heartbeat(w)
  <2>0. job[w] \in Jobs
    BY <1>10, HeldJob DEF Heartbeat, RunSteps
  <2>1. StoresOK'
    BY <1>10, <2>0, UpdateWhereType DEF Heartbeat, StoresOK, Statuses, lists,
       hash
  <2>2. HandlersOK'
    BY <1>10, HandlersKept DEF Heartbeat
  <2>3. WorkersOK'
    BY <1>10, <2>0, GotoStep, ConstantAssumption DEF Heartbeat, WorkersOK,
       Ids, Steps, BusySteps, HoldSteps, RunSteps, ReconcileSteps
  <2> QED BY <2>1, <2>2, <2>3
<1>11. CASE MarkCompleted(w)
  <2>0. job[w] \in Jobs
    BY <1>11, HeldJob DEF MarkCompleted, RunSteps
  <2>1. StoresOK'
    BY <1>11, <2>0, UpdateWhereType DEF MarkCompleted, StoresOK, Statuses,
       lists, hash
  <2>2. HandlersOK'
    BY <1>11, HandlersKept DEF MarkCompleted
  <2>3. WorkersOK'
    BY <1>11, <2>0, GotoStep, ConstantAssumption DEF MarkCompleted, WorkersOK,
       Ids, Steps, BusySteps, HoldSteps, RunSteps, ReconcileSteps
  <2> QED BY <2>1, <2>2, <2>3
<1>12. CASE MarkFailed(w)
  <2>0. job[w] \in Jobs
    BY <1>12, HeldJob DEF MarkFailed, RunSteps
  <2>1. StoresOK'
    BY <1>12, <2>0, UpdateWhereType DEF MarkFailed, StoresOK, Statuses, lists,
       hash
  <2>2. HandlersOK'
    BY <1>12, HandlersKept DEF MarkFailed
  <2>3. WorkersOK'
    BY <1>12, <2>0, GotoStep, ConstantAssumption DEF MarkFailed, WorkersOK,
       Ids, Steps, BusySteps, HoldSteps, RunSteps, ReconcileSteps
  <2> QED BY <2>1, <2>2, <2>3
<1>13. CASE PublishRunning(w)
  <2>0. job[w] \in Jobs
    BY <1>13, HeldJob DEF PublishRunning, RunSteps
  <2>1. StoresOK'
    BY <1>13, <2>0, PublishType DEF PublishRunning, StoresOK, Statuses, rows,
       lists
  <2>2. HandlersOK'
    BY <1>13, HandlersKept DEF PublishRunning
  <2>3. WorkersOK'
    BY <1>13, <2>0, GotoStep, ConstantAssumption DEF PublishRunning,
       WorkersOK, Ids, Steps, BusySteps, HoldSteps, RunSteps, ReconcileSteps
  <2> QED BY <2>1, <2>2, <2>3
<1>14. CASE PublishCompleted(w)
  <2>0. job[w] \in Jobs
    BY <1>14, HeldJob DEF PublishCompleted, RunSteps
  <2>1. StoresOK'
    BY <1>14, <2>0, PublishType DEF PublishCompleted, StoresOK, Statuses,
       rows, lists
  <2>2. HandlersOK'
    BY <1>14, HandlersKept DEF PublishCompleted
  <2>3. WorkersOK'
    BY <1>14, <2>0, GotoStep, ConstantAssumption DEF PublishCompleted,
       WorkersOK, Ids, Steps, BusySteps, HoldSteps, RunSteps, ReconcileSteps
  <2> QED BY <2>1, <2>2, <2>3
<1>15. CASE PublishFailed(w)
  <2>0. job[w] \in Jobs
    BY <1>15, HeldJob DEF PublishFailed, RunSteps
  <2>1. StoresOK'
    BY <1>15, <2>0, PublishType DEF PublishFailed, StoresOK, Statuses, rows,
       lists
  <2>2. HandlersOK'
    BY <1>15, HandlersKept DEF PublishFailed
  <2>3. WorkersOK'
    BY <1>15, <2>0, GotoStep, ConstantAssumption DEF PublishFailed, WorkersOK,
       Ids, Steps, BusySteps, HoldSteps, RunSteps, ReconcileSteps
  <2> QED BY <2>1, <2>2, <2>3
<1>16. CASE PublishQueued(w)
  <2>0. job[w] \in Jobs
    BY <1>16, HeldJob DEF PublishQueued, RunSteps
  <2>1. StoresOK'
    BY <1>16, <2>0, PublishType DEF PublishQueued, StoresOK, Statuses, rows,
       lists
  <2>2. HandlersOK'
    BY <1>16, HandlersKept DEF PublishQueued
  <2>3. WorkersOK'
    BY <1>16, <2>0, GotoStep, ConstantAssumption DEF PublishQueued, WorkersOK,
       Ids, Steps, BusySteps, HoldSteps, RunSteps, ReconcileSteps
  <2> QED BY <2>1, <2>2, <2>3
<1>17. CASE PublishHeartbeat(w)
  <2>0. job[w] \in Jobs
    BY <1>17, HeldJob DEF PublishHeartbeat, RunSteps
  <2>1. StoresOK'
    BY <1>17, <2>0, PublishType DEF PublishHeartbeat, StoresOK, Statuses,
       rows, lists
  <2>2. HandlersOK'
    BY <1>17, HandlersKept DEF PublishHeartbeat
  <2>3. WorkersOK'
    BY <1>17, <2>0, GotoStep, ConstantAssumption DEF PublishHeartbeat,
       WorkersOK, Ids, Steps, BusySteps, HoldSteps, RunSteps, ReconcileSteps,
       AfterHeartbeat
  <2> QED BY <2>1, <2>2, <2>3
<1>18. CASE Upload(w)
  <2>0. job[w] \in Jobs
    BY <1>18, HeldJob DEF Upload, RunSteps
  <2>1. StoresOK'
    BY <1>18, <2>0 DEF Upload, StoresOK, rows, lists, hash
  <2>2. HandlersOK'
    BY <1>18, HandlersKept DEF Upload
  <2>3. WorkersOK'
    BY <1>18, <2>0, GotoStep, ConstantAssumption DEF Upload, WorkersOK, Ids,
       Steps, BusySteps, HoldSteps, RunSteps, ReconcileSteps
  <2> QED BY <2>1, <2>2, <2>3
<1>19. CASE Claim(w)
  <2>0. /\ queue[Len(queue)] \in Ids
        /\ SubSeq(queue, 1, Len(queue) - 1) \in Seq(Ids)
    BY <1>19 DEF Claim, StoresOK
  <2>1. StoresOK'
    BY <1>19, <2>0 DEF Claim, StoresOK, rows, hash
  <2>2. HandlersOK'
    BY <1>19, HandlersKept DEF Claim
  <2>3. WorkersOK'
    BY <1>19, <2>0, WorkerStep, ConstantAssumption DEF Claim, Goto, WorkersOK,
       Steps, BusySteps, HoldSteps
  <2> QED BY <2>1, <2>2, <2>3
<1>20. CASE Ack(w)
  <2>1. StoresOK'
    BY <1>20 DEF Ack, StoresOK, rows, hash
  <2>2. HandlersOK'
    BY <1>20, HandlersKept DEF Ack
  <2>3. WorkersOK'
    BY <1>20, WorkerStep, ConstantAssumption DEF Ack, Goto, WorkersOK, Ids,
       Steps, BusySteps, HoldSteps, RunSteps, ReconcileSteps
  <2> QED BY <2>1, <2>2, <2>3
<1>21. CASE Crash(w)
  <2>1. StoresOK'
    BY <1>21, StoresKept DEF Crash
  <2>2. HandlersOK'
    BY <1>21, MishapType DEF Crash, HandlersOK, api
  <2>3. WorkersOK'
    BY <1>21, WorkerStep, ConstantAssumption DEF Crash, Goto, Ids, Steps,
       BusySteps, HoldSteps, RunSteps, ReconcileSteps
  <2> QED BY <2>1, <2>2, <2>3
<1>22. CASE FindStale(w)
  <2>1. StoresOK'
    BY <1>22, StoresKept DEF FindStale
  <2>2. HandlersOK'
    BY <1>22, HandlersKept DEF FindStale
  <2>3. WorkersOK'
    BY <1>22, ReconcilerStep DEF FindStale, WorkersOK, Steps, BusySteps,
       HoldSteps, RunSteps, ReconcileSteps
  <2> QED BY <2>1, <2>2, <2>3
<1>23. CASE FindOrphans(w)
  <2>1. StoresOK'
    BY <1>23, StoresKept DEF FindOrphans
  <2>2. HandlersOK'
    BY <1>23, HandlersKept DEF FindOrphans
  <2>3. WorkersOK'
    BY <1>23, ReconcilerStep DEF FindOrphans, WorkersOK, Steps, BusySteps,
       HoldSteps, RunSteps, ReconcileSteps
  <2> QED BY <2>1, <2>2, <2>3
<1>24. CASE QueuedIds(w)
  <2>1. StoresOK'
    BY <1>24, StoresKept DEF QueuedIds
  <2>2. HandlersOK'
    BY <1>24, HandlersKept DEF QueuedIds
  <2>3. WorkersOK'
    <3>1. Entries \in SUBSET Ids
      BY DEF Entries, StoresOK
    <3>2. todo' = [todo EXCEPT ![w] = todo[w]] /\ todo[w] \in SUBSET Jobs
      BY <1>24 DEF QueuedIds, WorkersOK
    <3>3. "lookp" \in Steps \ BusySteps /\ pc[w] \notin BusySteps
      BY <1>24 DEF QueuedIds, Steps, BusySteps, HoldSteps, RunSteps,
         ReconcileSteps
    <3> QED BY <1>24, <3>1, <3>2, <3>3, ReconcilerStep DEF QueuedIds
  <2> QED BY <2>1, <2>2, <2>3
<1>25. CASE InFlightIds(w)
  <2>1. StoresOK'
    BY <1>25, StoresKept DEF InFlightIds
  <2>2. HandlersOK'
    BY <1>25, HandlersKept DEF InFlightIds
  <2>3. WorkersOK'
    <3> DEFINE lost == todo[w] \ (seen[w] \cup processing)
               next == IF lost = {} THEN "loop" ELSE "push"
    <3>1. next \in Steps \ BusySteps /\ pc[w] \notin BusySteps
      BY <1>25 DEF InFlightIds, Steps, BusySteps, HoldSteps, RunSteps,
         ReconcileSteps
    <3>2. lost \in SUBSET Jobs
      BY DEF WorkersOK
    <3>3. /\ Goto(w, next) /\ UNCHANGED job
          /\ todo' = [todo EXCEPT ![w] = lost] /\ seen' = [seen EXCEPT ![w] = {}]
      BY <1>25 DEF InFlightIds
    <3> HIDE DEF lost, next
    <3> QED BY <3>1, <3>2, <3>3, ReconcilerStep
  <2> QED BY <2>1, <2>2, <2>3
<1>26. CASE ResetToQueued(w)
  <2>0. PICK j \in Jobs : /\ UpdateWhere(j, "running", "queued")
                          /\ job' = [job EXCEPT ![w] = j]
    BY <1>26 DEF ResetToQueued, WorkersOK
  <2>1. StoresOK'
    BY <1>26, <2>0, UpdateWhereType DEF ResetToQueued, StoresOK, Statuses,
       lists, hash
  <2>2. HandlersOK'
    BY <1>26, HandlersKept DEF ResetToQueued
  <2>3. WorkersOK'
    BY <1>26, <2>0, WorkerStep, ConstantAssumption DEF ResetToQueued, Goto,
       WorkersOK, Ids, Steps, BusySteps, HoldSteps, RunSteps, ReconcileSteps
  <2> QED BY <2>1, <2>2, <2>3
<1>27. CASE RequeueStale(w)
  <2>0. job[w] \in Jobs
    BY <1>27, HeldJob DEF RequeueStale, RunSteps
  <2>1. StoresOK'
    BY <1>27, <2>0, RequeueType DEF RequeueStale, StoresOK, rows, hash
  <2>2. HandlersOK'
    BY <1>27, HandlersKept DEF RequeueStale
  <2>3. WorkersOK'
    <3> DEFINE next == IF todo[w] = {job[w]} THEN "orphan" ELSE "reset"
               rest == todo[w] \ {job[w]}
    <3>1. next \in Steps \ BusySteps
      BY DEF Steps, BusySteps, HoldSteps, RunSteps, ReconcileSteps
    <3>2. rest \in SUBSET Jobs /\ seen[w] \in SUBSET Ids
      BY DEF WorkersOK
    <3>3. /\ pc' = [pc EXCEPT ![w] = next] /\ job' = [job EXCEPT ![w] = NoJob]
          /\ todo' = [todo EXCEPT ![w] = rest]
          /\ seen' = [seen EXCEPT ![w] = seen[w]]
      BY <1>27 DEF RequeueStale, Goto, WorkersOK
    <3>4. NoJob \notin Foreign
      BY ConstantAssumption DEF Ids
    <3> HIDE DEF next, rest
    <3> QED BY <3>1, <3>2, <3>3, <3>4, WorkerStep
  <2> QED BY <2>1, <2>2, <2>3
<1>28. CASE RequeueOrphan(w)
  <2>0. PICK j \in Jobs : /\ Requeue(j)
                          /\ todo' = [todo EXCEPT ![w] = @ \ {j}]
                          /\ Goto(w, IF todo[w] = {j} THEN "loop" ELSE "push")
    BY <1>28 DEF RequeueOrphan, WorkersOK
  <2>1. StoresOK'
    BY <1>28, <2>0, RequeueType DEF RequeueOrphan, StoresOK, rows, hash
  <2>2. HandlersOK'
    BY <1>28, HandlersKept DEF RequeueOrphan
  <2>3. WorkersOK'
    <3> DEFINE next == IF todo[w] = {j} THEN "loop" ELSE "push"
               rest == todo[w] \ {j}
    <3>1. next \in Steps \ BusySteps /\ pc[w] \notin BusySteps
      BY <1>28 DEF RequeueOrphan, Steps, BusySteps, HoldSteps, RunSteps,
         ReconcileSteps
    <3>2. rest \in SUBSET Jobs /\ seen[w] \in SUBSET Ids
      BY DEF WorkersOK
    <3>3. /\ Goto(w, next) /\ UNCHANGED job
          /\ todo' = [todo EXCEPT ![w] = rest]
          /\ seen' = [seen EXCEPT ![w] = seen[w]]
      BY <1>28, <2>0 DEF RequeueOrphan, WorkersOK
    <3> HIDE DEF next, rest
    <3> QED BY <3>1, <3>2, <3>3, ReconcilerStep
  <2> QED BY <2>1, <2>2, <2>3
<1> QED
  BY <1>1, <1>2, <1>3, <1>4, <1>4a, <1>5, <1>6, <1>7, <1>8, <1>9, <1>10, <1>11,
     <1>12, <1>13, <1>14, <1>15, <1>16, <1>17, <1>18, <1>19, <1>20, <1>21,
     <1>22, <1>23, <1>24, <1>25, <1>26, <1>27, <1>28
  DEF Work, Reconcile

\* Every step keeps the types.
LEMMA TypeNext ==
  ASSUME TypeOK, [Next]_vars PROVE TypeOK'
<1>1. CASE UNCHANGED vars
  BY <1>1, StoresKept, HandlersKept, WorkersKept DEF TypeOK, vars
<1>2. CASE Next
  BY <1>2, TypeHandlers, TypeWorkers DEF Next
<1> QED BY <1>1, <1>2

\* The initial state has the types.
LEMMA TypeInit ==
  ASSUME Init PROVE TypeOK
<1>1. StoresOK
  <2>1. queue \in Seq(Ids)
    <3>1. <<>> \in Seq(Ids) /\ \A f \in Foreign : <<f>> \in Seq(Ids)
      BY DEF Ids
    <3> QED BY <3>1 DEF Init
  <2> QED BY <2>1 DEF Init, StoresOK, Statuses
<1>2. HandlersOK
  BY ConstantAssumption DEF Init, HandlersOK
<1>3. WorkersOK
  BY ConstantAssumption DEF Init, WorkersOK, Ids, Steps, BusySteps, HoldSteps,
     RunSteps
<1> QED BY <1>1, <1>2, <1>3 DEF TypeOK

\* Type correctness of every reachable state: the lists hold ids, and a
\* worker past the checks of process() has the id of a row in hand.
THEOREM TypeCorrect == Spec => []TypeOK
<1>1. Init => TypeOK
  BY TypeInit
<1>2. TypeOK /\ [Next]_vars => TypeOK'
  BY TypeNext
<1> QED BY <1>1, <1>2, PTL DEF Spec

-----------------------------------------------------------------------------
(***************************************************************************)
(* The inductive invariant.  TerminalIsFinal needs to know what the row    *)
(* looks like while an Update is between its check and its write;          *)
(* CompletedHasArtifact, that a worker about to complete has uploaded; the *)
(* refinement, that a job in execution has a row.                          *)
(***************************************************************************)

\* A job has a row once its POST has inserted it, and a job a worker executes
\* has one.
RowExists ==
    /\ \A j \in Jobs : create[j] = "idle" <=> status[j] = "absent"
    /\ \A w \in Workers : pc[w] \in RunSteps => status[job[w]] # "absent"

\* A worker past its upload has uploaded.
UploadedFirst ==
    \A w \in Workers : pc[w] \in {"complete", "pubdone"} => uploaded[job[w]]

Inv == TypeOK /\ CheckedRowStays /\ RowExists /\ UploadedFirst /\ CompletedHasArtifact

\* The steps of the backend's handlers and of time keep the invariant.
LEMMA InvHandlers ==
  ASSUME Inv, NEW j \in Jobs,
         \/ CreateJob(j) \/ CancelLock(j) \/ Handler(j) \/ EnqueueError(j)
         \/ CreateDrop(j) \/ CancelDrop(j) \/ Age(j) \/ Expire(j)
  PROVE  CheckedRowStays' /\ RowExists' /\ UploadedFirst' /\ CompletedHasArtifact'
<1> USE DEF Inv, TypeOK
<1>1. CASE CreateJob(j)
  <2>1. CheckedRowStays'
    BY <1>1 DEF CreateJob, CheckedRowStays, RowExists, StoresOK, HandlersOK,
       rows, SetStatus, validateTransition, validTransitions
  <2>2. RowExists'
    BY <1>1 DEF CreateJob, RowExists, CheckedRowStays, StoresOK, HandlersOK,
       WorkersOK, rows, worker, SetStatus, validateTransition, validTransitions
  <2>3. UploadedFirst'
    BY <1>1 DEF CreateJob, UploadedFirst, worker
  <2>4. CompletedHasArtifact'
    BY <1>1 DEF CreateJob, CompletedHasArtifact, StoresOK, rows, hash,
       SetStatus
  <2> QED BY <2>1, <2>2, <2>3, <2>4
<1>2. CASE Enqueue(j)
  <2>1. CheckedRowStays'
    BY <1>2 DEF Enqueue, CheckedRowStays, RowExists, StoresOK, HandlersOK,
       rows, validateTransition, validTransitions
  <2>2. RowExists'
    BY <1>2 DEF Enqueue, RowExists, CheckedRowStays, StoresOK, HandlersOK,
       WorkersOK, rows, worker, validateTransition, validTransitions
  <2>3. UploadedFirst'
    BY <1>2 DEF Enqueue, UploadedFirst, worker
  <2>4. CompletedHasArtifact'
    BY <1>2 DEF Enqueue, CompletedHasArtifact, StoresOK, rows, hash
  <2> QED BY <2>1, <2>2, <2>3, <2>4
<1>3. CASE EnqueueError(j)
  <2>1. CheckedRowStays'
    BY <1>3 DEF EnqueueError, CheckedRowStays, RowExists, StoresOK,
       HandlersOK, rows, validateTransition, validTransitions
  <2>2. RowExists'
    BY <1>3 DEF EnqueueError, RowExists, CheckedRowStays, StoresOK,
       HandlersOK, WorkersOK, rows, worker, validateTransition,
       validTransitions
  <2>3. UploadedFirst'
    BY <1>3 DEF EnqueueError, UploadedFirst, worker
  <2>4. CompletedHasArtifact'
    BY <1>3 DEF EnqueueError, CompletedHasArtifact, StoresOK, rows, hash
  <2> QED BY <2>1, <2>2, <2>3, <2>4
<1>4. CASE MarkFailedLock(j)
  <2>1. CheckedRowStays'
    BY <1>4 DEF MarkFailedLock, CheckedRowStays, RowExists, StoresOK,
       HandlersOK, rows, RowLocked, validateTransition, validTransitions
  <2>2. RowExists'
    BY <1>4 DEF MarkFailedLock, RowExists, CheckedRowStays, StoresOK,
       HandlersOK, WorkersOK, rows, worker, RowLocked, validateTransition,
       validTransitions
  <2>3. UploadedFirst'
    BY <1>4 DEF MarkFailedLock, UploadedFirst, worker
  <2>4. CompletedHasArtifact'
    BY <1>4 DEF MarkFailedLock, CompletedHasArtifact, StoresOK, rows, hash,
       RowLocked, validateTransition, validTransitions
  <2> QED BY <2>1, <2>2, <2>3, <2>4
<1>5. CASE MarkFailedCommit(j)
  <2>1. CheckedRowStays'
    BY <1>5 DEF MarkFailedCommit, CheckedRowStays, RowExists, StoresOK,
       HandlersOK, rows, SetStatus, validateTransition, validTransitions
  <2>2. RowExists'
    BY <1>5 DEF MarkFailedCommit, RowExists, CheckedRowStays, StoresOK,
       HandlersOK, WorkersOK, rows, worker, SetStatus, validateTransition,
       validTransitions
  <2>3. UploadedFirst'
    BY <1>5 DEF MarkFailedCommit, UploadedFirst, worker
  <2>4. CompletedHasArtifact'
    BY <1>5 DEF MarkFailedCommit, CompletedHasArtifact, StoresOK, rows, hash,
       SetStatus
  <2> QED BY <2>1, <2>2, <2>3, <2>4
<1>6. CASE CreateDrop(j)
  <2>1. CheckedRowStays'
    BY <1>6 DEF CreateDrop, CheckedRowStays, RowExists, StoresOK, HandlersOK,
       rows, validateTransition, validTransitions
  <2>2. RowExists'
    BY <1>6 DEF CreateDrop, RowExists, CheckedRowStays, StoresOK, HandlersOK,
       WorkersOK, rows, worker, validateTransition, validTransitions
  <2>3. UploadedFirst'
    BY <1>6 DEF CreateDrop, UploadedFirst, worker
  <2>4. CompletedHasArtifact'
    BY <1>6 DEF CreateDrop, CompletedHasArtifact, StoresOK, rows, hash
  <2> QED BY <2>1, <2>2, <2>3, <2>4
<1>7. CASE CancelLock(j)
  <2>1. CheckedRowStays'
    BY <1>7 DEF CancelLock, CheckedRowStays, RowExists, StoresOK, HandlersOK,
       rows, RowLocked, validateTransition, validTransitions
  <2>2. RowExists'
    BY <1>7 DEF CancelLock, RowExists, CheckedRowStays, StoresOK, HandlersOK,
       WorkersOK, rows, worker, RowLocked, validateTransition, validTransitions
  <2>3. UploadedFirst'
    BY <1>7 DEF CancelLock, UploadedFirst, worker
  <2>4. CompletedHasArtifact'
    BY <1>7 DEF CancelLock, CompletedHasArtifact, StoresOK, rows, hash,
       RowLocked, validateTransition, validTransitions
  <2> QED BY <2>1, <2>2, <2>3, <2>4
<1>8. CASE CancelCommit(j)
  <2>0. status[j] # "absent"
    BY <1>8 DEF CancelCommit, CheckedRowStays, validateTransition,
       validTransitions
  <2>1. CheckedRowStays'
    BY <1>8 DEF CancelCommit, CheckedRowStays, RowExists, StoresOK,
       HandlersOK, rows, SetStatus, validateTransition, validTransitions
  <2>2. RowExists'
    BY <1>8, <2>0 DEF CancelCommit, RowExists, CheckedRowStays, StoresOK,
       HandlersOK, WorkersOK, rows, worker, SetStatus, validateTransition,
       validTransitions
  <2>3. UploadedFirst'
    BY <1>8 DEF CancelCommit, UploadedFirst, worker
  <2>4. CompletedHasArtifact'
    BY <1>8 DEF CancelCommit, CompletedHasArtifact, StoresOK, rows, hash,
       SetStatus
  <2> QED BY <2>1, <2>2, <2>3, <2>4
<1>9. CASE CancelDequeue(j)
  <2>1. CheckedRowStays'
    BY <1>9 DEF CancelDequeue, CheckedRowStays, RowExists, StoresOK,
       HandlersOK, rows, validateTransition, validTransitions
  <2>2. RowExists'
    BY <1>9 DEF CancelDequeue, RowExists, CheckedRowStays, StoresOK,
       HandlersOK, WorkersOK, rows, worker, validateTransition,
       validTransitions
  <2>3. UploadedFirst'
    BY <1>9 DEF CancelDequeue, UploadedFirst, worker
  <2>4. CompletedHasArtifact'
    BY <1>9 DEF CancelDequeue, CompletedHasArtifact, StoresOK, rows, hash
  <2> QED BY <2>1, <2>2, <2>3, <2>4
<1>10. CASE CancelDrop(j)
  <2>1. CheckedRowStays'
    BY <1>10 DEF CancelDrop, CheckedRowStays, RowExists, StoresOK, HandlersOK,
       rows, validateTransition, validTransitions
  <2>2. RowExists'
    BY <1>10 DEF CancelDrop, RowExists, CheckedRowStays, StoresOK, HandlersOK,
       WorkersOK, rows, worker, validateTransition, validTransitions
  <2>3. UploadedFirst'
    BY <1>10 DEF CancelDrop, UploadedFirst, worker
  <2>4. CompletedHasArtifact'
    BY <1>10 DEF CancelDrop, CompletedHasArtifact, StoresOK, rows, hash
  <2> QED BY <2>1, <2>2, <2>3, <2>4
<1>11. CASE Age(j)
  <2>1. CheckedRowStays'
    BY <1>11 DEF Age, CheckedRowStays, RowExists, StoresOK, HandlersOK, rows,
       api, validateTransition, validTransitions
  <2>2. RowExists'
    BY <1>11 DEF Age, RowExists, CheckedRowStays, StoresOK, HandlersOK,
       WorkersOK, rows, worker, api, validateTransition, validTransitions
  <2>3. UploadedFirst'
    BY <1>11 DEF Age, UploadedFirst, worker
  <2>4. CompletedHasArtifact'
    BY <1>11 DEF Age, CompletedHasArtifact, StoresOK, rows, hash, api
  <2> QED BY <2>1, <2>2, <2>3, <2>4
<1>12. CASE Expire(j)
  <2>1. CheckedRowStays'
    BY <1>12 DEF Expire, CheckedRowStays, RowExists, StoresOK, HandlersOK,
       rows, api, validateTransition, validTransitions
  <2>2. RowExists'
    BY <1>12 DEF Expire, RowExists, CheckedRowStays, StoresOK, HandlersOK,
       WorkersOK, rows, worker, api, validateTransition, validTransitions
  <2>3. UploadedFirst'
    BY <1>12 DEF Expire, UploadedFirst, worker
  <2>4. CompletedHasArtifact'
    BY <1>12 DEF Expire, CompletedHasArtifact, StoresOK, rows, hash, api
  <2> QED BY <2>1, <2>2, <2>3, <2>4
<1> QED BY <1>1, <1>2, <1>3, <1>4, <1>5, <1>6, <1>7, <1>8, <1>9, <1>10, <1>11,
           <1>12 DEF Handler


\* A conditional UPDATE neither makes nor removes a row.
LEMMA UpdateKeepsRows ==
  ASSUME StoresOK, WorkersOK, RowExists, NEW j \in Jobs,
         NEW from \in {"queued", "running"}, NEW to \in Statuses,
         UpdateWhere(j, from, to), UNCHANGED create
  PROVE  /\ \A i \in Jobs : create'[i] = "idle" <=> status'[i] = "absent"
         /\ \A w \in Workers : pc[w] \in RunSteps => status'[job[w]] # "absent"
<1>1. /\ \A i \in Jobs : create'[i] = "idle" <=> status'[i] = "absent"
      /\ \A i \in Jobs : status[i] # "absent" => status'[i] # "absent"
  BY DEF StoresOK, RowExists, UpdateWhere, SetStatus, Statuses, rows
<1>2. \A w \in Workers : pc[w] \in RunSteps => job[w] \in Jobs
  BY HeldJob
<1> QED BY <1>1, <1>2 DEF RowExists

\* The steps of the workers keep the invariant.
LEMMA InvWorkers ==
  ASSUME Inv, NEW w \in Workers,
         \/ Boot(w) \/ Work(w) \/ Reconcile(w) \/ Stop(w) \/ Raise(w) \/ Crash(w)
  PROVE  CheckedRowStays' /\ RowExists' /\ UploadedFirst' /\ CompletedHasArtifact'
<1> USE DEF Inv, TypeOK
<1>1. CASE Boot(w)
  <2>1. CheckedRowStays'
    BY <1>1 DEF Boot, CheckedRowStays, StoresOK, HandlersOK, rows, api
  <2>2. RowExists'
    BY <1>1 DEF Boot, RowExists, StoresOK, WorkersOK, HandlersOK, Goto,
       RunSteps, rows, api
  <2>3. UploadedFirst'
    BY <1>1 DEF Boot, UploadedFirst, StoresOK, WorkersOK, Goto
  <2>4. CompletedHasArtifact'
    BY <1>1 DEF Boot, CompletedHasArtifact, UploadedFirst, StoresOK, rows, hash
  <2> QED BY <2>1, <2>2, <2>3, <2>4
<1>2. CASE ClaimTimeout(w)
  <2>1. CheckedRowStays'
    BY <1>2 DEF ClaimTimeout, CheckedRowStays, StoresOK, HandlersOK, rows, api
  <2>2. RowExists'
    BY <1>2 DEF ClaimTimeout, RowExists, StoresOK, WorkersOK, HandlersOK,
       Goto, RunSteps, rows, api
  <2>3. UploadedFirst'
    BY <1>2 DEF ClaimTimeout, UploadedFirst, StoresOK, WorkersOK, Goto
  <2>4. CompletedHasArtifact'
    BY <1>2 DEF ClaimTimeout, CompletedHasArtifact, UploadedFirst, StoresOK,
       rows, hash
  <2> QED BY <2>1, <2>2, <2>3, <2>4
<1>3. CASE TickReconcile(w)
  <2>1. CheckedRowStays'
    BY <1>3 DEF TickReconcile, CheckedRowStays, StoresOK, HandlersOK, rows, api
  <2>2. RowExists'
    BY <1>3 DEF TickReconcile, RowExists, StoresOK, WorkersOK, HandlersOK,
       Goto, RunSteps, rows, api
  <2>3. UploadedFirst'
    BY <1>3 DEF TickReconcile, UploadedFirst, StoresOK, WorkersOK, Goto
  <2>4. CompletedHasArtifact'
    BY <1>3 DEF TickReconcile, CompletedHasArtifact, UploadedFirst, StoresOK,
       rows, hash
  <2> QED BY <2>1, <2>2, <2>3, <2>4
<1>4. CASE TickLoop(w)
  <2>1. CheckedRowStays'
    BY <1>4 DEF TickLoop, CheckedRowStays, StoresOK, HandlersOK, rows, api
  <2>2. RowExists'
    BY <1>4 DEF TickLoop, RowExists, StoresOK, WorkersOK, HandlersOK, Goto,
       RunSteps, rows, api
  <2>3. UploadedFirst'
    BY <1>4 DEF TickLoop, UploadedFirst, StoresOK, WorkersOK, Goto
  <2>4. CompletedHasArtifact'
    BY <1>4 DEF TickLoop, CompletedHasArtifact, UploadedFirst, StoresOK, rows,
       hash
  <2> QED BY <2>1, <2>2, <2>3, <2>4
<1>4a. CASE LoopTest(w)
  <2>1. CheckedRowStays'
    BY <1>4a DEF LoopTest, CheckedRowStays, StoresOK, HandlersOK, rows, api
  <2>2. RowExists'
    BY <1>4a DEF LoopTest, RowExists, StoresOK, WorkersOK, HandlersOK, Goto,
       RunSteps, rows, api
  <2>3. UploadedFirst'
    BY <1>4a DEF LoopTest, UploadedFirst, StoresOK, WorkersOK, Goto
  <2>4. CompletedHasArtifact'
    BY <1>4a DEF LoopTest, CompletedHasArtifact, UploadedFirst, StoresOK, rows,
       hash
  <2> QED BY <2>1, <2>2, <2>3, <2>4
<1>5. CASE Stop(w)
  <2>1. CheckedRowStays'
    BY <1>5 DEF Stop, LoopExit, CheckedRowStays, StoresOK, HandlersOK, rows, api
  <2>2. RowExists'
    BY <1>5 DEF Stop, LoopExit, RowExists, StoresOK, WorkersOK, HandlersOK,
       Goto, RunSteps, rows, api
  <2>3. UploadedFirst'
    BY <1>5 DEF Stop, LoopExit, UploadedFirst, StoresOK, WorkersOK, Goto
  <2>4. CompletedHasArtifact'
    BY <1>5 DEF Stop, LoopExit, CompletedHasArtifact, UploadedFirst, StoresOK,
       rows, hash
  <2> QED BY <2>1, <2>2, <2>3, <2>4
<1>6. CASE Fetch(w)
  <2>1. CheckedRowStays'
    BY <1>6 DEF Fetch, CheckedRowStays, StoresOK, HandlersOK, rows, api
  <2>2. RowExists'
    BY <1>6 DEF Fetch, RowExists, StoresOK, WorkersOK, HandlersOK, Goto,
       RunSteps, rows, api, isActiveStatus
  <2>3. UploadedFirst'
    BY <1>6 DEF Fetch, UploadedFirst, StoresOK, WorkersOK, Goto
  <2>4. CompletedHasArtifact'
    BY <1>6 DEF Fetch, CompletedHasArtifact, UploadedFirst, StoresOK, rows,
       hash
  <2> QED BY <2>1, <2>2, <2>3, <2>4
<1>7. CASE Validate(w)
  <2>0. job[w] \in Jobs
    BY <1>7, HeldJob DEF Validate, RunSteps
  <2>1. CheckedRowStays'
    BY <1>7, <2>0 DEF Validate, CheckedRowStays, StoresOK, HandlersOK, rows,
       api
  <2>2. RowExists'
    BY <1>7, <2>0 DEF Validate, RowExists, StoresOK, WorkersOK, HandlersOK,
       Goto, RunSteps, rows, api
  <2>3. UploadedFirst'
    BY <1>7, <2>0 DEF Validate, UploadedFirst, StoresOK, WorkersOK, Goto
  <2>4. CompletedHasArtifact'
    BY <1>7, <2>0 DEF Validate, CompletedHasArtifact, UploadedFirst, StoresOK,
       rows, hash
  <2> QED BY <2>1, <2>2, <2>3, <2>4
<1>8. CASE Raise(w)
  <2>0. job[w] \in Jobs
    BY <1>8, HeldJob DEF Raise, RunSteps
  <2>1. CheckedRowStays'
    BY <1>8, <2>0 DEF Raise, CheckedRowStays, StoresOK, HandlersOK, rows, api
  <2>2. RowExists'
    BY <1>8, <2>0 DEF Raise, RowExists, StoresOK, WorkersOK, HandlersOK, Goto,
       RunSteps, rows, api
  <2>3. UploadedFirst'
    BY <1>8, <2>0 DEF Raise, UploadedFirst, StoresOK, WorkersOK, Goto
  <2>4. CompletedHasArtifact'
    BY <1>8, <2>0 DEF Raise, CompletedHasArtifact, UploadedFirst, StoresOK,
       rows, hash
  <2> QED BY <2>1, <2>2, <2>3, <2>4
<1>9. CASE MarkRunning(w)
  <2>0. job[w] \in Jobs
    BY <1>9, HeldJob DEF MarkRunning, RunSteps
  <2>1. CheckedRowStays'
    BY <1>9, <2>0 DEF MarkRunning, CheckedRowStays, StoresOK, HandlersOK,
       rows, api, UpdateWhere, SetStatus, RowLocked
  <2>2. RowExists'
    <3>1. UpdateWhere(job[w], "queued", "running") /\ UNCHANGED create
      BY <1>9, <2>0 DEF MarkRunning, api
    <3>2. /\ \A i \in Jobs : create'[i] = "idle" <=> status'[i] = "absent"
          /\ \A v \in Workers : pc[v] \in RunSteps => status'[job[v]] # "absent"
      BY <3>1, <2>0, UpdateKeepsRows DEF Statuses
    <3> QED BY <1>9, <3>2, <2>0 DEF MarkRunning, RowExists, WorkersOK, Goto,
               RunSteps
  <2>3. UploadedFirst'
    BY <1>9, <2>0 DEF MarkRunning, UploadedFirst, StoresOK, WorkersOK, Goto
  <2>4. CompletedHasArtifact'
    BY <1>9, <2>0 DEF MarkRunning, CompletedHasArtifact, UploadedFirst,
       StoresOK, rows, hash, UpdateWhere, SetStatus, RowLocked
  <2> QED BY <2>1, <2>2, <2>3, <2>4
<1>10. CASE Heartbeat(w)
  <2>0. job[w] \in Jobs
    BY <1>10, HeldJob DEF Heartbeat, RunSteps
  <2>1. CheckedRowStays'
    BY <1>10, <2>0 DEF Heartbeat, CheckedRowStays, StoresOK, HandlersOK, rows,
       api, UpdateWhere, SetStatus, RowLocked
  <2>2. RowExists'
    <3>1. UpdateWhere(job[w], "running", "running") /\ UNCHANGED create
      BY <1>10, <2>0 DEF Heartbeat, api
    <3>2. /\ \A i \in Jobs : create'[i] = "idle" <=> status'[i] = "absent"
          /\ \A v \in Workers : pc[v] \in RunSteps => status'[job[v]] # "absent"
      BY <3>1, <2>0, UpdateKeepsRows DEF Statuses
    <3> QED BY <1>10, <3>2, <2>0 DEF Heartbeat, RowExists, WorkersOK, Goto,
               RunSteps
  <2>3. UploadedFirst'
    BY <1>10, <2>0 DEF Heartbeat, UploadedFirst, StoresOK, WorkersOK, Goto
  <2>4. CompletedHasArtifact'
    BY <1>10, <2>0 DEF Heartbeat, CompletedHasArtifact, UploadedFirst,
       StoresOK, rows, hash, UpdateWhere, SetStatus, RowLocked
  <2> QED BY <2>1, <2>2, <2>3, <2>4
<1>11. CASE MarkCompleted(w)
  <2>0. job[w] \in Jobs
    BY <1>11, HeldJob DEF MarkCompleted, RunSteps
  <2>1. CheckedRowStays'
    BY <1>11, <2>0 DEF MarkCompleted, CheckedRowStays, StoresOK, HandlersOK,
       rows, api, UpdateWhere, SetStatus, RowLocked
  <2>2. RowExists'
    <3>1. UpdateWhere(job[w], "running", "completed") /\ UNCHANGED create
      BY <1>11, <2>0 DEF MarkCompleted, api
    <3>2. /\ \A i \in Jobs : create'[i] = "idle" <=> status'[i] = "absent"
          /\ \A v \in Workers : pc[v] \in RunSteps => status'[job[v]] # "absent"
      BY <3>1, <2>0, UpdateKeepsRows DEF Statuses
    <3> QED BY <1>11, <3>2, <2>0 DEF MarkCompleted, RowExists, WorkersOK,
               Goto, RunSteps
  <2>3. UploadedFirst'
    BY <1>11, <2>0 DEF MarkCompleted, UploadedFirst, StoresOK, WorkersOK, Goto
  <2>4. CompletedHasArtifact'
    BY <1>11, <2>0 DEF MarkCompleted, CompletedHasArtifact, UploadedFirst,
       StoresOK, rows, hash, UpdateWhere, SetStatus, RowLocked
  <2> QED BY <2>1, <2>2, <2>3, <2>4
<1>12. CASE MarkFailed(w)
  <2>0. job[w] \in Jobs
    BY <1>12, HeldJob DEF MarkFailed, RunSteps
  <2>1. CheckedRowStays'
    BY <1>12, <2>0 DEF MarkFailed, CheckedRowStays, StoresOK, HandlersOK,
       rows, api, UpdateWhere, SetStatus, RowLocked
  <2>2. RowExists'
    <3>1. UpdateWhere(job[w], "running", "failed") /\ UNCHANGED create
      BY <1>12, <2>0 DEF MarkFailed, api
    <3>2. /\ \A i \in Jobs : create'[i] = "idle" <=> status'[i] = "absent"
          /\ \A v \in Workers : pc[v] \in RunSteps => status'[job[v]] # "absent"
      BY <3>1, <2>0, UpdateKeepsRows DEF Statuses
    <3> QED BY <1>12, <3>2, <2>0 DEF MarkFailed, RowExists, WorkersOK, Goto,
               RunSteps
  <2>3. UploadedFirst'
    BY <1>12, <2>0 DEF MarkFailed, UploadedFirst, StoresOK, WorkersOK, Goto
  <2>4. CompletedHasArtifact'
    BY <1>12, <2>0 DEF MarkFailed, CompletedHasArtifact, UploadedFirst,
       StoresOK, rows, hash, UpdateWhere, SetStatus, RowLocked
  <2> QED BY <2>1, <2>2, <2>3, <2>4
<1>13. CASE PublishRunning(w)
  <2>0. job[w] \in Jobs
    BY <1>13, HeldJob DEF PublishRunning, RunSteps
  <2>1. CheckedRowStays'
    BY <1>13, <2>0 DEF PublishRunning, CheckedRowStays, StoresOK, HandlersOK,
       rows, api
  <2>2. RowExists'
    BY <1>13, <2>0 DEF PublishRunning, RowExists, StoresOK, WorkersOK,
       HandlersOK, Goto, RunSteps, rows, api
  <2>3. UploadedFirst'
    BY <1>13, <2>0 DEF PublishRunning, UploadedFirst, StoresOK, WorkersOK, Goto
  <2>4. CompletedHasArtifact'
    BY <1>13, <2>0 DEF PublishRunning, CompletedHasArtifact, UploadedFirst,
       StoresOK, rows, hash, publish
  <2> QED BY <2>1, <2>2, <2>3, <2>4
<1>14. CASE PublishCompleted(w)
  <2>0. job[w] \in Jobs
    BY <1>14, HeldJob DEF PublishCompleted, RunSteps
  <2>1. CheckedRowStays'
    BY <1>14, <2>0 DEF PublishCompleted, CheckedRowStays, StoresOK,
       HandlersOK, rows, api
  <2>2. RowExists'
    BY <1>14, <2>0 DEF PublishCompleted, RowExists, StoresOK, WorkersOK,
       HandlersOK, Goto, RunSteps, rows, api
  <2>3. UploadedFirst'
    BY <1>14, <2>0 DEF PublishCompleted, UploadedFirst, StoresOK, WorkersOK,
       Goto
  <2>4. CompletedHasArtifact'
    BY <1>14, <2>0 DEF PublishCompleted, CompletedHasArtifact, UploadedFirst,
       StoresOK, rows, hash, publish
  <2> QED BY <2>1, <2>2, <2>3, <2>4
<1>15. CASE PublishFailed(w)
  <2>0. job[w] \in Jobs
    BY <1>15, HeldJob DEF PublishFailed, RunSteps
  <2>1. CheckedRowStays'
    BY <1>15, <2>0 DEF PublishFailed, CheckedRowStays, StoresOK, HandlersOK,
       rows, api
  <2>2. RowExists'
    BY <1>15, <2>0 DEF PublishFailed, RowExists, StoresOK, WorkersOK,
       HandlersOK, Goto, RunSteps, rows, api
  <2>3. UploadedFirst'
    BY <1>15, <2>0 DEF PublishFailed, UploadedFirst, StoresOK, WorkersOK, Goto
  <2>4. CompletedHasArtifact'
    BY <1>15, <2>0 DEF PublishFailed, CompletedHasArtifact, UploadedFirst,
       StoresOK, rows, hash, publish
  <2> QED BY <2>1, <2>2, <2>3, <2>4
<1>16. CASE PublishQueued(w)
  <2>0. job[w] \in Jobs
    BY <1>16, HeldJob DEF PublishQueued, RunSteps
  <2>1. CheckedRowStays'
    BY <1>16, <2>0 DEF PublishQueued, CheckedRowStays, StoresOK, HandlersOK,
       rows, api
  <2>2. RowExists'
    BY <1>16, <2>0 DEF PublishQueued, RowExists, StoresOK, WorkersOK,
       HandlersOK, Goto, RunSteps, rows, api
  <2>3. UploadedFirst'
    BY <1>16, <2>0 DEF PublishQueued, UploadedFirst, StoresOK, WorkersOK, Goto
  <2>4. CompletedHasArtifact'
    BY <1>16, <2>0 DEF PublishQueued, CompletedHasArtifact, UploadedFirst,
       StoresOK, rows, hash, publish
  <2> QED BY <2>1, <2>2, <2>3, <2>4
<1>17. CASE PublishHeartbeat(w)
  <2>0. job[w] \in Jobs
    BY <1>17, HeldJob DEF PublishHeartbeat, RunSteps
  <2>1. CheckedRowStays'
    BY <1>17, <2>0 DEF PublishHeartbeat, CheckedRowStays, StoresOK,
       HandlersOK, rows, api
  <2>2. RowExists'
    BY <1>17, <2>0 DEF PublishHeartbeat, RowExists, StoresOK, WorkersOK,
       HandlersOK, Goto, RunSteps, rows, api, AfterHeartbeat
  <2>3. UploadedFirst'
    BY <1>17, <2>0 DEF PublishHeartbeat, UploadedFirst, StoresOK, WorkersOK,
       Goto, AfterHeartbeat
  <2>4. CompletedHasArtifact'
    BY <1>17, <2>0 DEF PublishHeartbeat, CompletedHasArtifact, UploadedFirst,
       StoresOK, rows, hash, publish
  <2> QED BY <2>1, <2>2, <2>3, <2>4
<1>18. CASE Upload(w)
  <2>0. job[w] \in Jobs
    BY <1>18, HeldJob DEF Upload, RunSteps
  <2>1. CheckedRowStays'
    BY <1>18, <2>0 DEF Upload, CheckedRowStays, StoresOK, HandlersOK, rows, api
  <2>2. RowExists'
    BY <1>18, <2>0 DEF Upload, RowExists, StoresOK, WorkersOK, HandlersOK,
       Goto, RunSteps, rows, api
  <2>3. UploadedFirst'
    BY <1>18, <2>0 DEF Upload, UploadedFirst, StoresOK, WorkersOK, Goto
  <2>4. CompletedHasArtifact'
    BY <1>18, <2>0 DEF Upload, CompletedHasArtifact, UploadedFirst, StoresOK,
       rows, hash
  <2> QED BY <2>1, <2>2, <2>3, <2>4
<1>19. CASE Claim(w)
  <2>1. CheckedRowStays'
    BY <1>19 DEF Claim, CheckedRowStays, StoresOK, HandlersOK, rows, api
  <2>2. RowExists'
    BY <1>19 DEF Claim, RowExists, StoresOK, WorkersOK, HandlersOK, Goto,
       RunSteps, rows, api
  <2>3. UploadedFirst'
    BY <1>19 DEF Claim, UploadedFirst, StoresOK, WorkersOK, Goto
  <2>4. CompletedHasArtifact'
    BY <1>19 DEF Claim, CompletedHasArtifact, UploadedFirst, StoresOK, rows,
       hash
  <2> QED BY <2>1, <2>2, <2>3, <2>4
<1>20. CASE Ack(w)
  <2>1. CheckedRowStays'
    BY <1>20 DEF Ack, CheckedRowStays, StoresOK, HandlersOK, rows, api
  <2>2. RowExists'
    BY <1>20 DEF Ack, RowExists, StoresOK, WorkersOK, HandlersOK, Goto,
       RunSteps, rows, api
  <2>3. UploadedFirst'
    BY <1>20 DEF Ack, UploadedFirst, StoresOK, WorkersOK, Goto
  <2>4. CompletedHasArtifact'
    BY <1>20 DEF Ack, CompletedHasArtifact, UploadedFirst, StoresOK, rows, hash
  <2> QED BY <2>1, <2>2, <2>3, <2>4
<1>21. CASE Crash(w)
  <2>1. CheckedRowStays'
    BY <1>21 DEF Crash, CheckedRowStays, StoresOK, HandlersOK, rows, api
  <2>2. RowExists'
    BY <1>21 DEF Crash, RowExists, StoresOK, WorkersOK, HandlersOK, Goto,
       RunSteps, rows, api
  <2>3. UploadedFirst'
    BY <1>21 DEF Crash, UploadedFirst, StoresOK, WorkersOK, Goto
  <2>4. CompletedHasArtifact'
    BY <1>21 DEF Crash, CompletedHasArtifact, UploadedFirst, StoresOK, rows,
       hash
  <2> QED BY <2>1, <2>2, <2>3, <2>4
<1>22. CASE FindStale(w)
  <2>1. CheckedRowStays'
    BY <1>22 DEF FindStale, CheckedRowStays, StoresOK, HandlersOK, rows, api
  <2>2. RowExists'
    BY <1>22 DEF FindStale, RowExists, StoresOK, WorkersOK, HandlersOK, Goto,
       RunSteps, rows, api
  <2>3. UploadedFirst'
    BY <1>22 DEF FindStale, UploadedFirst, StoresOK, WorkersOK, Goto
  <2>4. CompletedHasArtifact'
    BY <1>22 DEF FindStale, CompletedHasArtifact, UploadedFirst, StoresOK,
       rows, hash
  <2> QED BY <2>1, <2>2, <2>3, <2>4
<1>23. CASE FindOrphans(w)
  <2>1. CheckedRowStays'
    BY <1>23 DEF FindOrphans, CheckedRowStays, StoresOK, HandlersOK, rows, api
  <2>2. RowExists'
    BY <1>23 DEF FindOrphans, RowExists, StoresOK, WorkersOK, HandlersOK,
       Goto, RunSteps, rows, api
  <2>3. UploadedFirst'
    BY <1>23 DEF FindOrphans, UploadedFirst, StoresOK, WorkersOK, Goto
  <2>4. CompletedHasArtifact'
    BY <1>23 DEF FindOrphans, CompletedHasArtifact, UploadedFirst, StoresOK,
       rows, hash
  <2> QED BY <2>1, <2>2, <2>3, <2>4
<1>24. CASE QueuedIds(w)
  <2>1. CheckedRowStays'
    BY <1>24 DEF QueuedIds, CheckedRowStays, StoresOK, HandlersOK, rows, api
  <2>2. RowExists'
    BY <1>24 DEF QueuedIds, RowExists, StoresOK, WorkersOK, HandlersOK, Goto,
       RunSteps, rows, api
  <2>3. UploadedFirst'
    BY <1>24 DEF QueuedIds, UploadedFirst, StoresOK, WorkersOK, Goto
  <2>4. CompletedHasArtifact'
    BY <1>24 DEF QueuedIds, CompletedHasArtifact, UploadedFirst, StoresOK,
       rows, hash
  <2> QED BY <2>1, <2>2, <2>3, <2>4
<1>25. CASE InFlightIds(w)
  <2>1. CheckedRowStays'
    BY <1>25 DEF InFlightIds, CheckedRowStays, StoresOK, HandlersOK, rows, api
  <2>2. RowExists'
    BY <1>25 DEF InFlightIds, RowExists, StoresOK, WorkersOK, HandlersOK,
       Goto, RunSteps, rows, api
  <2>3. UploadedFirst'
    BY <1>25 DEF InFlightIds, UploadedFirst, StoresOK, WorkersOK, Goto
  <2>4. CompletedHasArtifact'
    BY <1>25 DEF InFlightIds, CompletedHasArtifact, UploadedFirst, StoresOK,
       rows, hash
  <2> QED BY <2>1, <2>2, <2>3, <2>4
<1>26. CASE ResetToQueued(w)
  <2>0. PICK j \in Jobs : /\ UpdateWhere(j, "running", "queued")
                          /\ job' = [job EXCEPT ![w] = j]
    BY <1>26 DEF ResetToQueued, WorkersOK
  <2>1. CheckedRowStays'
    BY <1>26, <2>0 DEF ResetToQueued, CheckedRowStays, StoresOK, HandlersOK,
       rows, api, UpdateWhere, SetStatus, RowLocked
  <2>2. RowExists'
    <3>1. UpdateWhere(j, "running", "queued") /\ UNCHANGED create
      BY <1>26, <2>0 DEF ResetToQueued, api
    <3>2. /\ \A i \in Jobs : create'[i] = "idle" <=> status'[i] = "absent"
          /\ \A v \in Workers : pc[v] \in RunSteps => status'[job[v]] # "absent"
      BY <3>1, <2>0, UpdateKeepsRows DEF Statuses
    <3> QED BY <1>26, <3>2, <2>0 DEF ResetToQueued, RowExists, WorkersOK,
               Goto, RunSteps
  <2>3. UploadedFirst'
    BY <1>26, <2>0 DEF ResetToQueued, UploadedFirst, StoresOK, WorkersOK, Goto
  <2>4. CompletedHasArtifact'
    BY <1>26, <2>0 DEF ResetToQueued, CompletedHasArtifact, UploadedFirst,
       StoresOK, rows, hash, UpdateWhere, SetStatus, RowLocked
  <2> QED BY <2>1, <2>2, <2>3, <2>4
<1>27. CASE RequeueStale(w)
  <2>0. job[w] \in Jobs
    BY <1>27, HeldJob DEF RequeueStale, RunSteps
  <2>1. CheckedRowStays'
    BY <1>27, <2>0 DEF RequeueStale, CheckedRowStays, StoresOK, HandlersOK,
       rows, api
  <2>2. RowExists'
    BY <1>27, <2>0 DEF RequeueStale, RowExists, StoresOK, WorkersOK,
       HandlersOK, Goto, RunSteps, rows, api
  <2>3. UploadedFirst'
    BY <1>27, <2>0 DEF RequeueStale, UploadedFirst, StoresOK, WorkersOK, Goto
  <2>4. CompletedHasArtifact'
    BY <1>27, <2>0 DEF RequeueStale, CompletedHasArtifact, UploadedFirst,
       StoresOK, rows, hash
  <2> QED BY <2>1, <2>2, <2>3, <2>4
<1>28. CASE RequeueOrphan(w)
  <2>1. CheckedRowStays'
    BY <1>28 DEF RequeueOrphan, CheckedRowStays, StoresOK, HandlersOK, rows,
       api
  <2>2. RowExists'
    BY <1>28 DEF RequeueOrphan, RowExists, StoresOK, WorkersOK, HandlersOK,
       Goto, RunSteps, rows, api
  <2>3. UploadedFirst'
    BY <1>28 DEF RequeueOrphan, UploadedFirst, StoresOK, WorkersOK, Goto
  <2>4. CompletedHasArtifact'
    BY <1>28 DEF RequeueOrphan, CompletedHasArtifact, UploadedFirst, StoresOK,
       rows, hash
  <2> QED BY <2>1, <2>2, <2>3, <2>4
<1> QED
  BY <1>1, <1>2, <1>3, <1>4, <1>4a, <1>5, <1>6, <1>7, <1>8, <1>9, <1>10, <1>11,
     <1>12, <1>13, <1>14, <1>15, <1>16, <1>17, <1>18, <1>19, <1>20, <1>21,
     <1>22, <1>23, <1>24, <1>25, <1>26, <1>27, <1>28
  DEF Work, Reconcile

\* The invariant is inductive.
LEMMA InvNext ==
  ASSUME Inv, [Next]_vars PROVE Inv'
<1>1. TypeOK'
  BY TypeNext DEF Inv
<1>2. CASE UNCHANGED vars
  BY <1>1, <1>2 DEF Inv, CheckedRowStays, RowExists, UploadedFirst,
     CompletedHasArtifact, vars, rows, hash, api, worker
<1>3. CASE Next
  BY <1>1, <1>3, InvHandlers, InvWorkers DEF Next, Inv
<1> QED BY <1>2, <1>3

\* The initial state has the invariant.
LEMMA InvInit ==
  ASSUME Init PROVE Inv
<1>1. TypeOK
  BY TypeInit
<1>2. CheckedRowStays /\ RowExists /\ UploadedFirst /\ CompletedHasArtifact
  BY DEF Init, CheckedRowStays, RowExists, UploadedFirst, CompletedHasArtifact,
         RunSteps
<1> QED BY <1>1, <1>2 DEF Inv

\* The inductive invariant holds in every reachable state.
THEOREM Invariance == Spec => []Inv
<1>1. Init => Inv
  BY InvInit
<1>2. Inv /\ [Next]_vars => Inv'
  BY InvNext
<1> QED BY <1>1, <1>2, PTL DEF Spec

\* JobStore.Update's read-then-write is atomic: whatever the workers and the
\* other handler do, the status it checked still allows what it writes.
THEOREM UpdateIsAtomic == Spec => []CheckedRowStays
<1>1. Inv => CheckedRowStays
  BY DEF Inv
<1> QED BY <1>1, Invariance, PTL

\* Neither the row nor the live hash says completed before the adapter is in
\* Garage, zombies included.
THEOREM CompletedIsBacked == Spec => []CompletedHasArtifact
<1>1. Inv => CompletedHasArtifact
  BY DEF Inv
<1> QED BY <1>1, Invariance, PTL

-----------------------------------------------------------------------------
(***************************************************************************)
(* The pipeline implements JobLifecycle.                                   *)
(***************************************************************************)

\* What a conditional UPDATE of a worker is in the life cycle.
LEMMA UpdateIsMove ==
  ASSUME StoresOK, NEW j \in Jobs, NEW from, NEW to, UNCHANGED uploaded,
         UpdateWhere(j, from, to)
  PROVE  Lifecycle!Move(j, {from}, to) \/ UNCHANGED <<status, uploaded>>
BY DEF StoresOK, UpdateWhere, SetStatus, rows, Lifecycle!Move

\* Every step of the pipeline is a step of the life cycle or a stutter.
LEMMA StepRefines ==
  ASSUME Inv, Next PROVE [Lifecycle!Next]_<<status, uploaded>>
<1> USE DEF Inv, TypeOK
<1>1. ASSUME NEW j \in Jobs,
             \/ CreateJob(j) \/ CancelLock(j) \/ Handler(j) \/ EnqueueError(j)
             \/ CreateDrop(j) \/ CancelDrop(j) \/ Age(j) \/ Expire(j)
      PROVE  [Lifecycle!Next]_<<status, uploaded>>
  <2>1. CASE CreateJob(j)
    <3>1. Lifecycle!Submit(j)
      BY <2>1 DEF CreateJob, RowExists, SetStatus, Lifecycle!Submit,
         Lifecycle!Move
    <3> QED BY <3>1 DEF Lifecycle!Next
  <2>2. CASE MarkFailedCommit(j)
    <3>1. Lifecycle!Fail(j)
      BY <2>2 DEF MarkFailedCommit, CheckedRowStays, validateTransition,
         validTransitions, SetStatus, Lifecycle!Fail, Lifecycle!Move
    <3> QED BY <3>1 DEF Lifecycle!Next
  <2>3. CASE CancelCommit(j)
    <3>1. Lifecycle!Cancel(j)
      BY <2>3 DEF CancelCommit, CheckedRowStays, validateTransition,
         validTransitions, SetStatus, Lifecycle!Cancel, Lifecycle!Move
    <3> QED BY <3>1 DEF Lifecycle!Next
  <2>4. CASE \/ CancelLock(j) \/ Enqueue(j) \/ MarkFailedLock(j) \/ CancelDequeue(j)
             \/ EnqueueError(j) \/ CreateDrop(j) \/ CancelDrop(j) \/ Age(j)
             \/ Expire(j)
    BY <2>4 DEF CancelLock, Enqueue, MarkFailedLock, CancelDequeue,
       EnqueueError,
       CreateDrop, CancelDrop, Age, Expire, rows
  <2> QED BY <1>1, <2>1, <2>2, <2>3, <2>4 DEF Handler
<1>2. ASSUME NEW w \in Workers,
             \/ Boot(w) \/ Work(w) \/ Reconcile(w) \/ Stop(w) \/ Raise(w) \/ Crash(w)
      PROVE  [Lifecycle!Next]_<<status, uploaded>>
  <2>1. CASE MarkRunning(w)
    <3>1. job[w] \in Jobs
      BY <2>1, HeldJob DEF MarkRunning, RunSteps
    <3>2. Lifecycle!Start(job[w]) \/ UNCHANGED <<status, uploaded>>
      BY <2>1, <3>1, UpdateIsMove DEF MarkRunning, Lifecycle!Start
    <3> QED BY <3>1, <3>2 DEF Lifecycle!Next
  <2>2. CASE Heartbeat(w)
    <3>1. job[w] \in Jobs
      BY <2>2, HeldJob DEF Heartbeat, RunSteps
    <3>2. UNCHANGED <<status, uploaded>>
      BY <2>2, <3>1 DEF Heartbeat, UpdateWhere, SetStatus, StoresOK, rows
    <3> QED BY <3>2
  <2>3. CASE Upload(w)
    <3>1. job[w] \in Jobs
      BY <2>3, HeldJob DEF Upload, RunSteps
    <3>2. Lifecycle!Produce(job[w])
      BY <2>3, <3>1 DEF Upload, RowExists, RunSteps, rows, Lifecycle!Produce
    <3> QED BY <3>1, <3>2 DEF Lifecycle!Next
  <2>4. CASE MarkCompleted(w)
    <3>1. job[w] \in Jobs /\ uploaded[job[w]]
      BY <2>4, HeldJob DEF MarkCompleted, UploadedFirst, RunSteps
    <3>2. Lifecycle!Complete(job[w]) \/ UNCHANGED <<status, uploaded>>
      BY <2>4, <3>1, UpdateIsMove DEF MarkCompleted, Lifecycle!Complete
    <3> QED BY <3>1, <3>2 DEF Lifecycle!Next
  <2>5. CASE MarkFailed(w)
    <3>1. job[w] \in Jobs
      BY <2>5, HeldJob DEF MarkFailed
    <3>2. Lifecycle!Fail(job[w]) \/ UNCHANGED <<status, uploaded>>
      BY <2>5, <3>1, UpdateIsMove DEF MarkFailed, Lifecycle!Fail
    <3> QED BY <3>1, <3>2 DEF Lifecycle!Next
  <2>6. CASE ResetToQueued(w)
    <3>1. PICK j \in Jobs : UpdateWhere(j, "running", "queued")
      BY <2>6 DEF ResetToQueued, WorkersOK
    <3>2. Lifecycle!Recover(j) \/ UNCHANGED <<status, uploaded>>
      BY <2>6, <3>1, UpdateIsMove DEF ResetToQueued, Lifecycle!Recover
    <3> QED BY <3>2 DEF Lifecycle!Next
  <2>7. CASE \/ Boot(w) \/ Stop(w) \/ Raise(w) \/ Crash(w) \/ Claim(w)
             \/ ClaimTimeout(w) \/ TickReconcile(w) \/ TickLoop(w) \/ Fetch(w)
             \/ LoopTest(w) \/ PublishRunning(w) \/ Validate(w) \/ PublishHeartbeat(w)
             \/ PublishCompleted(w) \/ PublishFailed(w) \/ Ack(w)
    BY <2>7 DEF Boot, Stop, LoopExit, Raise, Crash, Claim, ClaimTimeout, TickReconcile,
       TickLoop, LoopTest, Fetch, PublishRunning, Validate, PublishHeartbeat,
       PublishCompleted, PublishFailed, Ack, rows
  <2>8. CASE \/ FindStale(w) \/ PublishQueued(w) \/ RequeueStale(w)
             \/ FindOrphans(w) \/ QueuedIds(w) \/ InFlightIds(w)
             \/ RequeueOrphan(w)
    BY <2>8 DEF FindStale, PublishQueued, RequeueStale, FindOrphans, QueuedIds,
       InFlightIds, RequeueOrphan, rows
  <2> QED BY <1>2, <2>1, <2>2, <2>3, <2>4, <2>5, <2>6, <2>7, <2>8
          DEF Work, Reconcile
<1> QED BY <1>1, <1>2 DEF Next

\* The code implements the life cycle the platform promises: every change of
\* a row's status, by whichever process, is one of its moves.
THEOREM PipelineRefines == Spec => RefinesLifecycle
<1>1. Init => Lifecycle!Init
  BY DEF Init, Lifecycle!Init
<1>2. Inv /\ [Next]_vars => [Lifecycle!Next]_(Lifecycle!lifecycleVars)
  BY StepRefines DEF vars, rows, Lifecycle!lifecycleVars
<1> QED BY <1>1, <1>2, Invariance, PTL DEF Spec, RefinesLifecycle,
           Lifecycle!Spec

\* A move of the life cycle never leaves a terminal status.
LEMMA LifecycleTerminal ==
  ASSUME StoresOK, [Lifecycle!Next]_<<status, uploaded>>, NEW j \in Jobs,
         status[j] \in Terminal
  PROVE  status'[j] = status[j]
<1>1. CASE UNCHANGED <<status, uploaded>>
  BY <1>1
<1>2. CASE Lifecycle!Next
  <2>1. PICK i \in Jobs :
          \/ Lifecycle!Submit(i) \/ Lifecycle!Start(i) \/ Lifecycle!Recover(i)
          \/ Lifecycle!Complete(i) \/ Lifecycle!Fail(i) \/ Lifecycle!Cancel(i)
          \/ Lifecycle!Produce(i)
    BY <1>2 DEF Lifecycle!Next
  <2>2. \/ status' = status
        \/ /\ status[i] \in {"absent", "queued", "running"}
           /\ \E s : status' = [status EXCEPT ![i] = s]
    BY <2>1 DEF Lifecycle!Submit, Lifecycle!Start, Lifecycle!Recover,
       Lifecycle!Complete, Lifecycle!Fail, Lifecycle!Cancel, Lifecycle!Produce,
       Lifecycle!Move
  <2> QED BY <2>2 DEF StoresOK, Terminal
<1> QED BY <1>1, <1>2

\* A job that has ended stays as it ended.
THEOREM EndedStaysEnded == Spec => TerminalIsFinal
<1>1. ASSUME Inv, [Next]_vars
      PROVE  [\A j \in Jobs : status[j] \in Terminal => status'[j] = status[j]]_vars
  <2>1. CASE UNCHANGED vars
    BY <2>1
  <2>2. CASE Next
    BY <1>1, <2>2, StepRefines, LifecycleTerminal DEF Inv, TypeOK
  <2> QED BY <1>1, <2>1, <2>2
<1> QED BY <1>1, Invariance, PTL DEF Spec, TerminalIsFinal
=============================================================================
