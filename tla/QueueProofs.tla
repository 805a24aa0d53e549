---------------------------- MODULE QueueProofs ----------------------------
(***************************************************************************)
(* Proofs about the Redis lists of JobPipeline: a queued job is never left *)
(* where neither a worker nor the orphan check would find it.              *)
(***************************************************************************)
EXTENDS JobPipelineProofs

(***************************************************************************)
(* The ids in a list and what the list commands do to them.                *)
(***************************************************************************)

Elements(s) == {s[i] : i \in 1..Len(s)}

\* Append adds its id.
LEMMA AppendElements ==
  ASSUME NEW S, NEW s \in Seq(S), NEW e \in S
  PROVE  Elements(Append(s, e)) = Elements(s) \cup {e}
<1> DEFINE t == Append(s, e)
<1>1. /\ Len(s) \in Nat /\ Len(t) = Len(s) + 1 /\ t[Len(s) + 1] = e
      /\ \A i \in 1..Len(s) : t[i] = s[i]
  OBVIOUS
<1> HIDE DEF t
<1>2. ASSUME NEW x \in Elements(t) PROVE x \in Elements(s) \cup {e}
  <2>1. PICK i \in 1..Len(t) : x = t[i]
    BY DEF Elements
  <2>2. i = Len(s) + 1 \/ i \in 1..Len(s)
    BY <1>1
  <2> QED BY <1>1, <2>1, <2>2 DEF Elements
<1>3. ASSUME NEW x \in Elements(s) PROVE x \in Elements(t)
  <2>1. PICK i \in 1..Len(s) : x = s[i]
    BY DEF Elements
  <2>2. i \in 1..Len(t) /\ x = t[i]
    BY <1>1, <2>1
  <2> QED BY <2>2 DEF Elements
<1>4. e \in Elements(t)
  <2>1. Len(s) + 1 \in 1..Len(t)
    BY <1>1
  <2> QED BY <1>1, <2>1 DEF Elements
<1> QED BY <1>2, <1>3, <1>4 DEF t

\* So does LPUSH.
LEMMA LpushElements ==
  ASSUME NEW S, NEW s \in Seq(S), NEW e \in S
  PROVE  Elements(LPUSH(s, e)) = Elements(s) \cup {e}
<1> DEFINE t == <<e>> \o s
<1>1. /\ Len(s) \in Nat /\ Len(t) = Len(s) + 1 /\ t[1] = e
      /\ \A i \in 1..Len(s) : t[i + 1] = s[i]
  OBVIOUS
<1> HIDE DEF t
<1>2. ASSUME NEW x \in Elements(t) PROVE x \in Elements(s) \cup {e}
  <2>1. PICK i \in 1..Len(t) : x = t[i]
    BY DEF Elements
  <2>2. i = 1 \/ (i - 1 \in 1..Len(s) /\ i = (i - 1) + 1)
    BY <1>1
  <2>3. CASE i = 1
    BY <1>1, <2>1, <2>3
  <2>4. CASE i - 1 \in 1..Len(s) /\ i = (i - 1) + 1
    <3>1. x = s[i - 1]
      BY <1>1, <2>1, <2>4
    <3> QED BY <2>4, <3>1 DEF Elements
  <2> QED BY <2>2, <2>3, <2>4
<1>3. ASSUME NEW x \in Elements(s) PROVE x \in Elements(t)
  <2>1. PICK i \in 1..Len(s) : x = s[i]
    BY DEF Elements
  <2>2. i + 1 \in 1..Len(t) /\ x = t[i + 1]
    BY <1>1, <2>1
  <2> QED BY <2>2 DEF Elements
<1>4. e \in Elements(t)
  <2>1. 1 \in 1..Len(t)
    BY <1>1
  <2> QED BY <1>1, <2>1 DEF Elements
<1> QED BY <1>2, <1>3, <1>4 DEF LPUSH, t

\* RPOP leaves all but the last entry.
LEMMA PopLength ==
  ASSUME NEW S, NEW s \in Seq(S), s # <<>>
  PROVE  /\ Len(s) \in Nat \ {0}
         /\ Len(SubSeq(s, 1, Len(s) - 1)) = Len(s) - 1
         /\ \A i \in 1..Len(SubSeq(s, 1, Len(s) - 1)) :
               SubSeq(s, 1, Len(s) - 1)[i] = s[i]
<1> DEFINE t == SubSeq(s, 1, Len(s) - 1)
<1>1. Len(s) \in Nat \ {0}
  OBVIOUS
<1>2. 1 \in Nat /\ Len(s) - 1 \in Nat /\ Len(s) - 1 =< Len(s)
  BY <1>1
<1>3. Len(t) = IF 1 =< Len(s) - 1 THEN Len(s) - 1 ELSE 0
  BY <1>2
<1>4. Len(t) = Len(s) - 1
  <2>1. \A n \in Nat : n = 0 \/ 1 =< n
    OBVIOUS
  <2> HIDE DEF t
  <2> QED BY <1>2, <1>3, <2>1
<1>5. ASSUME NEW i \in 1..(Len(s) - 1) PROVE t[i] = s[i]
  BY <1>1, <1>5
<1> HIDE DEF t
<1> QED BY <1>1, <1>4, <1>5 DEF t

\* What it takes is an entry, and no other id can go with it.
LEMMA PopElements ==
  ASSUME NEW S, NEW s \in Seq(S), s # <<>>
  PROVE  /\ s[Len(s)] \in S
         /\ Elements(s)
              = Elements(SubSeq(s, 1, Len(s) - 1)) \cup {s[Len(s)]}
<1> DEFINE t == SubSeq(s, 1, Len(s) - 1)
<1>1. /\ Len(s) \in Nat \ {0} /\ Len(t) = Len(s) - 1
      /\ \A i \in 1..Len(t) : t[i] = s[i]
  BY PopLength
<1> HIDE DEF t
<1>2. Len(s) \in 1..Len(s)
  BY <1>1
<1>3. ASSUME NEW x \in Elements(s) PROVE x \in Elements(t) \cup {s[Len(s)]}
  <2>1. PICK i \in 1..Len(s) : x = s[i]
    BY DEF Elements
  <2>2. i = Len(s) \/ i \in 1..Len(t)
    BY <1>1
  <2> QED BY <1>1, <2>1, <2>2 DEF Elements
<1>4. ASSUME NEW x \in Elements(t) PROVE x \in Elements(s)
  <2>1. PICK i \in 1..Len(t) : x = t[i]
    BY DEF Elements
  <2>2. i \in 1..Len(s) /\ x = s[i]
    BY <1>1, <2>1
  <2> QED BY <2>2 DEF Elements
<1>5. s[Len(s)] \in Elements(s) /\ s[Len(s)] \in S
  BY <1>2 DEF Elements
<1> QED BY <1>3, <1>4, <1>5 DEF t

\* The ids among the first i entries.
Upto(s, i) == {s[k] : k \in 1..i}

\* f is the scan of an LREM of e from s.
Scans(S, s, e, f) == /\ f \in [0..Len(s) -> Seq(S)]
                     /\ \A i \in 0..Len(s) : f[i] = ScanStep(s, e, i, f)

\* What it has kept after i entries.
LEMMA LremPrefix ==
  ASSUME NEW S, NEW s \in Seq(S), NEW e, NEW f, Scans(S, s, e, f)
  PROVE  \A i \in 0..Len(s) : Elements(f[i]) = Upto(s, i) \ {e}
<1> DEFINE T == {m \in 0..Len(s) : Elements(f[m]) # Upto(s, m) \ {e}}
<1> SUFFICES ASSUME T # {} PROVE FALSE
  OBVIOUS
<1>1. PICK m \in T : \A k \in T : m =< k
  <2>1. T \subseteq Nat
    OBVIOUS
  <2> HIDE DEF T
  <2> QED BY <2>1, LeastNatural
<1>2. CASE m = 0
  <2>1. f[0] = <<>>
    BY DEF Scans, ScanStep
  <2>2. Elements(<<>>) = {} /\ Upto(s, 0) = {}
    BY DEF Elements, Upto
  <2> QED BY <1>1, <1>2, <2>1, <2>2
<1>3. CASE m # 0
  <2>1. m - 1 \in 0..Len(s) /\ m \in 1..Len(s) /\ ~(m =< m - 1)
    BY <1>3
  <2>2. Elements(f[m - 1]) = Upto(s, m - 1) \ {e}
    BY <1>1, <2>1
  <2>3. Upto(s, m) = Upto(s, m - 1) \cup {s[m]}
    <3>1. 1..m = 1..(m - 1) \cup {m}
      BY <2>1
    <3> QED BY <3>1 DEF Upto
  <2>4. f[m] = IF s[m] = e THEN f[m - 1] ELSE Append(f[m - 1], s[m])
    BY <1>1, <1>3 DEF Scans, ScanStep
  <2>5. s[m] \in S /\ f[m - 1] \in Seq(S)
    <3>1. s[m] \in S
      BY <2>1
    <3>2. f[m - 1] \in Seq(S)
      BY <2>1 DEF Scans
    <3> QED BY <3>1, <3>2
  <2>6. CASE s[m] = e
    BY <1>1, <2>2, <2>3, <2>4, <2>6
  <2>7. CASE s[m] # e
    <3>1. Elements(f[m]) = Elements(f[m - 1]) \cup {s[m]}
      BY <2>4, <2>5, <2>7, AppendElements
    <3> QED BY <1>1, <2>2, <2>3, <2>7, <3>1
  <2> QED BY <2>6, <2>7
<1> QED BY <1>2, <1>3

\* LREM takes every occurrence of its id and no other entry.
LEMMA LremElements ==
  ASSUME NEW S, NEW s \in Seq(S), NEW e
  PROVE  Elements(LREM(s, e)) = Elements(s) \ {e}
<1>1. PICK f : Scans(S, s, e, f) /\ LREM(s, e) = f[Len(s)]
  BY LremScan DEF Scans
<1>2. Elements(f[Len(s)]) = Upto(s, Len(s)) \ {e}
  BY <1>1, LremPrefix
<1> QED BY <1>1, <1>2 DEF Elements, Upto

\* The list has at most one entry for x.
Once(s, x) == \A i, k \in 1..Len(s) : s[i] = x /\ s[k] = x => i = k

\* An append makes a second one only of an id that is listed.
LEMMA AppendOnce ==
  ASSUME NEW S, NEW s \in Seq(S), NEW e \in S, NEW x, Once(s, x),
         x = e => x \notin Elements(s)
  PROVE  Once(Append(s, e), x)
<1> DEFINE t == Append(s, e)
<1>1. /\ Len(s) \in Nat /\ Len(t) = Len(s) + 1 /\ t[Len(s) + 1] = e
      /\ \A i \in 1..Len(s) : t[i] = s[i]
  OBVIOUS
<1> HIDE DEF t
<1> SUFFICES ASSUME NEW i \in 1..Len(t), NEW k \in 1..Len(t),
                    t[i] = x, t[k] = x
             PROVE  i = k
  BY DEF Once, t
<1>2. /\ i = Len(s) + 1 \/ i \in 1..Len(s)
      /\ k = Len(s) + 1 \/ k \in 1..Len(s)
  BY <1>1
<1>3. CASE i \in 1..Len(s) /\ k \in 1..Len(s)
  BY <1>1, <1>3 DEF Once
<1>4. \A n \in 1..Len(s) : s[n] = x => x # e
  BY DEF Elements
<1> QED BY <1>1, <1>2, <1>3, <1>4

\* So does LPUSH.
LEMMA LpushOnce ==
  ASSUME NEW S, NEW s \in Seq(S), NEW e \in S, NEW x, Once(s, x),
         x = e => x \notin Elements(s)
  PROVE  Once(LPUSH(s, e), x)
<1> DEFINE t == <<e>> \o s
<1>1. /\ Len(s) \in Nat /\ Len(t) = Len(s) + 1 /\ t[1] = e
      /\ \A i \in 1..Len(s) : t[i + 1] = s[i]
  OBVIOUS
<1> HIDE DEF t
<1> SUFFICES ASSUME NEW i \in 1..Len(t), NEW k \in 1..Len(t),
                    t[i] = x, t[k] = x
             PROVE  i = k
  BY DEF Once, LPUSH, t
<1>2. /\ i = 1 \/ (i - 1 \in 1..Len(s) /\ i = (i - 1) + 1)
      /\ k = 1 \/ (k - 1 \in 1..Len(s) /\ k = (k - 1) + 1)
  BY <1>1
<1>3. \A n \in 1..Len(s) : s[n] = x => x # e
  BY DEF Elements
<1>4. CASE i = 1
  <2>1. x = e
    BY <1>1, <1>4
  <2> QED BY <1>1, <1>2, <1>3, <1>4, <2>1
<1>5. CASE i - 1 \in 1..Len(s) /\ i = (i - 1) + 1
  <2>1. s[i - 1] = x /\ x # e
    BY <1>1, <1>3, <1>5
  <2>2. k - 1 \in 1..Len(s) /\ s[k - 1] = x
    BY <1>1, <1>2, <2>1
  <2>3. i - 1 = k - 1
    BY <1>5, <2>1, <2>2 DEF Once
  <2> QED BY <1>5, <2>2, <2>3
<1> QED BY <1>2, <1>4, <1>5

\* RPOP takes the only entry of its id along, and makes no second one.
LEMMA PopOnce ==
  ASSUME NEW S, NEW s \in Seq(S), s # <<>>, NEW x, Once(s, x)
  PROVE  /\ Once(SubSeq(s, 1, Len(s) - 1), x)
         /\ x = s[Len(s)] => x \notin Elements(SubSeq(s, 1, Len(s) - 1))
<1> DEFINE t == SubSeq(s, 1, Len(s) - 1)
<1>1. /\ Len(s) \in Nat \ {0} /\ Len(t) = Len(s) - 1
      /\ \A i \in 1..Len(t) : t[i] = s[i]
  BY PopLength
<1> HIDE DEF t
<1>2. \A i \in 1..Len(t) : i \in 1..Len(s) /\ t[i] = s[i] /\ i # Len(s)
  BY <1>1
<1>3. Len(s) \in 1..Len(s)
  BY <1>1
<1>4. Once(t, x)
  BY <1>2 DEF Once
<1>5. x = s[Len(s)] => x \notin Elements(t)
  <2> SUFFICES ASSUME x = s[Len(s)], NEW i \in 1..Len(t), t[i] = x
               PROVE  FALSE
    BY DEF Elements
  <2> QED BY <1>2, <1>3 DEF Once
<1> QED BY <1>4, <1>5 DEF t

\* LREM makes no second entry.
LEMMA LremOnce ==
  ASSUME NEW S, NEW s \in Seq(S), NEW e, NEW x, Once(s, x)
  PROVE  Once(LREM(s, e), x)
<1>1. PICK f : Scans(S, s, e, f) /\ LREM(s, e) = f[Len(s)]
  BY LremScan DEF Scans
<1>2. \A i \in 0..Len(s) : Elements(f[i]) = Upto(s, i) \ {e}
  BY <1>1, LremPrefix
<1> DEFINE T == {m \in 0..Len(s) : ~Once(f[m], x)}
<1>3. T = {}
  <2> SUFFICES ASSUME T # {} PROVE FALSE
    OBVIOUS
  <2>1. PICK m \in T : \A k \in T : m =< k
    <3>1. T \subseteq Nat
      OBVIOUS
    <3> HIDE DEF T
    <3> QED BY <3>1, LeastNatural
  <2>2. CASE m = 0
    <3>1. f[0] = <<>>
      BY <1>1 DEF Scans, ScanStep
    <3>2. Once(<<>>, x)
      BY DEF Once
    <3> QED BY <2>1, <2>2, <3>1, <3>2
  <2>3. CASE m # 0
    <3>1. m - 1 \in 0..Len(s) /\ m \in 1..Len(s) /\ ~(m =< m - 1)
      BY <2>3
    <3>2. Once(f[m - 1], x)
      BY <2>1, <3>1
    <3>3. f[m] = IF s[m] = e THEN f[m - 1] ELSE Append(f[m - 1], s[m])
      BY <1>1, <2>3 DEF Scans, ScanStep
    <3>4. s[m] \in S /\ f[m - 1] \in Seq(S)
      BY <1>1, <3>1 DEF Scans
    <3>5. x = s[m] => x \notin Upto(s, m - 1)
      <4> SUFFICES ASSUME x = s[m], NEW k \in 1..(m - 1), s[k] = x
                   PROVE  FALSE
        BY DEF Upto
      <4>1. k \in 1..Len(s) /\ k # m
        BY <3>1
      <4> QED BY <3>1, <4>1 DEF Once
    <3>6. x = s[m] => x \notin Elements(f[m - 1])
      BY <1>2, <3>1, <3>5
    <3>7. Once(f[m], x)
      BY <3>2, <3>3, <3>4, <3>6, AppendOnce
    <3> QED BY <2>1, <3>7
  <2> QED BY <2>2, <2>3
<1>4. Len(s) \in 0..Len(s)
  OBVIOUS
<1> QED BY <1>1, <1>3, <1>4

-----------------------------------------------------------------------------
(***************************************************************************)
(* The parts of the inductive invariant.                                   *)
(***************************************************************************)

\* The steps at which a worker, and maybe nobody else, knows of a queued job:
\* claimed and not yet running, or recovered and not yet requeued; with
\* failing infrastructure also the way from a failed mark_running to the ack.
HandSteps ==
    {"fetch", "start", "pubq", "requeue"}
      \cup IF "raise" \in Faults THEN {"fail", "pubfail", "ack"} ELSE {}

Handled(j) == \E w \in Workers : job[w] = j /\ pc[w] \in HandSteps

\* An id is listed, selected or recovered only once it has a row.
ListedHasRow ==
    /\ \A j \in Jobs : status[j] = "absent" => j \notin Entries \cup processing
    /\ \A w \in Workers :
          /\ \A j \in todo[w] : status[j] # "absent"
          /\ pc[w] \in {"pubq", "requeue"} => status[job[w]] # "absent"

\* Dequeue comes after the cancel has been committed.
DequeuedEnded ==
    \A j \in Jobs : cancel[j] = "dequeue" => status[j] \in Terminal

\* NeverStranded, with the steps at which the worker may be the only one to
\* know of the job.
Findable ==
    \A j \in Jobs : status[j] = "queued" /\ j \in processing
                      => j \in Entries \/ Handled(j)

QueueInv == ListedHasRow /\ DequeuedEnded /\ Findable

\* What HandSteps consists of.
LEMMA HandStepsAre ==
  /\ {"fetch", "start", "pubq", "requeue"} \subseteq HandSteps
  /\ HandSteps \subseteq {"fetch", "start", "pubq", "requeue", "fail",
                          "pubfail", "ack"}
  /\ "raise" \in Faults => {"fail", "pubfail", "ack"} \subseteq HandSteps
  /\ {"fail", "pubfail", "ack"} \cap HandSteps # {} => "raise" \in Faults
  /\ "fail" \in HandSteps <=> "pubfail" \in HandSteps
  /\ "pubfail" \in HandSteps <=> "ack" \in HandSteps
BY DEF HandSteps

\* No step removes a row, moves one out of a terminal status or, but for the
\* INSERT and reset_to_queued, makes one queued.
LEMMA RowsForward ==
  ASSUME Inv, Next, NEW j \in Jobs
  PROVE  /\ status[j] # "absent" => status'[j] # "absent"
         /\ status[j] \in Terminal => status'[j] = status[j]
         /\ status'[j] = "queued" =>
               status[j] \in {"absent", "queued", "running"}
<1>1. [Lifecycle!Next]_<<status, uploaded>>
  BY StepRefines
<1>2. StoresOK
  BY DEF Inv, TypeOK
<1>3. status[j] \in Terminal => status'[j] = status[j]
  BY <1>1, <1>2, LifecycleTerminal
<1>4. status[j] # "absent" => status'[j] # "absent"
  <2>1. CASE UNCHANGED <<status, uploaded>>
    BY <2>1
  <2>2. CASE Lifecycle!Next
    <3>1. PICK k \in Jobs :
            \/ Lifecycle!Submit(k) \/ Lifecycle!Start(k) \/ Lifecycle!Recover(k)
            \/ Lifecycle!Complete(k) \/ Lifecycle!Fail(k) \/ Lifecycle!Cancel(k)
            \/ Lifecycle!Produce(k)
      BY <2>2 DEF Lifecycle!Next
    <3>2. \/ status' = status
          \/ \E s \in Statuses : status' = [status EXCEPT ![k] = s]
      BY <3>1 DEF Lifecycle!Submit, Lifecycle!Start, Lifecycle!Recover,
         Lifecycle!Complete, Lifecycle!Fail, Lifecycle!Cancel,
         Lifecycle!Produce, Lifecycle!Move, Statuses
    <3>3. "absent" \notin Statuses
      BY DEF Statuses
    <3> QED BY <1>2, <3>2, <3>3 DEF StoresOK
  <2> QED BY <1>1, <2>1, <2>2
<1>5. status[j] \in {"absent", "queued", "running"} \cup Terminal
  BY <1>2 DEF StoresOK, Statuses, Terminal
<1>6. "queued" \notin Terminal
  BY DEF Terminal
<1> QED BY <1>3, <1>4, <1>5, <1>6

-----------------------------------------------------------------------------
(***************************************************************************)
(* Every step keeps the invariant.                                         *)
(***************************************************************************)

\* Nothing is listed before the first job.
LEMMA QueueInit == Init => QueueInv
<1> SUFFICES ASSUME Init PROVE QueueInv
  OBVIOUS
<1>1. Entries \cap Jobs = {}
  <2>1. CASE queue = <<>>
    BY <2>1 DEF Entries
  <2>2. CASE queue \in {<<f>> : f \in Foreign}
    <3>1. PICK f \in Foreign : queue = <<f>>
      BY <2>2
    <3>2. Entries = {f}
      BY <3>1 DEF Entries
    <3> QED BY <3>2, ConstantAssumption
  <2> QED BY <2>1, <2>2 DEF Init
<1> QED BY <1>1 DEF Init, QueueInv, ListedHasRow, DequeuedEnded, Findable

\* The steps of the backend's handlers and of time.
LEMMA QueueHandlers ==
  ASSUME Inv, QueueInv, NEW j \in Jobs,
         \/ CreateJob(j) \/ CancelLock(j) \/ Handler(j) \/ EnqueueError(j)
         \/ CreateDrop(j) \/ CancelDrop(j) \/ Age(j) \/ Expire(j)
  PROVE  QueueInv'
<1> USE DEF QueueInv, Inv, TypeOK
<1>1. \A i \in Jobs : /\ status[i] # "absent" => status'[i] # "absent"
                      /\ status[i] \in Terminal => status'[i] = status[i]
  BY RowsForward DEF Next
<1>2. UNCHANGED <<worker, processing>>
  BY DEF CreateJob, CancelLock, Handler, EnqueueError, CreateDrop, CancelDrop,
     Age, Expire, Enqueue, MarkFailedLock, MarkFailedCommit, CancelCommit,
     CancelDequeue, lists
<1>3. \/ queue' = queue
      \/ queue' = LPUSH(queue, j) /\ create[j] = "enqueue"
      \/ queue' = LREM(queue, j) /\ cancel[j] = "dequeue"
  BY DEF CreateJob, CancelLock, Handler, EnqueueError, CreateDrop, CancelDrop,
     Age, Expire, Enqueue, MarkFailedLock, MarkFailedCommit, CancelCommit,
     CancelDequeue, lists
<1>4. \/ status' = status
      \/ status[j] = "absent" /\ status' = [status EXCEPT ![j] = "queued"]
      \/ status' = [status EXCEPT ![j] = "failed"]
      \/ status' = [status EXCEPT ![j] = "cancelled"]
  BY DEF CreateJob, CancelLock, Handler, EnqueueError, CreateDrop, CancelDrop,
     Age, Expire, Enqueue, MarkFailedLock, MarkFailedCommit, CancelCommit,
     CancelDequeue, rows, SetStatus, RowExists
<1>5. \A i \in Jobs : cancel'[i] = "dequeue" =>
         \/ cancel[i] = "dequeue"
         \/ i = j /\ status' = [status EXCEPT ![j] = "cancelled"]
  BY DEF CreateJob, CancelLock, Handler, EnqueueError, CreateDrop, CancelDrop,
     Age, Expire, Enqueue, MarkFailedLock, MarkFailedCommit, CancelCommit,
     CancelDequeue, api, SetStatus, HandlersOK
<1>6. /\ queue \in Seq(Ids) /\ j \in Ids
      /\ status \in [Jobs -> Statuses \cup {"absent"}]
  BY DEF StoresOK, Ids
<1>7. \/ Entries' = Entries
      \/ Entries' = Entries \cup {j} /\ status[j] # "absent"
      \/ Entries' = Entries \ {j} /\ status[j] \in Terminal
  <2>0. Entries = Elements(queue) /\ Entries' = Elements(queue')
    BY DEF Entries, Elements
  <2>1. queue' = queue => Entries' = Entries
    BY <2>0
  <2>2. queue' = LPUSH(queue, j) => Entries' = Entries \cup {j}
    BY <1>6, <2>0, LpushElements
  <2>3. queue' = LREM(queue, j) => Entries' = Entries \ {j}
    BY <1>6, <2>0, LremElements
  <2>4. create[j] = "enqueue" => status[j] # "absent"
    BY DEF RowExists
  <2>5. cancel[j] = "dequeue" => status[j] \in Terminal
    BY DEF DequeuedEnded
  <2> QED BY <1>3, <2>1, <2>2, <2>3, <2>4, <2>5
<1>8. ListedHasRow'
  <2>1. ASSUME NEW i \in Jobs, status'[i] = "absent"
        PROVE  i \notin (Entries \cup processing)'
    BY <1>1, <1>2, <1>7, <2>1 DEF ListedHasRow
  <2>2. ASSUME NEW w \in Workers
        PROVE  /\ \A i \in todo'[w] : status'[i] # "absent"
               /\ pc'[w] \in {"pubq", "requeue"} => status'[job'[w]] # "absent"
    <3>1. todo[w] \subseteq Jobs
      BY DEF WorkersOK
    <3>2. pc[w] \in {"pubq", "requeue"} => job[w] \in Jobs
      BY HeldJob
    <3>3. pc'[w] = pc[w] /\ job'[w] = job[w] /\ todo'[w] = todo[w]
      BY <1>2 DEF worker
    <3> QED BY <1>1, <3>1, <3>2, <3>3 DEF ListedHasRow
  <2> QED BY <2>1, <2>2 DEF ListedHasRow
<1>9. DequeuedEnded'
  <2> SUFFICES ASSUME NEW i \in Jobs, cancel'[i] = "dequeue"
               PROVE  status'[i] \in Terminal
    BY DEF DequeuedEnded
  <2>1. CASE cancel[i] = "dequeue"
    BY <1>1, <2>1 DEF DequeuedEnded
  <2>2. CASE i = j /\ status' = [status EXCEPT ![j] = "cancelled"]
    BY <1>6, <2>2 DEF Terminal
  <2> QED BY <1>5, <2>1, <2>2
<1>10. Findable'
  <2> SUFFICES ASSUME NEW i \in Jobs, status'[i] = "queued", i \in processing'
               PROVE  i \in Entries' \/ Handled(i)'
    BY DEF Findable
  <2>1. i \in processing
    BY <1>2
  <2>2. status[i] = "queued"
    BY <1>4, <1>6, <2>1 DEF ListedHasRow
  <2>3. i \in Entries \/ Handled(i)
    BY <2>1, <2>2 DEF Findable
  <2>4. Handled(i)' <=> Handled(i)
    BY <1>2 DEF Handled, worker
  <2>5. "queued" \notin Terminal
    BY DEF Terminal
  <2> QED BY <1>7, <2>2, <2>3, <2>4, <2>5
<1> QED BY <1>8, <1>9, <1>10

\* What a worker's step has to keep of the invariant: what it lists or holds
\* has a row, and a queued job in flight that it hides from jobs:queue, or
\* that was in its hands, is in its hands afterwards.
LEMMA QueueStep ==
  ASSUME Inv, QueueInv, NEW w \in Workers, UNCHANGED api,
         \A i \in Jobs : /\ status[i] # "absent" => status'[i] # "absent"
                         /\ status[i] \in Terminal => status'[i] = status[i],
         \A v \in Workers \ {w} : /\ pc'[v] = pc[v] /\ job'[v] = job[v]
                                  /\ todo'[v] = todo[v],
         \A i \in Jobs : i \in Entries' \cup processing'
                            => i \in Entries \cup processing
                               \/ status[i] # "absent",
         \A i \in todo'[w] : status'[i] # "absent",
         pc'[w] \in {"pubq", "requeue"} => status'[job'[w]] # "absent",
         \A i \in Jobs : status'[i] = "queued" /\ i \in processing' =>
            \/ i \in Entries'
            \/ job'[w] = i /\ pc'[w] \in HandSteps
            \/ /\ status[i] = "queued" /\ i \in processing
               /\ i \in Entries => i \in Entries'
               /\ ~(job[w] = i /\ pc[w] \in HandSteps)
  PROVE  QueueInv'
<1> USE DEF QueueInv
<1>1. ListedHasRow'
  <2>1. \A i \in Jobs : status'[i] = "absent"
                           => i \notin (Entries \cup processing)'
    BY DEF ListedHasRow
  <2>2. ASSUME NEW v \in Workers \ {w}
        PROVE  /\ \A i \in todo'[v] : status'[i] # "absent"
               /\ pc'[v] \in {"pubq", "requeue"} => status'[job'[v]] # "absent"
    <3>1. todo[v] \subseteq Jobs
      BY DEF Inv, TypeOK, WorkersOK
    <3>2. pc[v] \in {"pubq", "requeue"} => job[v] \in Jobs
      BY HeldJob DEF Inv, TypeOK
    <3> QED BY <3>1, <3>2 DEF ListedHasRow
  <2> QED BY <2>1, <2>2 DEF ListedHasRow
<1>2. DequeuedEnded'
  BY DEF DequeuedEnded, api
<1>3. Findable'
  <2> SUFFICES ASSUME NEW i \in Jobs, status'[i] = "queued", i \in processing',
                      i \notin Entries'
               PROVE  Handled(i)'
    BY DEF Findable
  <2>1. CASE job'[w] = i /\ pc'[w] \in HandSteps
    BY <2>1 DEF Handled
  <2>2. CASE /\ status[i] = "queued" /\ i \in processing
             /\ i \notin Entries
             /\ ~(job[w] = i /\ pc[w] \in HandSteps)
    <3>1. PICK v \in Workers : job[v] = i /\ pc[v] \in HandSteps
      BY <2>2 DEF Findable, Handled
    <3>2. v # w
      BY <2>2, <3>1
    <3> QED BY <3>1, <3>2 DEF Handled
  <2> QED BY <2>1, <2>2
<1> QED BY <1>1, <1>2, <1>3

\* The same for a step that changes no list and makes nothing queued: the
\* worker keeps in hand what it had in hand, unless that is not queued.
LEMMA QueueKept ==
  ASSUME Inv, QueueInv, NEW w \in Workers, UNCHANGED <<api, lists>>,
         \A i \in Jobs : /\ status[i] # "absent" => status'[i] # "absent"
                         /\ status[i] \in Terminal => status'[i] = status[i]
                         /\ status'[i] = "queued" => status[i] = "queued",
         \A v \in Workers \ {w} : /\ pc'[v] = pc[v] /\ job'[v] = job[v]
                                  /\ todo'[v] = todo[v],
         \A i \in todo'[w] : status'[i] # "absent",
         pc'[w] \in {"pubq", "requeue"} => status'[job'[w]] # "absent",
         pc[w] \in HandSteps =>
            \/ job'[w] = job[w] /\ pc'[w] \in HandSteps
            \/ job[w] \in Jobs => status'[job[w]] # "queued"
  PROVE  QueueInv'
<1>1. Entries' = Entries /\ processing' = processing
  BY DEF Entries, lists
<1>2. \A i \in Jobs : status'[i] = "queued" /\ i \in processing' =>
            \/ job'[w] = i /\ pc'[w] \in HandSteps
            \/ /\ status[i] = "queued" /\ i \in processing
               /\ i \in Entries => i \in Entries'
               /\ ~(job[w] = i /\ pc[w] \in HandSteps)
  BY <1>1
<1>3. UNCHANGED api
  OBVIOUS
<1> QED BY <1>1, <1>2, <1>3, QueueStep

\* The steps of the workers.
LEMMA QueueWorkers ==
  ASSUME CrashPoints \cap HandSteps = {},
         Inv, Inv', QueueInv, NEW w \in Workers,
         \/ Boot(w) \/ Work(w) \/ Reconcile(w) \/ Stop(w) \/ Raise(w) \/ Crash(w)
  PROVE  QueueInv'
<1> DEFINE Rows == \A i \in Jobs :
                      /\ status[i] # "absent" => status'[i] # "absent"
                      /\ status[i] \in Terminal => status'[i] = status[i]
           Others == \A v \in Workers \ {w} :
                        /\ pc'[v] = pc[v] /\ job'[v] = job[v]
                        /\ todo'[v] = todo[v]
           NoneQueued == \A i \in Jobs :
                            status'[i] = "queued" => status[i] = "queued"
<1>1. Rows
  BY RowsForward DEF Next
<1>2. /\ pc \in [Workers -> Steps] /\ job \in [Workers -> Ids \cup {NoJob}]
      /\ todo \in [Workers -> SUBSET Jobs]
      /\ status \in [Jobs -> Statuses \cup {"absent"}]
      /\ queue \in Seq(Ids)
  BY DEF Inv, TypeOK, WorkersOK, StoresOK
<1>3. pc[w] \in RunSteps \cup {"fail", "pubfail", "pubq", "requeue"}
         => job[w] \in Jobs
  BY HeldJob DEF Inv, TypeOK
<1>4. \A i \in todo[w] : i \in Jobs /\ status[i] # "absent"
  BY <1>2 DEF QueueInv, ListedHasRow
<1>5. pc[w] \in {"pubq", "requeue"} => status[job[w]] # "absent"
  BY DEF QueueInv, ListedHasRow
<1> HIDE DEF Rows, Others, NoneQueued
<1>a. CASE \/ Boot(w) \/ LoopTest(w) \/ ClaimTimeout(w) \/ TickReconcile(w)
           \/ TickLoop(w) \/ Stop(w) \/ Validate(w) \/ FindStale(w)
           \/ FindOrphans(w) \/ QueuedIds(w) \/ InFlightIds(w)
  <2>1. /\ UNCHANGED <<status, lists, api, job>>
        /\ pc[w] \notin HandSteps /\ pc'[w] \notin {"pubq", "requeue"}
        /\ \A v \in Workers \ {w} : pc'[v] = pc[v]
    BY <1>2, <1>a, HandStepsAre DEF Boot, LoopTest, ClaimTimeout,
       TickReconcile, TickLoop, Stop, LoopExit, Validate, FindStale,
       FindOrphans, QueuedIds, InFlightIds, Goto, rows
  <2>2. /\ \A v \in Workers \ {w} : todo'[v] = todo[v]
        /\ \A i \in todo'[w] : i \in todo[w] \/ status[i] # "absent"
    BY <1>2, <1>a DEF Boot, LoopTest, ClaimTimeout, TickReconcile, TickLoop,
       Stop, LoopExit, Validate, FindStale, FindOrphans, QueuedIds,
       InFlightIds
  <2> QED BY <1>4, <2>1, <2>2, QueueKept
<1>b. CASE Fetch(w)
  <2>1. /\ UNCHANGED <<status, lists, api, job, todo>> /\ pc[w] = "fetch"
        /\ pc'[w] = IF job[w] \in Jobs /\ isActiveStatus(status[job[w]])
                    THEN "start" ELSE "ack"
        /\ \A v \in Workers \ {w} : pc'[v] = pc[v]
    BY <1>2, <1>b DEF Fetch, Goto, rows
  <2>2. isActiveStatus("queued")
    BY DEF isActiveStatus
  <2> QED BY <1>4, <2>1, <2>2, HandStepsAre, QueueKept
<1>c. CASE \/ PublishRunning(w) \/ PublishHeartbeat(w) \/ PublishCompleted(w)
           \/ Upload(w)
  <2>1. /\ UNCHANGED <<status, lists, api, job, todo>>
        /\ pc[w] \notin HandSteps /\ pc'[w] \notin {"pubq", "requeue"}
        /\ \A v \in Workers \ {w} : pc'[v] = pc[v]
    BY <1>2, <1>c, HandStepsAre DEF PublishRunning, PublishHeartbeat,
       PublishCompleted, Upload, AfterHeartbeat, Goto, rows
  <2> QED BY <1>4, <2>1, QueueKept
<1>d. CASE Heartbeat(w) \/ MarkCompleted(w)
  <2>1. /\ UNCHANGED <<lists, api, job, todo>>
        /\ pc[w] \notin HandSteps /\ pc'[w] \notin {"pubq", "requeue"}
        /\ \A v \in Workers \ {w} : pc'[v] = pc[v]
        /\ pc[w] \in RunSteps
    BY <1>2, <1>d, HandStepsAre DEF Heartbeat, MarkCompleted, Goto, RunSteps
  <2>2. \A i \in Jobs : status'[i] = "queued" => status[i] = "queued"
    BY <1>2, <1>3, <1>d, <2>1 DEF Heartbeat, MarkCompleted, UpdateWhere,
       SetStatus, rows
  <2> QED BY <1>1, <1>4, <2>1, <2>2, QueueKept DEF Rows
<1>e. CASE MarkRunning(w)
  <2>1. /\ UNCHANGED <<lists, api, job, todo>> /\ pc[w] = "start"
        /\ pc'[w] = "pubrun" /\ \A v \in Workers \ {w} : pc'[v] = pc[v]
        /\ UpdateWhere(job[w], "queued", "running") /\ job[w] \in Jobs
    BY <1>2, <1>3, <1>e DEF MarkRunning, Goto, RunSteps
  <2>2. /\ \A i \in Jobs : status'[i] = "queued" => status[i] = "queued"
        /\ status'[job[w]] # "queued"
    BY <1>2, <2>1 DEF UpdateWhere, SetStatus, rows
  <2> QED BY <1>1, <1>4, <2>1, <2>2, QueueKept DEF Rows
<1>f. CASE Raise(w)
  <2>1. /\ UNCHANGED <<status, lists, api, job, todo>> /\ pc[w] \in RunSteps
        /\ pc'[w] = "fail" /\ \A v \in Workers \ {w} : pc'[v] = pc[v]
        /\ pc[w] = "start" => "raise" \in Faults
    BY <1>2, <1>f DEF Raise, Goto, rows
  <2>2. pc[w] \in HandSteps => pc'[w] \in HandSteps
    BY <2>1, HandStepsAre DEF RunSteps
  <2> QED BY <1>4, <2>1, <2>2, QueueKept
<1>g. CASE MarkFailed(w)
  <2>1. /\ UNCHANGED <<lists, api, job, todo>> /\ pc[w] = "fail"
        /\ pc'[w] = "pubfail" /\ \A v \in Workers \ {w} : pc'[v] = pc[v]
        /\ UpdateWhere(job[w], "running", "failed") /\ job[w] \in Jobs
    BY <1>2, <1>3, <1>g DEF MarkFailed, Goto
  <2>2. \A i \in Jobs : status'[i] = "queued" => status[i] = "queued"
    BY <1>2, <2>1 DEF UpdateWhere, SetStatus, rows
  <2>3. pc[w] \in HandSteps => pc'[w] \in HandSteps
    BY <2>1, HandStepsAre
  <2> QED BY <1>1, <1>4, <2>1, <2>2, <2>3, QueueKept DEF Rows
<1>h. CASE PublishFailed(w) \/ PublishQueued(w)
  <2>1. /\ UNCHANGED <<status, lists, api, job, todo>>
        /\ \/ pc[w] = "pubfail" /\ pc'[w] = "ack"
           \/ pc[w] = "pubq" /\ pc'[w] = "requeue"
        /\ \A v \in Workers \ {w} : pc'[v] = pc[v]
    BY <1>2, <1>h DEF PublishFailed, PublishQueued, Goto, rows
  <2>2. pc[w] \in HandSteps => pc'[w] \in HandSteps
    BY <2>1, HandStepsAre
  <2> QED BY <1>4, <1>5, <2>1, <2>2, QueueKept
<1>i. CASE Crash(w)
  <2>1. /\ UNCHANGED <<status, lists, api>> /\ pc[w] \in CrashPoints
        /\ pc'[w] = "down" /\ todo'[w] = {}
        /\ \A v \in Workers \ {w} : /\ pc'[v] = pc[v] /\ job'[v] = job[v]
                                    /\ todo'[v] = todo[v]
    BY <1>2, <1>i DEF Crash, Goto, rows
  <2> QED BY <2>1, QueueKept
<1>j. CASE ResetToQueued(w)
  <2>1. PICK j \in todo[w] : /\ UpdateWhere(j, "running", "queued")
                             /\ job' = [job EXCEPT ![w] = j]
    BY <1>j DEF ResetToQueued
  <2>2. /\ UNCHANGED <<lists, api, todo>> /\ pc[w] = "reset"
        /\ pc'[w] = "pubq" /\ job'[w] = j /\ j \in Jobs
        /\ status[j] # "absent"
        /\ \A v \in Workers \ {w} : pc'[v] = pc[v] /\ job'[v] = job[v]
    BY <1>2, <1>4, <1>j, <2>1 DEF ResetToQueued, Goto
  <2>3. \A i \in Jobs : status'[i] = "queued" => status[i] = "queued" \/ i = j
    BY <1>2, <2>1, <2>2 DEF UpdateWhere, SetStatus, rows
  <2>4. pc[w] \notin HandSteps /\ pc'[w] \in HandSteps
    BY <2>2, HandStepsAre
  <2>5. Entries' = Entries /\ processing' = processing
    BY <2>2 DEF Entries, lists
  <2> QED BY <1>1, <1>4, <2>2, <2>3, <2>4, <2>5, QueueStep DEF Rows
<1>k. CASE Claim(w)
  <2> DEFINE e == queue[Len(queue)]
  <2>1. /\ queue # <<>> /\ UNCHANGED <<status, api, todo>>
        /\ pc[w] = "claim" /\ pc'[w] = "fetch" /\ job'[w] = e
        /\ processing' = processing \cup {e}
        /\ queue' = SubSeq(queue, 1, Len(queue) - 1)
        /\ \A v \in Workers \ {w} : pc'[v] = pc[v] /\ job'[v] = job[v]
    BY <1>2, <1>k DEF Claim, Goto, rows
  <2>2. Entries = Entries' \cup {e}
    BY <1>2, <2>1, PopElements DEF Entries, Elements
  <2>3. pc[w] \notin HandSteps /\ pc'[w] \in HandSteps
    BY <2>1, HandStepsAre
  <2> HIDE DEF e
  <2> QED BY <1>4, <2>1, <2>2, <2>3, QueueStep
<1>l. CASE Ack(w)
  <2>1. /\ UNCHANGED <<status, queue, api, todo>> /\ pc'[w] = "tick"
        /\ processing' = processing \ {job[w]}
        /\ \A v \in Workers \ {w} : pc'[v] = pc[v] /\ job'[v] = job[v]
    BY <1>2, <1>l DEF Ack, Goto, rows
  <2>2. Entries' = Entries
    BY <2>1 DEF Entries
  <2> QED BY <1>4, <2>1, <2>2, QueueStep
<1>m. ASSUME NEW j \in Jobs, Requeue(j), status[j] # "absent",
             UNCHANGED <<status, api>>, Others,
             \A i \in todo'[w] : i \in todo[w],
             pc'[w] \notin {"pubq", "requeue"},
             pc[w] \in HandSteps => job[w] = j
      PROVE  QueueInv'
  <2>1. /\ processing' = processing \ {j} /\ queue' = LPUSH(queue, j)
        /\ j \in Ids
    BY <1>m DEF Requeue, Ids
  <2>2. Entries' = Entries \cup {j}
    <3>1. Entries = Elements(queue) /\ Entries' = Elements(queue')
      BY DEF Entries, Elements
    <3> QED BY <1>2, <2>1, <3>1, LpushElements
  <2> QED BY <1>4, <1>m, <2>1, <2>2, QueueStep DEF Others
<1>n. CASE RequeueStale(w)
  <2>1. /\ UNCHANGED <<status, api>> /\ pc[w] = "requeue"
        /\ pc'[w] \in {"orphan", "reset"} /\ Requeue(job[w])
        /\ todo'[w] \subseteq todo[w] /\ Others
    BY <1>2, <1>n DEF RequeueStale, Goto, rows, Others
  <2> QED BY <1>3, <1>5, <1>m, <2>1
<1>o. CASE RequeueOrphan(w)
  <2>1. PICK j \in todo[w] : /\ Requeue(j)
                             /\ todo' = [todo EXCEPT ![w] = @ \ {j}]
                             /\ Goto(w, IF todo[w] = {j} THEN "loop" ELSE "push")
    BY <1>o DEF RequeueOrphan
  <2>2. /\ UNCHANGED <<status, api>> /\ pc[w] = "push"
        /\ pc'[w] \in {"loop", "push"}
        /\ todo'[w] \subseteq todo[w] /\ Others
    BY <1>2, <1>o, <2>1 DEF RequeueOrphan, Goto, rows, Others
  <2>3. pc[w] \notin HandSteps
    BY <2>2, HandStepsAre
  <2> QED BY <1>4, <1>m, <2>1, <2>2, <2>3
<1> QED BY <1>a, <1>b, <1>c, <1>d, <1>e, <1>f, <1>g, <1>h, <1>i, <1>j, <1>k,
           <1>l, <1>n, <1>o DEF Work, Reconcile

\* A step that changes nothing of the pipeline.
LEMMA QueueStutter ==
  ASSUME QueueInv, UNCHANGED vars PROVE QueueInv'
BY DEF QueueInv, ListedHasRow, DequeuedEnded, Findable, Handled, Entries,
   vars, rows, lists, api, worker

\* What the invariant is for: a worker with the job in hand acks or requeues
\* it.
LEMMA FindableKept ==
  ASSUME QueueInv PROVE NeverStranded
<1>1. HandSteps \subseteq BusySteps
  BY HandStepsAre DEF BusySteps, HoldSteps, RunSteps
<1> QED BY <1>1 DEF QueueInv, Findable, Handled, NeverStranded, Kept

\* jobs:processing hides an id from the orphan check.  A queued job that is
\* listed there is in jobs:queue as well or in the hands of a worker that
\* will ack or requeue it, whatever else fails, provided no worker dies
\* between its claim and mark_running, nor between reset_to_queued and
\* requeue; the run CrashedClaim shows what happens if one does.
THEOREM QueuedIsFindable ==
  CrashPoints \cap HandSteps = {} => (Spec => []NeverStranded)
<1> SUFFICES ASSUME CrashPoints \cap HandSteps = {}
             PROVE  Spec => []NeverStranded
  OBVIOUS
<1>1. Inv /\ Inv' /\ QueueInv /\ [Next]_vars => QueueInv'
  BY QueueHandlers, QueueWorkers, QueueStutter DEF Next
<1>2. Spec => []QueueInv
  BY <1>1, QueueInit, Invariance, PTL DEF Spec
<1>3. QueueInv => NeverStranded
  BY FindableKept
<1> QED BY <1>2, <1>3, PTL

-----------------------------------------------------------------------------
(***************************************************************************)
(* What the steps do to the lists and to the ids the workers know, for the *)
(* proofs that follow the entry of a job.                                  *)
(***************************************************************************)

\* A step of a handler of j, or of time for j, changes what belongs to j.
LEMMA HandlerEffects ==
  ASSUME Inv, NEW j \in Jobs,
         \/ CreateJob(j) \/ CancelLock(j) \/ Handler(j) \/ EnqueueError(j)
         \/ CreateDrop(j) \/ CancelDrop(j) \/ Age(j) \/ Expire(j)
  PROVE  /\ UNCHANGED <<worker, processing, uploaded>>
         /\ \A i \in Jobs \ {j} :
               /\ status'[i] = status[i] /\ old'[i] = old[i]
               /\ live'[i] = live[i] /\ ttl'[i] = ttl[i]
               /\ create'[i] = create[i] /\ cancel'[i] = cancel[i]
         /\ \/ queue' = queue
            \/ /\ queue' = LPUSH(queue, j) /\ create[j] = "enqueue"
               /\ create'[j] \in {"created", "markfailed"}
            \/ queue' = LREM(queue, j) /\ cancel[j] = "dequeue"
         /\ \/ status'[j] = status[j]
            \/ /\ status[j] = "absent" /\ status'[j] = "queued"
               /\ create[j] = "idle"
            \/ status'[j] \in {"failed", "cancelled"}
         /\ \/ create'[j] = create[j]
            \/ create'[j] = "enqueue" /\ status[j] = "absent" /\ ~old'[j]
            \/ create'[j] \notin {"idle", "enqueue"} /\ status[j] # "absent"
         /\ old'[j] => \/ old[j]
                       \/ /\ Age(j) /\ status'[j] = status[j]
                          /\ create'[j] = create[j]
         /\ live'[j] \in {live[j], "none"} /\ (ttl'[j] => ttl[j])
         /\ cancel'[j] = "dequeue" => \/ cancel[j] = "dequeue"
                                      \/ status'[j] = "cancelled"
<1> USE DEF Inv, TypeOK, StoresOK, HandlersOK
<1>1. CASE CreateJob(j)
  <2>1. create[j] = "idle" /\ status[j] = "absent"
    BY <1>1 DEF CreateJob, RowExists
  <2> QED BY <1>1, <2>1 DEF CreateJob, SetStatus, lists, hash
<1>2. CASE CancelLock(j) \/ CancelDrop(j)
  BY <1>2 DEF CancelLock, CancelDrop, rows, lists, hash
<1>3. CASE Enqueue(j) \/ EnqueueError(j)
  BY <1>3 DEF Enqueue, EnqueueError, rows, hash, RowExists
<1>4. CASE MarkFailedLock(j) \/ CreateDrop(j)
  BY <1>4 DEF MarkFailedLock, CreateDrop, rows, lists, hash, RowExists
<1>5. CASE MarkFailedCommit(j)
  BY <1>5 DEF MarkFailedCommit, SetStatus, lists, hash, RowExists
<1>6. CASE CancelCommit(j)
  BY <1>6 DEF CancelCommit, SetStatus, lists, hash
<1>7. CASE CancelDequeue(j)
  BY <1>7 DEF CancelDequeue, rows, hash
<1>8. CASE Age(j)
  BY <1>8 DEF Age, lists, hash, api
<1>9. CASE Expire(j)
  BY <1>9 DEF Expire, rows, lists, api
<1> QED BY <1>1, <1>2, <1>3, <1>4, <1>5, <1>6, <1>7, <1>8, <1>9 DEF Handler

\* So the list of ids gains j, by the LPUSH of its POST, or loses it after it
\* has been cancelled; nothing is listed twice that was not.
LEMMA HandlerEntries ==
  ASSUME Inv, DequeuedEnded, NEW j \in Jobs,
         \/ CreateJob(j) \/ CancelLock(j) \/ Handler(j) \/ EnqueueError(j)
         \/ CreateDrop(j) \/ CancelDrop(j) \/ Age(j) \/ Expire(j)
  PROVE  /\ \/ Entries' = Entries
            \/ /\ Entries' = Entries \cup {j} /\ create[j] = "enqueue"
               /\ create'[j] \in {"created", "markfailed"}
            \/ Entries' = Entries \ {j} /\ status[j] \in Terminal
         /\ \A i \in Jobs : Once(queue, i)
                               /\ ~(create[i] = "enqueue" /\ i \in Entries)
                               => Once(queue', i)
<1>1. queue \in Seq(Ids) /\ j \in Ids
  BY DEF Inv, TypeOK, StoresOK, Ids
<1>2. Entries = Elements(queue) /\ Entries' = Elements(queue')
  BY DEF Entries, Elements
<1>3. \/ queue' = queue
      \/ /\ queue' = LPUSH(queue, j) /\ create[j] = "enqueue"
         /\ create'[j] \in {"created", "markfailed"}
      \/ queue' = LREM(queue, j) /\ cancel[j] = "dequeue"
  BY HandlerEffects
<1>4. cancel[j] = "dequeue" => status[j] \in Terminal
  BY DEF DequeuedEnded
<1>5. CASE queue' = queue
  BY <1>2, <1>5
<1>6. CASE /\ queue' = LPUSH(queue, j) /\ create[j] = "enqueue"
           /\ create'[j] \in {"created", "markfailed"}
  <2>1. Entries' = Entries \cup {j}
    BY <1>1, <1>2, <1>6, LpushElements
  <2>2. ASSUME NEW i \in Jobs, Once(queue, i),
               ~(create[i] = "enqueue" /\ i \in Entries)
        PROVE  Once(queue', i)
    BY <1>1, <1>2, <1>6, <2>2, LpushOnce
  <2> QED BY <1>6, <2>1, <2>2
<1>7. CASE queue' = LREM(queue, j) /\ cancel[j] = "dequeue"
  <2>1. Entries' = Entries \ {j}
    BY <1>1, <1>2, <1>7, LremElements
  <2>2. ASSUME NEW i \in Jobs, Once(queue, i) PROVE Once(queue', i)
    BY <1>1, <1>7, <2>2, LremOnce
  <2> QED BY <1>4, <1>7, <2>1, <2>2
<1> QED BY <1>3, <1>5, <1>6, <1>7

\* A worker's step changes what belongs to the worker.  It takes its ids from
\* the lists and from old rows, and lists only ids it has.
LEMMA WorkerEffects ==
  ASSUME Inv, NEW w \in Workers,
         \/ Boot(w) \/ Work(w) \/ Reconcile(w) \/ Stop(w) \/ Raise(w) \/ Crash(w)
  PROVE  /\ UNCHANGED api
         /\ \A v \in Workers \ {w} : /\ pc'[v] = pc[v] /\ job'[v] = job[v]
                                     /\ todo'[v] = todo[v] /\ seen'[v] = seen[v]
         /\ \A i \in Jobs : /\ old'[i] => old[i]
                            /\ status'[i] = "running"
                                 => status[i] = "running" \/ i = job[w]
         /\ Entries' \cup processing'
              \subseteq Entries \cup processing \cup todo[w] \cup {job[w]}
         /\ job'[w] \in {job[w], NoJob} \cup Entries \cup todo[w]
         /\ \A i \in todo'[w] : i \in todo[w] \/ old[i]
<1>1. /\ pc \in [Workers -> Steps] /\ job \in [Workers -> Ids \cup {NoJob}]
      /\ todo \in [Workers -> SUBSET Jobs]
      /\ seen \in [Workers -> SUBSET Ids]
      /\ old \in [Jobs -> BOOLEAN]
      /\ status \in [Jobs -> Statuses \cup {"absent"}]
      /\ queue \in Seq(Ids) /\ Jobs \subseteq Ids
  BY DEF Inv, TypeOK, WorkersOK, StoresOK, Ids
<1>2. pc[w] \in RunSteps \cup {"fail", "pubfail", "pubq", "requeue"}
         => job[w] \in Jobs
  BY HeldJob DEF Inv, TypeOK
<1>3. Entries = Elements(queue) /\ Entries' = Elements(queue')
  BY DEF Entries, Elements
<1>4. UNCHANGED lists => Entries' = Entries /\ processing' = processing
  BY DEF lists, Entries
<1>5. \A next : Goto(w, next) => \A v \in Workers \ {w} : pc'[v] = pc[v]
  BY <1>1 DEF Goto
<1>6. \A i \in Jobs : \A from, to :
         UpdateWhere(i, from, to) =>
            \A k \in Jobs : /\ old'[k] => old[k]
                            /\ status'[k] = status[k] \/ (k = i /\ status'[k] = to)
  BY <1>1 DEF UpdateWhere, SetStatus, rows
<1>a. CASE \/ Boot(w) \/ LoopTest(w) \/ ClaimTimeout(w) \/ TickReconcile(w)
           \/ TickLoop(w) \/ Stop(w) \/ Validate(w) \/ Fetch(w) \/ Raise(w)
           \/ PublishRunning(w) \/ PublishFailed(w)
           \/ PublishQueued(w) \/ Upload(w)
  <2>1. /\ UNCHANGED <<api, job, todo, seen, rows>> /\ UNCHANGED lists
        /\ \E next : Goto(w, next)
    BY <1>a DEF Boot, LoopTest, ClaimTimeout,
       TickReconcile, TickLoop, Stop, LoopExit, Validate, Fetch, Raise,
       PublishRunning, PublishFailed, PublishQueued, Upload
  <2> QED BY <1>4, <1>5, <2>1 DEF rows
<1>b. CASE \/ PublishHeartbeat(w) \/ PublishCompleted(w)
  <2>1. /\ UNCHANGED <<api, job, todo, seen, rows>> /\ UNCHANGED lists
        /\ \E next : Goto(w, next)
    BY <1>b DEF PublishHeartbeat, PublishCompleted
  <2> QED BY <1>4, <1>5, <2>1 DEF rows
<1>c. CASE \/ MarkRunning(w) \/ Heartbeat(w) \/ MarkCompleted(w)
           \/ MarkFailed(w)
  <2>1. /\ UNCHANGED <<api, job, todo, seen>> /\ UNCHANGED lists
        /\ \E next : Goto(w, next)
        /\ \E from, to : UpdateWhere(job[w], from, to)
        /\ pc[w] \in RunSteps \cup {"fail"}
    BY <1>c DEF MarkRunning, Heartbeat, MarkCompleted, MarkFailed, RunSteps
  <2>2. job[w] \in Jobs
    BY <1>2, <2>1
  <2> QED BY <1>4, <1>5, <1>6, <2>1, <2>2
<1>d. CASE FindStale(w) \/ FindOrphans(w) \/ QueuedIds(w) \/ InFlightIds(w)
  <2>1. /\ UNCHANGED <<api, job, rows>> /\ UNCHANGED lists
        /\ \E next : Goto(w, next)
        /\ \A v \in Workers \ {w} : todo'[v] = todo[v] /\ seen'[v] = seen[v]
        /\ \A i \in todo'[w] : i \in todo[w] \/ old[i]
    <3>1. CASE FindStale(w) \/ FindOrphans(w)
      BY <1>1, <3>1 DEF FindStale, FindOrphans
    <3>2. CASE QueuedIds(w)
      BY <1>1, <3>2 DEF QueuedIds
    <3>3. CASE InFlightIds(w)
      BY <1>1, <3>3 DEF InFlightIds
    <3> QED BY <1>d, <3>1, <3>2, <3>3
  <2> QED BY <1>1, <1>4, <1>5, <2>1 DEF rows
<1>e. CASE Crash(w)
  <2>1. /\ UNCHANGED <<api, rows>> /\ UNCHANGED lists /\ Goto(w, "down")
        /\ job' = [job EXCEPT ![w] = NoJob]
        /\ todo' = [todo EXCEPT ![w] = {}]
        /\ seen' = [seen EXCEPT ![w] = {}]
    BY <1>e DEF Crash
  <2> QED BY <1>1, <1>4, <1>5, <2>1 DEF rows
<1>f. CASE ResetToQueued(w)
  <2>1. PICK j \in todo[w] : /\ UpdateWhere(j, "running", "queued")
                             /\ job' = [job EXCEPT ![w] = j]
    BY <1>f DEF ResetToQueued
  <2>2. UNCHANGED <<api, todo, seen>> /\ UNCHANGED lists /\ Goto(w, "pubq")
    BY <1>f DEF ResetToQueued
  <2> QED BY <1>1, <1>4, <1>5, <1>6, <2>1, <2>2
<1>g. CASE Claim(w)
  <2> DEFINE e == queue[Len(queue)]
  <2>1. /\ queue # <<>> /\ UNCHANGED <<rows, api, todo, seen>>
        /\ Goto(w, "fetch") /\ job' = [job EXCEPT ![w] = e]
        /\ processing' = processing \cup {e}
        /\ queue' = SubSeq(queue, 1, Len(queue) - 1)
    BY <1>g DEF Claim
  <2>2. Entries = Entries' \cup {e}
    BY <1>1, <1>3, <2>1, PopElements
  <2> HIDE DEF e
  <2> QED BY <1>1, <1>5, <2>1, <2>2 DEF rows
<1>h. CASE Ack(w)
  <2>1. /\ UNCHANGED <<rows, api, todo, seen, queue>> /\ Goto(w, "tick")
        /\ processing' = processing \ {job[w]}
        /\ job' = [job EXCEPT ![w] = NoJob]
    BY <1>h DEF Ack
  <2> QED BY <1>1, <1>3, <1>5, <2>1 DEF rows
<1>i. ASSUME NEW j \in Jobs, Requeue(j)
      PROVE  /\ Entries' = Entries \cup {j}
             /\ processing' = processing \ {j}
  BY <1>1, <1>3, <1>i, LpushElements DEF Requeue
<1>j. CASE RequeueStale(w)
  <2>1. /\ UNCHANGED <<rows, api, seen>> /\ \E next : Goto(w, next)
        /\ Requeue(job[w]) /\ pc[w] = "requeue"
        /\ job' = [job EXCEPT ![w] = NoJob]
        /\ todo' = [todo EXCEPT ![w] = @ \ {job[w]}]
    BY <1>j DEF RequeueStale
  <2>2. /\ Entries' = Entries \cup {job[w]}
        /\ processing' = processing \ {job[w]}
    BY <1>2, <1>i, <2>1
  <2> QED BY <1>1, <1>5, <2>1, <2>2 DEF rows
<1>k. CASE RequeueOrphan(w)
  <2>1. PICK j \in todo[w] : /\ Requeue(j)
                             /\ todo' = [todo EXCEPT ![w] = @ \ {j}]
                             /\ \E next : Goto(w, next)
    BY <1>k DEF RequeueOrphan
  <2>2. UNCHANGED <<rows, api, job, seen>>
    BY <1>k DEF RequeueOrphan
  <2>3. Entries' = Entries \cup {j} /\ processing' = processing \ {j}
    BY <1>1, <1>i, <2>1
  <2> QED BY <1>1, <1>5, <2>1, <2>2, <2>3 DEF rows
<1> QED BY <1>a, <1>b, <1>c, <1>d, <1>e, <1>f, <1>g, <1>h, <1>j, <1>k
        DEF Work, Reconcile

\* A worker leaves cancels alone.
LEMMA DequeuedNext ==
  ASSUME Inv, DequeuedEnded, [Next]_vars PROVE DequeuedEnded'
<1>1. CASE UNCHANGED vars
  BY <1>1 DEF DequeuedEnded, vars, rows, api
<1>2. CASE Next
  <2>1. \A i \in Jobs : status[i] \in Terminal => status'[i] = status[i]
    BY <1>2, RowsForward
  <2>2. \A i \in Jobs : cancel'[i] = "dequeue" =>
           cancel[i] = "dequeue" \/ status'[i] = "cancelled"
    <3>1. ASSUME NEW j \in Jobs,
                 \/ CreateJob(j) \/ CancelLock(j) \/ Handler(j)
                 \/ EnqueueError(j) \/ CreateDrop(j) \/ CancelDrop(j)
                 \/ Age(j) \/ Expire(j),
                 NEW i \in Jobs, cancel'[i] = "dequeue"
          PROVE  cancel[i] = "dequeue" \/ status'[i] = "cancelled"
      BY <3>1, HandlerEffects
    <3>2. ASSUME NEW w \in Workers,
                 \/ Boot(w) \/ Work(w) \/ Reconcile(w) \/ Stop(w)
                 \/ Raise(w) \/ Crash(w)
          PROVE  UNCHANGED cancel
      BY <3>2, WorkerEffects DEF api
    <3> QED BY <1>2, <3>1, <3>2 DEF Next
  <2> QED BY <2>1, <2>2 DEF DequeuedEnded, Terminal
<1> QED BY <1>1, <1>2

\* The POST of j is past its LPUSH, or has given up.
Pushed(j) == create[j] \notin {"idle", "enqueue"}

\* Until then nobody lists, selects or holds j.
KnownPushed ==
    /\ \A j \in Jobs :
          j \in Entries \cup processing \/ old[j] \/ status[j] = "running"
             => Pushed(j)
    /\ \A w \in Workers : /\ \A j \in todo[w] : Pushed(j)
                          /\ job[w] \in Jobs => Pushed(job[w])

\* No list and no worker knows a job at first.
LEMMA KnownInit == Init => KnownPushed
<1> SUFFICES ASSUME Init PROVE KnownPushed
  OBVIOUS
<1>1. \A j \in Jobs : j \notin Entries \cup processing
  BY QueueInit DEF Init, QueueInv, ListedHasRow
<1>2. NoJob \notin Jobs
  BY ConstantAssumption DEF Ids
<1> QED BY <1>1, <1>2 DEF Init, KnownPushed

\* An enqueue that does not outlast the orphan grace keeps it so.
LEMMA KnownNext ==
  ASSUME "enqueue" \notin Slow, Inv, DequeuedEnded, KnownPushed, [Next]_vars
  PROVE  KnownPushed'
<1> DEFINE Later(i) == create'[i] \notin {"idle", "enqueue"}
<1>1. CASE UNCHANGED vars
  BY <1>1 DEF KnownPushed, Pushed, Entries, vars, rows, lists, api, worker
<1>2. ASSUME NEW j \in Jobs,
             \/ CreateJob(j) \/ CancelLock(j) \/ Handler(j) \/ EnqueueError(j)
             \/ CreateDrop(j) \/ CancelDrop(j) \/ Age(j) \/ Expire(j)
      PROVE  KnownPushed'
  <2>1. \A i \in Jobs : Pushed(i) => Later(i)
    BY <1>2, HandlerEffects DEF Pushed, Inv, RowExists
  <2>2. /\ UNCHANGED <<worker, processing>>
        /\ \A i \in Jobs : old'[i] => old[i] \/ (i = j /\ Age(j))
        /\ Age(j) => create'[j] = create[j]
        /\ \A i \in Jobs : status'[i] = "running" => status[i] = "running"
    BY <1>2, HandlerEffects DEF Age, api
  <2>3. Age(j) => Pushed(j)
    BY DEF Age, Pushed, Inv, RowExists, isActiveStatus
  <2>4. \A i \in Entries' : i \in Entries \/ (i = j /\ Later(j))
    BY <1>2, HandlerEntries DEF Pushed
  <2>5. ASSUME NEW i \in Jobs,
                     \/ i \in Entries' \cup processing'
                     \/ old'[i]
                     \/ status'[i] = "running"
        PROVE  Later(i)
    BY <2>1, <2>2, <2>3, <2>4, <2>5 DEF KnownPushed
  <2>6. ASSUME NEW w \in Workers
        PROVE  /\ \A i \in todo'[w] : Later(i)
               /\ job'[w] \in Jobs => Later(job'[w])
    <3>1. todo'[w] = todo[w] /\ job'[w] = job[w] /\ todo[w] \subseteq Jobs
      BY <2>2 DEF worker, Inv, TypeOK, WorkersOK
    <3>2. \A i \in todo[w] : Later(i)
      BY <2>1, <3>1 DEF KnownPushed
    <3>3. job[w] \in Jobs => Later(job[w])
      BY <2>1 DEF KnownPushed
    <3> QED BY <3>1, <3>2, <3>3
  <2> QED BY <2>5, <2>6 DEF KnownPushed, Pushed
<1>3. ASSUME NEW w \in Workers,
             \/ Boot(w) \/ Work(w) \/ Reconcile(w) \/ Stop(w) \/ Raise(w)
             \/ Crash(w)
      PROVE  KnownPushed'
  <2>1. /\ UNCHANGED api
        /\ \A v \in Workers \ {w} : job'[v] = job[v] /\ todo'[v] = todo[v]
        /\ \A i \in Jobs : /\ old'[i] => old[i]
                           /\ status'[i] = "running"
                                => status[i] = "running" \/ i = job[w]
        /\ Entries' \cup processing'
             \subseteq Entries \cup processing \cup todo[w] \cup {job[w]}
        /\ job'[w] \in {job[w], NoJob} \cup Entries \cup todo[w]
        /\ \A i \in todo'[w] : i \in todo[w] \/ old[i]
    BY <1>3, WorkerEffects
  <2>2. \A i : Later(i) <=> Pushed(i)
    BY <2>1 DEF Pushed, api
  <2>3. todo[w] \subseteq Jobs /\ todo'[w] \subseteq Jobs /\ NoJob \notin Jobs
    BY <1>3, InvNext, ConstantAssumption
       DEF Inv, TypeOK, WorkersOK, Ids, Next
  <2>4. ASSUME NEW i \in Jobs,
                     \/ i \in Entries' \cup processing'
                     \/ old'[i]
                     \/ status'[i] = "running"
        PROVE  Pushed(i)
    BY <2>1, <2>4 DEF KnownPushed
  <2>5. /\ \A i \in todo'[w] : Pushed(i)
        /\ job'[w] \in Jobs => Pushed(job'[w])
    BY <2>1, <2>3 DEF KnownPushed
  <2>6. ASSUME NEW v \in Workers
        PROVE  /\ \A i \in todo'[v] : Pushed(i)
               /\ job'[v] \in Jobs => Pushed(job'[v])
    BY <2>1, <2>5 DEF KnownPushed
  <2> QED BY <2>2, <2>4, <2>6 DEF KnownPushed, Pushed
<1> QED BY <1>1, <1>2, <1>3 DEF Next

-----------------------------------------------------------------------------
(***************************************************************************)
(* Vocabulary of the proofs that follow a job through the lists.           *)
(***************************************************************************)

Active(j) == j \in Jobs /\ isActiveStatus(status[j])

\* The steps from the selection of stale rows to their requeue.
RecoverSteps == {"reset", "pubq", "requeue"}

\* The steps after mark_running at which the worker still has to write the
\* row, and those after the write.
WriteSteps == (RunSteps \ {"start", "pubdone"}) \cup {"fail"}
WrittenSteps == {"pubdone", "pubfail"}

\* A worker past mark_running executes a row that is running or has ended, and
\* publishes an end that has been written.
RowFollows ==
    \A w \in Workers :
        /\ pc[w] \in WriteSteps => status[job[w]] \in {"running"} \cup Terminal
        /\ pc[w] \in WrittenSteps => status[job[w]] \in Terminal
=============================================================================
