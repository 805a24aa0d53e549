------------------------ MODULE ModelRegistryProofs ------------------------
(***************************************************************************)
(* Proofs about ModelRegistry for every set of runs and revisions, every   *)
(* parameter count the Hub may report and every choice of thresholds.      *)
(***************************************************************************)
EXTENDS ModelRegistry, TLAPS

\* The steps at which a run has inserted its row and not committed.
InsertedSteps == {"clear", "clearing", "set", "commit"}

HasDefault == \E v \in DOMAIN models : models[v].default

Oversized(v) == ParamCount[v] # None /\ ParamCount[v] > WorkerMax

HintedUnsupported ==
    {v \in Revisions : vram_hint_for(ParamCount[v]) = "unsupported"}

-----------------------------------------------------------------------------
(***************************************************************************)
(* The parts of the inductive invariant.                                   *)
(***************************************************************************)

\* The job's record and the committed rows: a row holds what the Hub reports
\* of its revision and the hint derived from it.
RowsOK ==
    /\ job \in [rev : Revisions \cup {None},
                verdict : {"none", "unlisted", "accepted", "rejected",
                           "ended"}]
    /\ \A v \in DOMAIN models :
          models[v] = Row(v, models[v].status, models[v].default)

\* A run past its start registers a revision.
Registers == \A r \in Runs :
                pc[r] \in Open
                    => arg[r].rev \in Revisions

\* The unique index on (hf_repo_id, revision): the row a run has inserted is
\* not yet committed, by itself or by another, and no other run inserts it.
InsertsAlone ==
    \A r \in Runs : pc[r] \in InsertedSteps =>
        /\ arg[r].rev \notin DOMAIN models
        /\ \A q \in Runs : pc[q] \in InsertedSteps
                              /\ arg[q].rev = arg[r].rev => q = r

\* The clearing UPDATE: nothing is held before it, its scan is at a revision
\* while it runs, and every row of its snapshot is held after it.
Scans ==
    \A r \in Runs :
        /\ pc[r] \in {"start", "select", "insert", "clear"}
              => snap[r] = {} /\ held[r] = {}
        /\ pc[r] = "clearing" => at[r] \in Revisions
        /\ pc[r] \in {"set", "commit"} => held[r] = snap[r]

\* The partial unique index on the default: one run at most has written a
\* default that is not yet committed, and every committed default is among
\* the rows which that run clears.
DefaultsAlone ==
    \A r \in Runs : pc[r] = "commit" /\ arg[r].default =>
        /\ \A q \in Runs : pc[q] = "commit" /\ arg[q].default => q = r
        /\ \A v \in DOMAIN models : models[v].default => v \in held[r]

\* What the preflight decided, and what is cached went through it.
Checked ==
    /\ job.rev # None =>
          /\ job.rev \in DOMAIN models
          /\ job.verdict = "rejected"
               <=> Oversized(job.rev) \/ job.rev \in HintedUnsupported
    /\ job.verdict = "accepted" => job.rev # None
    /\ \A v \in cache : ~Oversized(v)

Inv == /\ TypeOK
       /\ RowsOK
       /\ Registers
       /\ InsertsAlone
       /\ Scans
       /\ DefaultsAlone
       /\ Checked
       /\ LatestIsDefault

-----------------------------------------------------------------------------
(***************************************************************************)
(* The stored hint and the thresholds.                                     *)
(***************************************************************************)

\* The hint is one the column's CHECK allows.
LEMMA HintType ==
  ASSUME NEW c
  PROVE  vram_hint_for(c) \in {None, "comfortable", "tight", "unsupported"}
BY DEF vram_hint_for

\* With one threshold in both files the stored hint says "unsupported" of
\* exactly the counts beyond it.
LEMMA HintAgrees ==
  ASSUME NEW c \in Nat \cup {None}, TightMax = WorkerMax
  PROVE  vram_hint_for(c) = "unsupported" <=> c # None /\ c > WorkerMax
<1>1. CASE c = None
  <2>1. vram_hint_for(c) = None /\ None # "unsupported"
    BY <1>1, ThresholdAssumption DEF vram_hint_for
  <2> QED BY <1>1, <2>1
<1>2. CASE c # None
  <2>1. c \in Nat /\ TightMax \in Nat /\ ComfortableMax \in Nat
        /\ ComfortableMax < TightMax
    BY <1>2, ThresholdAssumption
  <2>2. c <= ComfortableMax \/ (c > ComfortableMax /\ c <= TightMax)
        \/ c > TightMax
    BY <2>1
  <2> QED BY <1>2, <2>1, <2>2 DEF vram_hint_for
<1> QED BY <1>1, <1>2

\* A row that is written has the types of the table.
LEMMA RowType ==
  ASSUME NEW v \in Revisions, NEW s \in {"ready", "archived"},
         NEW d \in BOOLEAN
  PROVE  /\ Row(v, s, d) \in
              [count : Nat \cup {None},
               hint : {None, "comfortable", "tight", "unsupported"},
               status : {"ready", "archived"}, default : BOOLEAN]
         /\ Row(v, s, d).status = s /\ Row(v, s, d).default = d
BY HintType, ThresholdAssumption DEF Row

-----------------------------------------------------------------------------
(***************************************************************************)
(* The invariant holds initially and every step keeps it.                  *)
(***************************************************************************)

\* An empty table, or one row registered before, satisfies it.
LEMMA InvInit == Init => Inv
<1> SUFFICES ASSUME Init PROVE Inv
  OBVIOUS
<1> USE DEF Init
<1>1. TypeOK /\ RowsOK
  <2>1. /\ DOMAIN models \subseteq Revisions
        /\ \A v \in DOMAIN models :
             /\ models[v] \in
                  [count : Nat \cup {None},
                   hint : {None, "comfortable", "tight", "unsupported"},
                   status : {"ready", "archived"}, default : BOOLEAN]
             /\ models[v] = Row(v, models[v].status, models[v].default)
    <3>1. CASE models = [v \in {} |-> None]
      BY <3>1
    <3>2. CASE \E v \in Revisions, s \in {"ready", "archived"},
                  d \in BOOLEAN : models = [x \in {v} |-> Row(x, s, d)]
      <4>1. PICK v \in Revisions, s \in {"ready", "archived"}, d \in BOOLEAN :
                    models = [x \in {v} |-> Row(x, s, d)]
        BY <3>2
      <4>2. DOMAIN models = {v} /\ models[v] = Row(v, s, d)
        BY <4>1
      <4> QED BY <4>2, RowType
    <3> QED BY <3>1, <3>2
  <2> QED BY <2>1 DEF TypeOK, RowsOK, NoArg
<1>2. Registers /\ InsertsAlone /\ Scans /\ DefaultsAlone
  BY DEF Registers, InsertsAlone, Scans, DefaultsAlone, Open, InsertedSteps
<1>3. Checked /\ LatestIsDefault
  BY DEF Checked, LatestIsDefault
<1> QED BY <1>1, <1>2, <1>3 DEF Inv

\* The types of what a run's steps look at.
LEMMA RunTypes ==
  ASSUME TypeOK
  PROVE  /\ pc \in [Runs -> Open \cup {"start", "done", "failed"}]
         /\ arg \in [Runs -> [rev : Revisions \cup {None},
                              default : BOOLEAN]]
         /\ snap \in [Runs -> SUBSET Revisions]
         /\ held \in [Runs -> SUBSET Revisions]
         /\ at \in [Runs -> Revisions \cup {None}]
         /\ DOMAIN models \subseteq Revisions
BY DEF TypeOK

\* What a step that leaves the rows and the worker alone need not disturb.
LEMMA Unwritten ==
  ASSUME RowsOK, Checked, LatestIsDefault,
         UNCHANGED <<models, latest, worker>>
  PROVE  RowsOK' /\ Checked' /\ LatestIsDefault'
BY DEF RowsOK, Row, Checked, Oversized, LatestIsDefault, worker

\* A run that fails, wherever it is, keeps the invariant.
LEMMA EndFailed ==
  ASSUME Inv, NEW r \in Runs, End(r, "failed"),
         UNCHANGED <<models, latest, worker>>
  PROVE  Inv'
<1> USE DEF Inv
<1>1. /\ pc' = [pc EXCEPT ![r] = "failed"]
      /\ arg' = [arg EXCEPT ![r] = NoArg]
      /\ snap' = [snap EXCEPT ![r] = {}]
      /\ at' = [at EXCEPT ![r] = None]
      /\ held' = [held EXCEPT ![r] = {}]
  BY DEF End, Goto
<1>2. /\ pc'[r] = "failed"
      /\ \A q \in Runs \ {r} :
            /\ pc'[q] = pc[q] /\ arg'[q] = arg[q] /\ snap'[q] = snap[q]
            /\ at'[q] = at[q] /\ held'[q] = held[q]
  BY <1>1, RunTypes
<1>3. TypeOK'
  BY <1>1, RunTypes DEF TypeOK, NoArg, worker
<1>4. Registers' /\ InsertsAlone' /\ Scans'
  BY <1>2 DEF Registers, InsertsAlone, Scans, InsertedSteps, Open
<1>5. DefaultsAlone'
  BY <1>2 DEF DefaultsAlone
<1> QED BY <1>3, <1>4, <1>5, Unwritten

\* The steps of a run that commit nothing.
LEMMA InvOpen ==
  ASSUME Inv, NEW r \in Runs,
         \/ Resolve(r) \/ Select(r) \/ Insert(r) \/ ClearStart(r)
         \/ ClearRow(r) \/ SetDefault(r) \/ DeadlockDetected(r) \/ Abort(r)
  PROVE  Inv'
<1> USE DEF Inv
<1>0. UNCHANGED <<models, latest, worker>>
  BY DEF Resolve, Select, Insert, ClearStart, ClearRow, SetDefault,
     DeadlockDetected, Abort
<1>1. CASE Resolve(r)
  <2>1. PICK v \in Revisions, d \in BOOLEAN :
                arg' = [arg EXCEPT ![r] = [rev |-> v, default |-> d]]
    BY <1>1 DEF Resolve
  <2>2. /\ pc' = [pc EXCEPT ![r] = "select"] /\ pc[r] = "start"
        /\ UNCHANGED <<snap, at, held>>
    BY <1>1 DEF Resolve, Goto
  <2>3. /\ arg'[r].rev = v /\ pc'[r] = "select"
        /\ \A q \in Runs \ {r} : arg'[q] = arg[q] /\ pc'[q] = pc[q]
    BY <2>1, <2>2, RunTypes
  <2>4. TypeOK'
    BY <1>0, <2>1, <2>2, RunTypes DEF TypeOK, Open, worker
  <2>5. Registers' /\ Scans'
    BY <2>2, <2>3 DEF Registers, Scans
  <2>6. InsertsAlone' /\ DefaultsAlone'
    BY <1>0, <2>2, <2>3 DEF InsertsAlone, DefaultsAlone, InsertedSteps
  <2> QED BY <1>0, <2>4, <2>5, <2>6, Unwritten
<1>2. CASE Select(r)
  <2>1. CASE arg[r].rev \in DOMAIN models
    BY <1>0, <1>2, <2>1, EndFailed DEF Select
  <2>2. CASE arg[r].rev \notin DOMAIN models
    <3>1. /\ pc' = [pc EXCEPT ![r] = "insert"] /\ pc[r] = "select"
          /\ UNCHANGED <<arg, snap, at, held>>
      BY <1>2, <2>2 DEF Select, Goto, tx
    <3>2. pc'[r] = "insert" /\ \A q \in Runs \ {r} : pc'[q] = pc[q]
      BY <3>1, RunTypes
    <3>3. TypeOK'
      BY <1>0, <3>1, RunTypes DEF TypeOK, Open, worker
    <3>4. Registers' /\ InsertsAlone' /\ Scans' /\ DefaultsAlone'
      BY <1>0, <3>1, <3>2 DEF Registers, InsertsAlone, Scans, DefaultsAlone,
         InsertedSteps, Open
    <3> QED BY <1>0, <3>3, <3>4, Unwritten
  <2> QED BY <2>1, <2>2
<1>3. CASE Insert(r)
  <2>1. CASE arg[r].rev \in DOMAIN models
    BY <1>0, <1>3, <2>1, EndFailed DEF Insert
  <2>2. CASE arg[r].rev \notin DOMAIN models
    <3> DEFINE next == IF arg[r].default THEN "clear" ELSE "commit"
    <3>1. /\ pc' = [pc EXCEPT ![r] = next] /\ pc[r] = "insert"
          /\ UNCHANGED <<arg, snap, at, held>>
          /\ WaitsFor(r) = {}
      BY <1>3, <2>2 DEF Insert, Goto, tx
    <3>2. \A q \in Runs \ {r} :
             pc[q] \in InsertedSteps => arg[q].rev # arg[r].rev
      BY <3>1 DEF WaitsFor, Inserting, InsertedSteps
    <3>3. pc'[r] = next /\ \A q \in Runs \ {r} : pc'[q] = pc[q]
      BY <3>1, RunTypes
    <3>4. TypeOK'
      BY <1>0, <3>1, RunTypes DEF TypeOK, Open, worker
    <3>5. Registers' /\ Scans'
      BY <3>1, <3>3 DEF Registers, Scans, Open
    <3>6. InsertsAlone'
      BY <1>0, <2>2, <3>1, <3>2, <3>3 DEF InsertsAlone, InsertedSteps
    <3>7. DefaultsAlone'
      BY <1>0, <3>1, <3>3 DEF DefaultsAlone
    <3> QED BY <1>0, <3>4, <3>5, <3>6, <3>7, Unwritten
  <2> QED BY <2>1, <2>2
<1>4. CASE ClearStart(r) \/ ClearRow(r)
  <2>1. /\ UNCHANGED arg /\ pc[r] \in {"clear", "clearing"}
        /\ pc' = [pc EXCEPT ![r] = pc'[r]] /\ pc'[r] \in {"clearing", "set"}
        /\ at' = [at EXCEPT ![r] = at'[r]] /\ at'[r] \in Revisions \cup {None}
        /\ pc'[r] = "clearing" => at'[r] \in Revisions
        /\ snap' = [snap EXCEPT ![r] = snap'[r]]
        /\ snap'[r] \subseteq Revisions
        /\ held' = [held EXCEPT ![r] = held'[r]]
        /\ held'[r] \subseteq Revisions
        /\ pc'[r] = "set" => held'[r] = snap'[r]
    <3>1. CASE ClearStart(r)
      <4>1. /\ UNCHANGED <<arg, held>> /\ pc[r] = "clear"
            /\ snap' = [snap EXCEPT ![r] = DOMAIN models]
            /\ Scan(r, DOMAIN models, {})
        BY <3>1 DEF ClearStart
      <4>2. held[r] = {}
        BY <4>1 DEF Scans
      <4>3. CASE {} = DOMAIN models
        BY <4>1, <4>2, <4>3, RunTypes DEF Scan, Goto
      <4>4. CASE {} # DOMAIN models
        BY <4>1, <4>4, RunTypes DEF Scan, Goto
      <4> QED BY <4>3, <4>4
    <3>2. CASE ClearRow(r)
      <4> DEFINE done == held[r] \cup {at[r]}
      <4>1. /\ UNCHANGED <<arg, snap>> /\ pc[r] = "clearing"
            /\ held' = [held EXCEPT ![r] = done]
            /\ Scan(r, snap[r], done)
        BY <3>2 DEF ClearRow
      <4>2. done \subseteq Revisions
        BY <4>1, RunTypes DEF Scans
      <4> HIDE DEF done
      <4>3. CASE done = snap[r]
        BY <4>1, <4>2, <4>3, RunTypes DEF Scan, Goto
      <4>4. CASE done # snap[r]
        BY <4>1, <4>2, <4>4, RunTypes DEF Scan, Goto
      <4> QED BY <4>3, <4>4
    <3> QED BY <1>4, <3>1, <3>2
  <2>2. \A q \in Runs \ {r} : /\ pc'[q] = pc[q] /\ at'[q] = at[q]
                              /\ snap'[q] = snap[q] /\ held'[q] = held[q]
    BY <2>1, RunTypes
  <2>3. TypeOK'
    BY <1>0, <2>1, RunTypes DEF TypeOK, Open, worker
  <2>4. Registers' /\ InsertsAlone'
    BY <1>0, <2>1, <2>2 DEF Registers, InsertsAlone, InsertedSteps, Open
  <2>5. Scans'
    BY <2>1, <2>2 DEF Scans
  <2>6. DefaultsAlone'
    BY <1>0, <2>1, <2>2 DEF DefaultsAlone
  <2> QED BY <1>0, <2>3, <2>4, <2>5, <2>6, Unwritten
<1>5. CASE SetDefault(r)
  <2>1. CASE \E v \in DOMAIN models \ snap[r] : models[v].default
    BY <1>0, <1>5, <2>1, EndFailed DEF SetDefault
  <2>2. CASE ~\E v \in DOMAIN models \ snap[r] : models[v].default
    <3>1. /\ pc' = [pc EXCEPT ![r] = "commit"] /\ pc[r] = "set"
          /\ UNCHANGED <<arg, snap, at, held>>
          /\ WaitsFor(r) = {}
      BY <1>5, <2>2 DEF SetDefault, Goto, tx
    <3>2. pc'[r] = "commit" /\ \A q \in Runs \ {r} : pc'[q] = pc[q]
      BY <3>1, RunTypes
    <3>3. \A q \in Runs \ {r} : ~(pc[q] = "commit" /\ arg[q].default)
      BY <3>1 DEF WaitsFor, IndexConflict
    <3>4. \A v \in DOMAIN models : models[v].default => v \in held[r]
      BY <2>2, <3>1 DEF Scans
    <3>5. TypeOK'
      BY <1>0, <3>1, RunTypes DEF TypeOK, Open, worker
    <3>6. Registers' /\ InsertsAlone' /\ Scans'
      BY <1>0, <3>1, <3>2 DEF Registers, InsertsAlone, Scans, InsertedSteps,
         Open
    <3>7. DefaultsAlone'
      BY <1>0, <3>1, <3>2, <3>3, <3>4 DEF DefaultsAlone
    <3> QED BY <1>0, <3>5, <3>6, <3>7, Unwritten
  <2> QED BY <2>1, <2>2
<1>6. CASE DeadlockDetected(r) \/ Abort(r)
  BY <1>0, <1>6, EndFailed DEF DeadlockDetected, Abort
<1> QED BY <1>1, <1>2, <1>3, <1>4, <1>5, <1>6

\* A commit shows the run's row and, with --set-default, its clearing.
LEMMA InvCommit ==
  ASSUME Inv, NEW r \in Runs, Commit(r)
  PROVE  Inv'
<1> DEFINE a == arg[r]
<1> USE DEF Inv
<1>0. /\ pc \in [Runs -> Open \cup {"start", "done", "failed"}]
      /\ a \in [rev : Revisions \cup {None}, default : BOOLEAN]
      /\ snap \in [Runs -> SUBSET Revisions]
      /\ DOMAIN models \subseteq Revisions
      /\ \A v \in DOMAIN models :
            models[v] \in
              [count : Nat \cup {None},
               hint : {None, "comfortable", "tight", "unsupported"},
               status : {"ready", "archived"}, default : BOOLEAN]
  BY DEF TypeOK
<1>1. /\ pc[r] = "commit" /\ pc' = [pc EXCEPT ![r] = "done"]
      /\ arg' = [arg EXCEPT ![r] = NoArg]
      /\ snap' = [snap EXCEPT ![r] = {}]
      /\ at' = [at EXCEPT ![r] = None]
      /\ held' = [held EXCEPT ![r] = {}]
      /\ latest' = IF a.default THEN a.rev ELSE latest
      /\ UNCHANGED <<job, cache>>
  BY DEF Commit, End, Goto, worker
<1>2. /\ pc'[r] = "done"
      /\ \A q \in Runs \ {r} :
            /\ pc'[q] = pc[q] /\ arg'[q] = arg[q] /\ snap'[q] = snap[q]
            /\ at'[q] = at[q] /\ held'[q] = held[q]
  BY <1>1, RunTypes
<1>3. a.rev \in Revisions /\ a.rev \notin DOMAIN models
  BY <1>1 DEF Registers, InsertsAlone, Open, InsertedSteps
<1>4. models' = [v \in DOMAIN models \cup {a.rev} |->
                   IF v = a.rev THEN Row(v, "ready", a.default)
                   ELSE [models[v] EXCEPT
                           !.default = @ /\ ~(a.default /\ v \in held[r])]]
  BY DEF Commit
<1>5. /\ DOMAIN models' = DOMAIN models \cup {a.rev}
      /\ models'[a.rev] = Row(a.rev, "ready", a.default)
  BY <1>4
<1>6. ASSUME NEW v \in DOMAIN models
      PROVE  /\ models'[v] \in
                  [count : Nat \cup {None},
                   hint : {None, "comfortable", "tight", "unsupported"},
                   status : {"ready", "archived"}, default : BOOLEAN]
             /\ models'[v] = Row(v, models'[v].status, models'[v].default)
             /\ models'[v].default
                  <=> models[v].default /\ ~(a.default /\ v \in held[r])
  <2>1. v # a.rev
    BY <1>3
  <2>2. models'[v] = [models[v] EXCEPT
                        !.default = @ /\ ~(a.default /\ v \in held[r])]
    BY <1>4, <2>1
  <2>3. /\ models'[v].count = models[v].count
        /\ models'[v].hint = models[v].hint
        /\ models'[v].status = models[v].status
        /\ models'[v].default
             = (models[v].default /\ ~(a.default /\ v \in held[r]))
    BY <1>0, <2>2
  <2>4. /\ models[v].count = ParamCount[v]
        /\ models[v].hint = vram_hint_for(ParamCount[v])
    BY DEF RowsOK, Row
  <2> DEFINE d == models[v].default /\ ~(a.default /\ v \in held[r])
  <2>5. d \in BOOLEAN
    OBVIOUS
  <2>6. models'[v] = [count |-> models[v].count, hint |-> models[v].hint,
                      status |-> models[v].status, default |-> d]
    BY <1>0, <2>2
  <2> QED BY <1>0, <2>3, <2>4, <2>5, <2>6 DEF Row
<1>7. /\ Row(a.rev, "ready", a.default) \in
             [count : Nat \cup {None},
              hint : {None, "comfortable", "tight", "unsupported"},
              status : {"ready", "archived"}, default : BOOLEAN]
      /\ Row(a.rev, "ready", a.default).status = "ready"
      /\ Row(a.rev, "ready", a.default).default = a.default
  BY <1>0, <1>3, RowType
<1>8. TypeOK'
  <2>1. DOMAIN models' \subseteq Revisions
    BY <1>0, <1>3, <1>5
  <2>2. \A v \in DOMAIN models' :
           models'[v] \in
             [count : Nat \cup {None},
              hint : {None, "comfortable", "tight", "unsupported"},
              status : {"ready", "archived"}, default : BOOLEAN]
    BY <1>5, <1>6, <1>7
  <2> QED BY <1>0, <1>1, <1>3, <2>1, <2>2, RunTypes DEF TypeOK, Open, NoArg
<1>9. RowsOK'
  <2>1. \A v \in DOMAIN models' :
           models'[v] = Row(v, models'[v].status, models'[v].default)
    BY <1>5, <1>6, <1>7
  <2> QED BY <1>1, <2>1 DEF RowsOK, Row
<1>10. Registers' /\ Scans'
  BY <1>1, <1>2 DEF Registers, Scans, Open
<1>11. InsertsAlone'
  BY <1>1, <1>2, <1>5 DEF InsertsAlone, InsertedSteps
<1>12. DefaultsAlone'
  <2> SUFFICES ASSUME NEW q \in Runs, (pc[q] = "commit" /\ arg[q].default)'
               PROVE  /\ \A p \in Runs : pc'[p] = "commit" /\ arg'[p].default
                                            => p = q
                      /\ \A v \in DOMAIN models' :
                            models'[v].default => v \in held'[q]
    BY DEF DefaultsAlone
  <2>1. q # r /\ pc[q] = "commit" /\ arg[q].default
    BY <1>1, <1>2
  <2>2. ~a.default
    BY <1>1, <2>1 DEF DefaultsAlone
  <2>3. \A v \in DOMAIN models' :
           models'[v].default => v \in DOMAIN models /\ models[v].default
    BY <1>5, <1>6, <1>7, <2>2
  <2> QED BY <1>1, <1>2, <2>1, <2>3 DEF DefaultsAlone
<1>13. Checked'
  BY <1>1, <1>5 DEF Checked, Oversized
<1>14. LatestIsDefault'
  <2>1. CASE a.default
    <3>1. \A v \in DOMAIN models : ~models'[v].default
      BY <1>1, <1>6, <2>1 DEF DefaultsAlone
    <3>2. {v \in DOMAIN models' : models'[v].default} = {a.rev}
      BY <1>5, <1>7, <2>1, <3>1
    <3> QED BY <1>1, <2>1, <3>2 DEF LatestIsDefault
  <2>2. CASE ~a.default
    <3>1. {v \in DOMAIN models' : models'[v].default}
            = {v \in DOMAIN models : models[v].default}
      BY <1>5, <1>6, <1>7, <2>2
    <3> QED BY <1>1, <2>2, <3>1 DEF LatestIsDefault
  <2> QED BY <2>1, <2>2
<1> QED BY <1>8, <1>9, <1>10, <1>11, <1>12, <1>13, <1>14

\* The worker's preflight and download.
LEMMA InvWorker ==
  ASSUME Inv, Preflight \/ Ensure
  PROVE  Inv'
<1> USE DEF Inv
<1>1. CASE Preflight
  <2>1. UNCHANGED <<models, pc, arg, snap, at, held, latest, cache>>
    BY <1>1 DEF Preflight, tx
  <2>2. CASE job' = [rev |-> None, verdict |-> "unlisted"]
    BY <2>1, <2>2 DEF TypeOK, RowsOK, Row, Registers, InsertsAlone,
       Scans, DefaultsAlone, Checked, Oversized, LatestIsDefault
  <2>3. ASSUME NEW v \in get_model_meta,
               job' = [rev |-> v,
                       verdict |-> IF check_model_fits(models[v].count,
                                                       models[v].hint)
                                   THEN "accepted" ELSE "rejected"]
        PROVE  Inv'
    <3>1. v \in DOMAIN models /\ v \in Revisions
      BY DEF get_model_meta, TypeOK
    <3>2. /\ models[v].count = ParamCount[v]
          /\ models[v].hint = vram_hint_for(ParamCount[v])
      BY <3>1 DEF RowsOK, Row
    <3>3. ParamCount[v] \in Nat \cup {None} /\ WorkerMax \in Nat
      BY <3>1, ThresholdAssumption
    <3>4. check_model_fits(models[v].count, models[v].hint)
            <=> ~(Oversized(v)
                  \/ vram_hint_for(ParamCount[v]) = "unsupported")
      BY <3>2, <3>3, ThresholdAssumption DEF Oversized, check_model_fits
    <3>5. /\ job'.rev = v
          /\ job'.verdict \in {"accepted", "rejected"}
          /\ job'.verdict = "rejected"
               <=> Oversized(v) \/ v \in HintedUnsupported
      BY <2>3, <3>1, <3>4 DEF HintedUnsupported
    <3>6. Checked'
      <4>1. v \in HintedUnsupported <=> (v \in HintedUnsupported)'
        BY DEF HintedUnsupported
      <4>2. job'.rev = v /\ v \in DOMAIN models' /\ v # None
        BY <2>1, <3>1, <3>5, ThresholdAssumption
      <4>3. \A c \in cache' : ~Oversized(c)
        BY <2>1 DEF Checked
      <4> QED BY <3>5, <4>1, <4>2, <4>3 DEF Checked, Oversized
    <3>7. TypeOK' /\ RowsOK'
      BY <2>1, <2>3, <3>1 DEF TypeOK, RowsOK, Row
    <3>8. Registers' /\ InsertsAlone' /\ Scans' /\ DefaultsAlone'
          /\ LatestIsDefault'
      BY <2>1 DEF Registers, InsertsAlone, Scans, DefaultsAlone,
         LatestIsDefault
    <3> QED BY <3>6, <3>7, <3>8
  <2> QED BY <1>1, <2>2, <2>3 DEF Preflight
<1>2. CASE Ensure
  <2>1. /\ job.verdict = "accepted" /\ job.rev \in Revisions
        /\ ~Oversized(job.rev)
    BY <1>2, ThresholdAssumption DEF Ensure, Checked, TypeOK
  <2>2. /\ cache' \subseteq cache \cup {job.rev}
        /\ job' = [job EXCEPT !.verdict = "ended"]
        /\ UNCHANGED <<models, pc, arg, snap, at, held, latest>>
    BY <1>2 DEF Ensure, tx
  <2>3. job'.rev = job.rev /\ job'.verdict = "ended"
    BY <2>2 DEF RowsOK
  <2>4. TypeOK' /\ RowsOK'
    BY <2>1, <2>2, <2>3 DEF TypeOK, RowsOK, Row
  <2>5. Checked'
    BY <2>1, <2>2, <2>3 DEF Checked, Oversized
  <2>6. Registers' /\ InsertsAlone' /\ Scans' /\ DefaultsAlone'
          /\ LatestIsDefault'
    BY <2>2 DEF Registers, InsertsAlone, Scans, DefaultsAlone,
         LatestIsDefault
  <2> QED BY <2>4, <2>5, <2>6
<1> QED BY <1>1, <1>2

\* Every step of the system keeps the invariant.
LEMMA InvNext == Inv /\ [Next]_vars => Inv'
<1> SUFFICES ASSUME Inv, [Next]_vars PROVE Inv'
  OBVIOUS
<1>1. CASE Next
  BY <1>1, InvOpen, InvCommit, InvWorker DEF Next, Statement
<1>2. CASE UNCHANGED vars
  BY <1>2 DEF vars, tx, worker, Inv, TypeOK, RowsOK, Row, Registers,
     InsertsAlone, Scans, DefaultsAlone, Checked, Oversized, LatestIsDefault
<1> QED BY <1>1, <1>2

\* Every reachable state satisfies the inductive invariant.
THEOREM Invariance == Spec => []Inv
BY InvInit, InvNext, PTL DEF Spec

-----------------------------------------------------------------------------
(***************************************************************************)
(* The results.                                                            *)
(***************************************************************************)

\* Type correctness: whatever runs interleave, fail and commit, the table
\* holds rows of the repo's revisions with hints and statuses its CHECKs
\* allow.
THEOREM TypeCorrect == Spec => []TypeOK
BY Invariance, PTL DEF Inv

\* register_model.py --set-default: however many runs interleave, wait for
\* each other's rows and fail on the partial unique index, the one that
\* committed last is the repo's only default.
THEOREM LastDefaultStands == Spec => []LatestIsDefault
BY Invariance, PTL DEF Inv

\* A commit that takes the default away puts its own in place: a repo that
\* has a default keeps one.
THEOREM DefaultStays == Spec => DefaultNeverLost
<1> DEFINE D == \E v \in DOMAIN models : models[v].default
           Step == D => D'
<1>1. Inv /\ [Next]_vars => [Step]_vars
  <2> SUFFICES ASSUME Inv, Next, D PROVE D'
    OBVIOUS
  <2>1. ASSUME NEW r \in Runs, Commit(r) PROVE D'
    <3> DEFINE a == arg[r]
    <3>1. /\ a.rev \notin DOMAIN models /\ a.rev \in Revisions
          /\ a \in [rev : Revisions \cup {None}, default : BOOLEAN]
      BY <2>1 DEF Commit, Inv, TypeOK, Registers, InsertsAlone, Open,
         InsertedSteps
    <3>2. models' = [v \in DOMAIN models \cup {a.rev} |->
                       IF v = a.rev THEN Row(v, "ready", a.default)
                       ELSE [models[v] EXCEPT
                               !.default = @ /\ ~(a.default /\ v \in held[r])]]
      BY <2>1 DEF Commit
    <3>3. CASE a.default
      <4>1. a.rev \in DOMAIN models' /\ models'[a.rev].default
        BY <3>1, <3>2, <3>3, RowType
      <4> QED BY <4>1
    <3>4. CASE ~a.default
      <4>1. PICK v \in DOMAIN models : models[v].default
        OBVIOUS
      <4>2. models'[v] = [models[v] EXCEPT
                            !.default = @ /\ ~(a.default /\ v \in held[r])]
        BY <3>1, <3>2
      <4>3. models'[v].default
              = (models[v].default /\ ~(a.default /\ v \in held[r]))
        BY <4>2 DEF Inv, TypeOK
      <4>4. v \in DOMAIN models' /\ models'[v].default
        BY <3>2, <3>4, <4>1, <4>3
      <4> QED BY <4>4
    <3> QED BY <3>1, <3>3, <3>4
  <2>2. UNCHANGED models => D'
    OBVIOUS
  <2>3. ASSUME NEW r \in Runs,
               \/ Resolve(r) \/ Select(r) \/ Insert(r) \/ ClearStart(r)
               \/ ClearRow(r) \/ SetDefault(r) \/ DeadlockDetected(r)
               \/ Abort(r)
        PROVE  UNCHANGED models
    BY <2>3 DEF Resolve, Select, Insert, ClearStart, ClearRow, SetDefault,
       DeadlockDetected, Abort
  <2>4. Preflight \/ Ensure => UNCHANGED models
    BY DEF Preflight, Ensure
  <2> HIDE DEF D
  <2> QED BY <2>1, <2>2, <2>3, <2>4 DEF Next, Statement
<1>2. Spec => [][Step]_vars
  BY <1>1, Invariance, PTL DEF Spec
<1> QED BY <1>2 DEF DefaultNeverLost

\* JobProcessor._run's check_model_fits: as long as the two files are kept in
\* step, the hint stored at registration and the worker's own copy of the
\* threshold reject, together and each for itself, exactly the revisions
\* known to be larger than TIGHT_MAX_PARAMS.
THEOREM RejectsExactlyOversized ==
  ASSUME TightMax = WorkerMax
  PROVE  Spec => []OversizedIsRejected
<1>1. Inv => OversizedIsRejected
  <2> SUFFICES ASSUME Inv, job.rev # None
               PROVE  /\ job.verdict = "rejected"
                           <=> /\ models[job.rev].count # None
                               /\ models[job.rev].count > WorkerMax
                      /\ job.verdict = "rejected"
                           <=> models[job.rev].hint = "unsupported"
    BY DEF OversizedIsRejected
  <2>1. job.rev \in DOMAIN models /\ job.rev \in Revisions
        /\ (job.verdict = "rejected"
              <=> Oversized(job.rev)
                  \/ vram_hint_for(ParamCount[job.rev]) = "unsupported")
    BY DEF HintedUnsupported, Inv, Checked, TypeOK
  <2>2. /\ models[job.rev].count = ParamCount[job.rev]
        /\ models[job.rev].hint = vram_hint_for(ParamCount[job.rev])
    BY <2>1 DEF Inv, RowsOK, Row
  <2>3. ParamCount[job.rev] \in Nat \cup {None}
    BY <2>1, ThresholdAssumption
  <2>4. vram_hint_for(ParamCount[job.rev]) = "unsupported"
          <=> Oversized(job.rev)
    BY <2>3, HintAgrees DEF Oversized
  <2> QED BY <2>1, <2>2, <2>4 DEF Oversized
<1> QED BY <1>1, Invariance, PTL

\* HFModelCache.ensure: what is downloaded is the revision the preflight
\* read, so that no revision known to be too large for the worker is,
\* whatever becomes the default in between and even if the thresholds of
\* register_model.py have drifted from the worker's.
THEOREM CachedWasChecked == Spec => []OversizedNeverCached
<1>1. Inv => OversizedNeverCached
  <2> SUFFICES ASSUME Inv, NEW v \in cache
               PROVE  ParamCount[v] = None \/ ParamCount[v] <= WorkerMax
    BY DEF OversizedNeverCached
  <2>1. ~Oversized(v) /\ v \in Revisions
    BY DEF Inv, Checked, TypeOK
  <2>2. WorkerMax \in Nat /\ ParamCount[v] \in Nat \cup {None}
    BY <2>1, ThresholdAssumption
  <2> QED BY <2>1, <2>2 DEF Oversized
<1> QED BY <1>1, Invariance, PTL
=============================================================================
