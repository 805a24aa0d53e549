--------------------------- MODULE ModelRegistry ---------------------------
(***************************************************************************)
(* The base-model allow-list of one Hugging Face repo: concurrent runs of  *)
(* scripts/register_model.py, the rows of table models they write, and the *)
(* worker's preflight check and model download for a job that names the    *)
(* repo.                                                                   *)
(*                                                                         *)
(* A run is one READ COMMITTED transaction, so what it writes shows at its *)
(* commit.  Each statement reads what was committed when it started, waits *)
(* for the rows and index entries other open transactions have written,    *)
(* and fails on a unique violation, which rolls the run back.  An UPDATE   *)
(* of several rows takes them one by one and keeps those it has while it   *)
(* waits for the next, so runs may deadlock; the database then fails one.  *)
(***************************************************************************)
EXTENDS Naturals, Relation

CONSTANTS Runs,            \* invocations of the script
          Revisions,       \* commit SHAs of the repo
          ParamCount,      \* what the Hub reports for each, None if nothing
          None,            \* no count, no row
          ComfortableMax,  \* COMFORTABLE_MAX_PARAMS of register_model.py
          TightMax,        \* TIGHT_MAX_PARAMS of register_model.py
          WorkerMax        \* TIGHT_MAX_PARAMS of the worker's guardrail.py

ASSUME ThresholdAssumption ==
    /\ None \notin Nat \cup Revisions
    /\ None \notin {"comfortable", "tight", "unsupported"}
    /\ ParamCount \in [Revisions -> (Nat \ {0}) \cup {None}]
    /\ ComfortableMax \in Nat /\ TightMax \in Nat /\ WorkerMax \in Nat
    /\ ComfortableMax < TightMax

VARIABLES models,   \* the committed rows, by revision
          pc,       \* pc[r]: the next statement of run r
          arg,      \* arg[r]: what r registers
          snap,     \* snap[r]: the revisions its clearing UPDATE found
          at,       \* at[r]: the one its scan has come to, or None
          held,     \* held[r]: those it has updated, and so locked
          latest,   \* the revision whose --set-default was committed last
          job,      \* the job's preflight: the revision read and the verdict
          cache     \* the revisions in the worker's model cache

tx == <<arg, snap, at, held>>
worker == <<job, cache>>
vars == <<models, pc, tx, latest, worker>>

\* Mutant: a hint the column's CHECK does not allow.
vram_hint_forRenamed(count) ==
    IF count = None THEN None
    ELSE IF count <= TightMax THEN "comfortable" ELSE "oversized"

\* Mutant: < for <= at the upper threshold.
vram_hint_forStrict(count) ==
    CASE count = None -> None
      [] count # None /\ count <= ComfortableMax -> "comfortable"
      [] count # None /\ count > ComfortableMax /\ count < TightMax -> "tight"
      [] OTHER -> "unsupported"

vram_hint_for(count) ==
    CASE count = None -> None
      [] count # None /\ count <= ComfortableMax -> "comfortable"
      [] count # None /\ count > ComfortableMax /\ count <= TightMax -> "tight"
      [] OTHER -> "unsupported"

\* Does check_model_fits let the model through?
check_model_fits(count, hint) ==
    hint # "unsupported" /\ (count = None \/ count <= WorkerMax)

Row(v, status, default) ==
    [count |-> ParamCount[v], hint |-> vram_hint_for(ParamCount[v]),
     status |-> status, default |-> default]

NoArg == [rev |-> None, default |-> FALSE]

\* The table is empty, or holds one revision registered before.
Init ==
    /\ \/ models = [v \in {} |-> None]
       \/ \E v \in Revisions, s \in {"ready", "archived"}, d \in BOOLEAN :
             models = [x \in {v} |-> Row(x, s, d)]
    /\ pc = [r \in Runs |-> "start"]
    /\ arg = [r \in Runs |-> NoArg]
    /\ snap = [r \in Runs |-> {}]
    /\ at = [r \in Runs |-> None]
    /\ held = [r \in Runs |-> {}]
    /\ latest = None
    /\ job = [rev |-> None, verdict |-> "none"]
    /\ cache = {}

Goto(r, next) == pc' = [pc EXCEPT ![r] = next]

\* Mutant: the transaction of a run that fails is left open.
EndLeftOpen(r, how) ==
    /\ Goto(r, how)
    /\ arg' = [arg EXCEPT ![r] = NoArg]
    /\ snap' = [snap EXCEPT ![r] = {}]
    /\ at' = [at EXCEPT ![r] = None]
    /\ held' = [held EXCEPT ![r] = IF how = "failed" THEN @ ELSE {}]

\* The script ends: its transaction was committed or is rolled back, and
\* nothing of it is left.
End(r, how) ==
    /\ Goto(r, how)
    /\ arg' = [arg EXCEPT ![r] = NoArg]
    /\ snap' = [snap EXCEPT ![r] = {}]
    /\ at' = [at EXCEPT ![r] = None]
    /\ held' = [held EXCEPT ![r] = {}]

Open == {"select", "insert", "clear", "clearing", "set", "commit"}
-----------------------------------------------------------------------------
(* What open transactions hold, and who waits for it                       *)

\* r has inserted revision v and not committed.
Inserting(r, v) == pc[r] \in {"clear", "clearing", "set", "commit"}
                   /\ arg[r].rev = v

\* Whether the entry of r in models_one_default_per_repo conflicts with what
\* q has written: the row it made the default, or a default it has cleared
\* that r does not clear itself.
IndexConflict(r, q) ==
    \/ pc[q] = "commit" /\ arg[q].default
    \/ \E v \in held[q] \ snap[r] : models[v].default

\* The runs whose end the statement of r waits for: an INSERT for whoever
\* inserts or updates the same revision, the clearing UPDATE for whoever has
\* updated the row its scan has come to, the last UPDATE for the index.
WaitsFor(r) ==
    {q \in Runs \ {r} :
        \/ /\ pc[r] = "insert"
           /\ Inserting(q, arg[r].rev) \/ arg[r].rev \in held[q]
        \/ pc[r] = "clearing" /\ at[r] \in held[q]
        \/ pc[r] = "set" /\ IndexConflict(r, q)}

Deadlocked(r) ==
    TransitiveClosure([p, q \in Runs |-> q \in WaitsFor(p)], Runs)[r, r]
-----------------------------------------------------------------------------
(* register_model.py                                                       *)

\* fetch_hf_metadata resolves the revision and, when the Hub has one that is
\* not 0, its count.
Resolve(r) ==
    /\ pc[r] = "start"
    /\ \E v \in Revisions, d \in BOOLEAN :
          arg' = [arg EXCEPT ![r] = [rev |-> v, default |-> d]]
    /\ Goto(r, "select")
    /\ UNCHANGED <<models, snap, at, held, latest, worker>>

\* The SELECT: a revision that is registered ends the run.
Select(r) ==
    /\ pc[r] = "select"
    /\ IF arg[r].rev \in DOMAIN models
       THEN End(r, "failed")
       ELSE Goto(r, "insert") /\ UNCHANGED tx
    /\ UNCHANGED <<models, latest, worker>>

\* The INSERT waits for an open insert or update of the same revision, and
\* fails if one is committed.
Insert(r) ==
    /\ pc[r] = "insert"
    /\ WaitsFor(r) = {}
    /\ IF arg[r].rev \in DOMAIN models
       THEN End(r, "failed")
       ELSE /\ Goto(r, IF arg[r].default THEN "clear" ELSE "commit")
            /\ UNCHANGED tx
    /\ UNCHANGED <<models, latest, worker>>

\* Where the scan of r is after the rows in done: at any other row of its
\* snapshot (nothing orders them), or at its end.
Scan(r, all, done) ==
    IF done = all
    THEN Goto(r, "set") /\ at' = [at EXCEPT ![r] = None]
    ELSE /\ Goto(r, "clearing")
         /\ \E v \in all \ done : at' = [at EXCEPT ![r] = v]

\* UPDATE ... SET is_default = false: its snapshot.  Rows committed later are
\* not in it ...
ClearStart(r) ==
    /\ pc[r] = "clear"
    /\ snap' = [snap EXCEPT ![r] = DOMAIN models]
    /\ Scan(r, DOMAIN models, {})
    /\ UNCHANGED <<models, arg, held, latest, worker>>

\* ... and its writes, row by row: each is locked until the transaction ends.
ClearRow(r) ==
    /\ pc[r] = "clearing"
    /\ WaitsFor(r) = {}
    /\ held' = [held EXCEPT ![r] = @ \cup {at[r]}]
    /\ Scan(r, snap[r], held[r] \cup {at[r]})
    /\ UNCHANGED <<models, arg, snap, latest, worker>>

\* Mutant: the index models_one_default_per_repo is dropped.
SetDefaultNoIndex(r) ==
    /\ pc[r] = "set"
    /\ Goto(r, "commit")
    /\ UNCHANGED <<models, tx, latest, worker>>

\* UPDATE ... SET is_default = true: the partial unique index decides.
SetDefault(r) ==
    /\ pc[r] = "set"
    /\ WaitsFor(r) = {}
    /\ IF \E v \in DOMAIN models \ snap[r] : models[v].default
       THEN End(r, "failed")
       ELSE Goto(r, "commit") /\ UNCHANGED tx
    /\ UNCHANGED <<models, latest, worker>>

\* Mutant: every run clears the default, --set-default or not.
CommitClearsAlways(r) ==
    LET a == arg[r] IN
    /\ pc[r] = "commit"
    /\ models' = [v \in DOMAIN models \cup {a.rev} |->
                    IF v = a.rev THEN Row(v, "ready", a.default)
                    ELSE [models[v] EXCEPT !.default = FALSE]]
    /\ latest' = IF a.default THEN a.rev ELSE latest
    /\ End(r, "done")
    /\ UNCHANGED worker

Commit(r) ==
    LET a == arg[r] IN
    /\ pc[r] = "commit"
    /\ models' = [v \in DOMAIN models \cup {a.rev} |->
                    IF v = a.rev THEN Row(v, "ready", a.default)
                    ELSE [models[v] EXCEPT
                            !.default = @ /\ ~(a.default /\ v \in held[r])]]
    /\ latest' = IF a.default THEN a.rev ELSE latest
    /\ End(r, "done")
    /\ UNCHANGED worker

\* The deadlock detector of the database cancels a statement of the cycle.
DeadlockDetected(r) ==
    /\ End(r, "failed")
    /\ UNCHANGED <<models, latest, worker>>
    /\ WaitsFor(r) # {}
    /\ Deadlocked(r)

\* The Hub or the database fails, or the script is killed: rolled back.
Abort(r) ==
    /\ pc[r] \in Open \cup {"start"}
    /\ End(r, "failed")
    /\ UNCHANGED <<models, latest, worker>>
-----------------------------------------------------------------------------
(* Worker: the preflight check of JobProcessor._run                        *)

\* The rows get_model_meta may return: ready ones, the default first.
get_model_meta ==
    LET ready == {v \in DOMAIN models : models[v].status = "ready"}
        first == {v \in ready : models[v].default}
    IN  IF first = {} THEN ready ELSE first

Preflight ==
    /\ job.verdict = "none"
    /\ \/ /\ get_model_meta = {}
          /\ job' = [rev |-> None, verdict |-> "unlisted"]
       \/ \E v \in get_model_meta :
             job' = [rev |-> v,
                     verdict |-> IF check_model_fits(models[v].count,
                                                     models[v].hint)
                                 THEN "accepted" ELSE "rejected"]
    /\ UNCHANGED <<models, pc, tx, latest, cache>>

\* Mutant: the download resolves the repo's revision again.
EnsureDefault ==
    /\ job.verdict = "accepted"
    /\ \/ \E v \in get_model_meta : cache' = cache \cup {v}
       \/ UNCHANGED cache
    /\ job' = [job EXCEPT !.verdict = "ended"]
    /\ UNCHANGED <<models, pc, tx, latest>>

\* HFModelCache.ensure downloads the revision the preflight read, or fails.
Ensure ==
    /\ job.verdict = "accepted"
    /\ \/ cache' = cache \cup {job.rev}
       \/ UNCHANGED cache
    /\ job' = [job EXCEPT !.verdict = "ended"]
    /\ UNCHANGED <<models, pc, tx, latest>>
-----------------------------------------------------------------------------
Statement(r) == \/ Resolve(r) \/ Select(r) \/ Insert(r) \/ ClearStart(r)
                \/ ClearRow(r) \/ SetDefault(r) \/ Commit(r)

Next == \/ \E r \in Runs : Statement(r) \/ DeadlockDetected(r) \/ Abort(r)
        \/ Preflight \/ Ensure

Spec == Init /\ [][Next]_vars

\* While a run has a statement that is not blocked, or is in a deadlock, some
\* statement is executed or a deadlock is detected.
Fairness == WF_vars(\E r \in Runs : Statement(r) \/ DeadlockDetected(r))

FairSpec == Spec /\ Fairness
-----------------------------------------------------------------------------
(* Properties                                                              *)

\* The type of the state.
TypeOK ==
    /\ DOMAIN models \subseteq Revisions
    /\ \A v \in DOMAIN models :
          models[v] \in [count : Nat \cup {None},
                         hint : {None, "comfortable", "tight", "unsupported"},
                         status : {"ready", "archived"}, default : BOOLEAN]
    /\ pc \in [Runs -> Open \cup {"start", "done", "failed"}]
    /\ arg \in [Runs -> [rev : Revisions \cup {None}, default : BOOLEAN]]
    /\ snap \in [Runs -> SUBSET Revisions]
    /\ held \in [Runs -> SUBSET Revisions]
    /\ at \in [Runs -> Revisions \cup {None}]
    /\ latest \in Revisions \cup {None}
    /\ job.rev \in Revisions \cup {None}
    /\ cache \subseteq Revisions

\* However the runs interleave, wait and fail, the one whose --set-default
\* committed last is the repo's only default: a run never leaves a second
\* default standing nor clears one that a later commit set.
LatestIsDefault ==
    latest # None =>
        {v \in DOMAIN models : models[v].default} = {latest}

\* A repo that has a default keeps one: no commit takes it away without
\* putting its own in place.
DefaultNeverLost ==
    [][(\E v \in DOMAIN models : models[v].default)
          => (\E v \in DOMAIN models : models[v].default)']_vars

\* The two hand-synced copies of the thresholds agree: the preflight rejects
\* exactly the revisions known to be larger than the worker's
\* TIGHT_MAX_PARAMS, and these are the ones whose stored hint, computed with
\* register_model.py's thresholds and shown to the user, says "unsupported".
OversizedIsRejected ==
    job.rev # None =>
        LET m == models[job.rev] IN
        /\ job.verdict = "rejected" <=> m.count # None /\ m.count > WorkerMax
        /\ job.verdict = "rejected" <=> m.hint = "unsupported"

\* What is downloaded is what was checked: no revision known to be larger
\* than the worker's TIGHT_MAX_PARAMS is ever fetched, although the repo's
\* default may change between the preflight and the download.
OversizedNeverCached ==
    \A v \in cache : ParamCount[v] = None \/ ParamCount[v] <= WorkerMax

\* Runs that hold rows and index entries may come to wait for each other, as
\* when one holds a row that another one's UPDATE comes to, and waits in the
\* index for a default which that one has cleared.  The detector fails one
\* run of such a cycle, whose rollback lets the rest go on, and no other
\* wait lasts: every run ends.
EveryRunEnds == <>(\A r \in Runs : pc[r] \in {"done", "failed"})
=============================================================================
