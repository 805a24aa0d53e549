----------------------------- MODULE Execution -----------------------------
(***************************************************************************)
(* The execution of a job on a dataset of the registry, ready or not:      *)
(* JobProcessor._run and CachingExecutor.run with what they do to files,   *)
(* from the format check over the download and the trainer's loader to the *)
(* adapter's upload.  An attempt that dies is followed by another one,     *)
(* which finds in Garage what the first one left there.                    *)
(*                                                                         *)
(* Rows, lists and heartbeats of the job are those of JobPipeline; here    *)
(* the job is its status, and Reclaim stands for the way back to the       *)
(* queue.  The registration runs of DatasetRegistry go on meanwhile.       *)
(***************************************************************************)
EXTENDS DatasetRegistry

CONSTANTS Attempts,      \* executions of the job
          AdapterFiles,  \* files train writes, uploaded in sorted order
          Overlap,       \* may an attempt be reclaimed while it is alive?
          None           \* no attempt

ASSUME ExecutionAssumption ==
    /\ AdapterFiles \in Nat \ {0}
    /\ Overlap \in BOOLEAN
    /\ None \notin Attempts

VARIABLES job,      \* the job's status, "none" before it is created
          picked,   \* the status of the dataset's row when it was created
          step,     \* step[a]: the next step of attempt a
          keys,     \* keys[a]: the files its listing found
          local,    \* local[a]: the files in its temporary directory
          trained,  \* trained[a]: the files its adapter was trained on
          put,      \* put[a]: adapter files it has uploaded
          adapter,  \* adapter[i]: the attempt that wrote its file i, in Garage
          why       \* why[a]: what it failed of

exec == <<job, picked, step, keys, local, trained, put, adapter, why>>

ExecInit ==
    /\ Init
    /\ job = "none"
    /\ picked = "none"
    /\ step = [a \in Attempts |-> "idle"]
    /\ keys = [a \in Attempts |-> {}]
    /\ local = [a \in Attempts |-> {}]
    /\ trained = [a \in Attempts |-> {}]
    /\ put = [a \in Attempts |-> 0]
    /\ adapter = [i \in 1..AdapterFiles |-> None]
    /\ why = [a \in Attempts |-> "nothing"]

GoOn(a, next) == step' = [step EXCEPT ![a] = next]

Alive(a) == step[a] \notin {"idle", "dead", "done"}

\* mark_failed, where the job is still running.
Fails(a, reason) ==
    /\ job' = IF job = "running" THEN "failed" ELSE job
    /\ why' = [why EXCEPT ![a] = reason]
    /\ GoOn(a, "done")
-----------------------------------------------------------------------------
(* Formats.  "none" is a name without extension.                           *)

SUPPORTED_FORMATS == {"csv", "json", "parquet"}

\* The extension of the job's dataset_path; a prefix has none.
detect_format == IF data.path_type = "object" THEN data.suffix[1] ELSE "none"

validate_dataset_format == detect_format \in SUPPORTED_FORMATS \cup {"none"}

\* What decides between download_file and _download_prefix.
_is_single_file == detect_format # "none"

\* Mutant: the loader does not know parquet.
_FORMAT_BY_SUFFIX_NoParquet ==
    [s \in {"csv", "json", "jsonl"} |-> IF s = "jsonl" THEN "json" ELSE s]

_FORMAT_BY_SUFFIX ==
    [s \in {"csv", "json", "jsonl", "parquet"} |->
        IF s = "jsonl" THEN "json" ELSE s]

\* The loader formats dataset_load_spec finds, for files it knows.
LoaderFormats(fs) == {_FORMAT_BY_SUFFIX[data.suffix[f]] : f \in fs}

dataset_load_spec(fs) ==
    /\ fs # {}
    /\ \A f \in fs : data.suffix[f] \in DOMAIN _FORMAT_BY_SUFFIX
    /\ \A g, h \in LoaderFormats(fs) : g = h

resolve_text_field == data.text
-----------------------------------------------------------------------------
(* The job                                                                 *)

\* POST /jobs takes any dataset_path that is not blank, without a look at the
\* registry: the dataset may be ready, as the ones GET /datasets lists unless
\* asked for others, still pending, archived, or not there at all.
Pick ==
    /\ job = "none"
    /\ job' = "queued"
    /\ picked' = row.status
    /\ UNCHANGED <<vars, step, keys, local, trained, put, adapter, why>>

\* A worker claims the job and marks it running.
StartAttempt(a) ==
    /\ job = "queued"
    /\ step[a] = "idle"
    /\ job' = "running"
    /\ GoOn(a, "validate")
    /\ UNCHANGED <<vars, picked, keys, local, trained, put, adapter, why>>

\* The reconciler takes the job from an attempt whose heartbeat is too old.
Reclaim ==
    /\ job = "running"
    /\ ~Overlap => \A a \in Attempts : ~Alive(a)
    /\ job' = "queued"
    /\ UNCHANGED <<vars, picked, step, keys, local, trained, put, adapter,
                   why>>

\* The worker dies; what is in Garage stays.
Die(a) ==
    /\ Alive(a)
    /\ GoOn(a, "dead")
    /\ UNCHANGED <<vars, job, picked, keys, local, trained, put, adapter, why>>

\* The Hub, Garage or the GPU fails.
InfraError(a) ==
    /\ step[a] \in {"ensure", "list", "fetch", "train", "upload"}
    /\ Fails(a, "error")
    /\ UNCHANGED <<vars, picked, keys, local, trained, put, adapter>>
-----------------------------------------------------------------------------
(* One attempt                                                             *)

Validate(a) ==
    /\ step[a] = "validate"
    /\ IF validate_dataset_format
       THEN GoOn(a, "ensure") /\ UNCHANGED <<job, why>>
       ELSE Fails(a, "format")
    /\ UNCHANGED <<vars, picked, keys, local, trained, put, adapter>>

\* HFModelCache.ensure and its heartbeat; then download picks the way.
Ensure(a) ==
    /\ step[a] = "ensure"
    /\ IF _is_single_file
       THEN GoOn(a, "fetch") /\ keys' = [keys EXCEPT ![a] = {1}]
       ELSE GoOn(a, "list") /\ UNCHANGED keys
    /\ UNCHANGED <<vars, job, picked, local, trained, put, adapter, why>>

\* Mutant: only the first page of the listing is read.
ListKeysOnePage(a) ==
    LET listed == IF data.path_type = "prefix" THEN objects \cap {1} ELSE {}
    IN  /\ step[a] = "list"
        /\ keys' = [keys EXCEPT ![a] = listed]
        /\ IF listed = {} THEN Fails(a, "empty")
                          ELSE GoOn(a, "fetch") /\ UNCHANGED <<job, why>>
        /\ UNCHANGED <<vars, picked, local, trained, put, adapter>>

\* _list_keys: the objects under the prefix; none is an error.  A single
\* file is not under it.
ListKeys(a) ==
    LET listed == IF data.path_type = "prefix" THEN objects ELSE {} IN
    /\ step[a] = "list"
    /\ keys' = [keys EXCEPT ![a] = listed]
    /\ IF listed = {} THEN Fails(a, "empty")
                      ELSE GoOn(a, "fetch") /\ UNCHANGED <<job, why>>
    /\ UNCHANGED <<vars, picked, local, trained, put, adapter>>

\* One download_file.
FetchFile(a) ==
    /\ step[a] = "fetch"
    /\ \E f \in keys[a] \ local[a] :
          /\ \A g \in keys[a] \ local[a] : f <= g
          /\ f \in objects
          /\ local' = [local EXCEPT ![a] = @ \cup {f}]
    /\ UNCHANGED <<vars, job, picked, step, keys, trained, put, adapter,
                   why>>

\* The trainer loads what was downloaded.
Load(a) ==
    /\ step[a] = "fetch"
    /\ keys[a] \subseteq local[a]
    /\ CASE ~dataset_load_spec(local[a]) -> Fails(a, "load")
         [] dataset_load_spec(local[a]) /\ ~resolve_text_field ->
               Fails(a, "text")
         [] OTHER -> GoOn(a, "train") /\ UNCHANGED <<job, why>>
    /\ UNCHANGED <<vars, picked, keys, local, trained, put, adapter>>

\* trainer.train() and save_pretrained.
Train(a) ==
    /\ step[a] = "train"
    /\ trained' = [trained EXCEPT ![a] = local[a]]
    /\ GoOn(a, "upload")
    /\ UNCHANGED <<vars, job, picked, keys, local, put, adapter, why>>

\* Mutant: a file that is already there is not uploaded again.
UploadMissing(a) ==
    /\ step[a] = "upload"
    /\ put[a] < AdapterFiles
    /\ put' = [put EXCEPT ![a] = @ + 1]
    /\ adapter' = [adapter EXCEPT ![put[a] + 1] = IF @ = None THEN a ELSE @]
    /\ UNCHANGED <<vars, job, picked, step, keys, local, trained, why>>

\* One upload_file, over whatever is there.
UploadAdapter(a) ==
    /\ step[a] = "upload"
    /\ put[a] < AdapterFiles
    /\ put' = [put EXCEPT ![a] = @ + 1]
    /\ adapter' = [adapter EXCEPT ![put[a] + 1] = a]
    /\ UNCHANGED <<vars, job, picked, step, keys, local, trained, why>>

\* mark_completed, where the job is still running.
Complete(a) ==
    /\ step[a] = "upload"
    /\ put[a] = AdapterFiles
    /\ job' = IF job = "running" THEN "completed" ELSE job
    /\ GoOn(a, "done")
    /\ UNCHANGED <<vars, picked, keys, local, trained, put, adapter, why>>
-----------------------------------------------------------------------------
Attempt(a) == \/ StartAttempt(a) \/ Validate(a) \/ Ensure(a) \/ ListKeys(a)
              \/ FetchFile(a) \/ Load(a) \/ Train(a) \/ UploadAdapter(a)
              \/ Complete(a)

ExecNext == \/ Next /\ UNCHANGED exec
            \/ Pick \/ Reclaim
            \/ \E a \in Attempts : Attempt(a) \/ Die(a) \/ InfraError(a)

ExecSpec == ExecInit /\ [][ExecNext]_<<vars, exec>>
-----------------------------------------------------------------------------
(* Properties                                                              *)

\* A job whose dataset was ready when it was created trains on every file of
\* it, although runs of the script delete, replace and re-upload in between,
\* and the worker lists the prefix without asking the registry.  (A job on a
\* pending dataset trains on what its listing finds.)
TrainedOnWhole ==
    \A a \in Attempts :
        picked = "ready" /\ trained[a] # {} => trained[a] = Files

\* The adapter of a completed job is whole and of one training: files an
\* attempt left when it died in its upload are all replaced.
OneTraining ==
    job = "completed" =>
        \E a \in Attempts : \A i \in DOMAIN adapter : adapter[i] = a

\* The format check and the loader agree on single files: a dataset that
\* passes validate_dataset_format is not turned down for its format by
\* dataset_load_spec after model and dataset were downloaded.  Only a
\* directory's files are first looked at there.
RejectedEarly ==
    \A a \in Attempts : why[a] = "load" => data.path_type = "prefix"
=============================================================================
