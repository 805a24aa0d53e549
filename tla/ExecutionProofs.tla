-------------------------- MODULE ExecutionProofs --------------------------
(***************************************************************************)
(* Proofs about DatasetRegistry and Execution for every set of datasets,   *)
(* registration runs and attempts, and every number of adapter files.      *)
(***************************************************************************)
EXTENDS Execution, TLAPS

(***************************************************************************)
(* The parts of the inductive invariant.                                   *)
(***************************************************************************)

\* A run that is about to activate the row has seen all files in Garage; they
\* stay there whichever run put them.
ActivatesWhole == \A r \in Runs : pc[r] = "activate" => objects = Files

RegistryInv == TypeOK /\ ActivatesWhole /\ ReadyIsComplete

\* The steps of an attempt whose keys are known, and whose files are local.
FetchedSteps == {"train", "upload"}
ListedSteps == {"fetch"} \cup FetchedSteps
AliveSteps == {"validate", "ensure", "list"} \cup ListedSteps

\* The type of the job, its attempts and its adapter.
ExecTypeOK ==
    /\ job \in {"none", "queued", "running", "failed", "completed"}
    /\ picked \in {"none", "pending", "ready", "archived"}
    /\ step \in [Attempts -> AliveSteps \cup {"idle", "dead", "done"}]
    /\ keys \in [Attempts -> SUBSET Files]
    /\ local \in [Attempts -> SUBSET Files]
    /\ trained \in [Attempts -> SUBSET Files]
    /\ put \in [Attempts -> 0..AdapterFiles]
    /\ adapter \in [1..AdapterFiles -> Attempts \cup {None}]
    /\ why \in [Attempts -> {"nothing", "format", "empty", "load", "text",
                             "error"}]

\* A dataset that was ready when the job was created is complete.
PickedWhole ==
    /\ job # "none" /\ picked = "ready" => objects = Files
    /\ \A a \in Attempts : step[a] # "idle" => job # "none"

\* What an attempt lists and downloads of such a dataset is the whole of it,
\* as is what it downloads of a single file, ready or not.
Whole == picked = "ready" \/ data.path_type = "object"

ListsWhole ==
    \A a \in Attempts :
        Whole =>
            /\ step[a] \in ListedSteps => keys[a] = Files
            /\ step[a] \in FetchedSteps => local[a] = Files

\* An attempt that has not started has trained nothing.
Untrained == \A a \in Attempts : step[a] = "idle" => trained[a] = {}

\* A single file has passed the format check before anything is downloaded,
\* and one without extension is never fetched.
Validated ==
    \A a \in Attempts :
        /\ step[a] \in AliveSteps \ {"validate"} => validate_dataset_format
        /\ step[a] \in ListedSteps /\ data.path_type = "object"
              => detect_format \in SUPPORTED_FORMATS

ExecInv == /\ RegistryInv
           /\ ExecTypeOK
           /\ PickedWhole
           /\ ListsWhole
           /\ Validated
           /\ Untrained
           /\ TrainedOnWhole
           /\ RejectedEarly

\* Without false reclaims one attempt at most is alive, and the job is its.
OneAlive ==
    \A a \in Attempts : Alive(a) =>
        /\ job = "running"
        /\ \A b \in Attempts : Alive(b) => b = a

\* The files an attempt has uploaded are its own ...
OwnUploads ==
    \A a \in Attempts :
        /\ step[a] = "upload" => \A i \in 1..put[a] : adapter[i] = a
        /\ step[a] \in (AliveSteps \ {"upload"}) \cup {"idle"} => put[a] = 0

SoloInv == OneAlive /\ OwnUploads /\ OneTraining

-----------------------------------------------------------------------------
(***************************************************************************)
(* The registration runs.                                                  *)
(***************************************************************************)

\* The files of a dataset are the positions of its extensions.
LEMMA FilesOfData ==
  ASSUME data \in Datasets
  PROVE  /\ Len(data.suffix) \in Nat
         /\ data.path_type \in {"object", "prefix"}
         /\ data.path_type = "object" => Files = {1}
<1>1. /\ data.path_type \in {"object", "prefix"}
      /\ data.suffix \in Seq(STRING)
      /\ data.path_type = "object" => Len(data.suffix) = 1
  BY RegistryAssumption
<1>2. Len(data.suffix) \in Nat
  BY <1>1
<1>3. 1..1 = {1}
  OBVIOUS
<1> QED BY <1>1, <1>2, <1>3 DEF Files

\* Nothing registered, or a row archived earlier with its files still there.
LEMMA RegistryInit == Init => RegistryInv
<1> SUFFICES ASSUME Init PROVE RegistryInv
  OBVIOUS
<1>1. Len(data.suffix) \in Nat
  BY FilesOfData DEF Init
<1> QED BY <1>1 DEF Init, RegistryInv, TypeOK, ActivatesWhole, ReadyIsComplete,
           NoRow, Row

\* Every step of a run keeps the invariant.
LEMMA RegistryStep ==
  ASSUME RegistryInv, NEW r \in Runs,
         \/ Select(r) \/ Reserve(r) \/ UploadFile(r) \/ Verify(r)
         \/ UploadError(r) \/ DeleteRow(r) \/ Activate(r) \/ Kill(r)
  PROVE  RegistryInv'
<1> USE DEF RegistryInv
<1>0. /\ Len(data.suffix) \in Nat
      /\ row.id \in Nat /\ nextId \in Nat /\ id[r] \in Nat
      /\ sent[r] \in 0..Len(data.suffix) /\ objects \subseteq Files
  BY FilesOfData DEF TypeOK
<1>1. CASE Select(r)
  <2>1. TypeOK'
    BY <1>0, <1>1 DEF Select, TypeOK, Goto, Files
  <2>2. ActivatesWhole' /\ ReadyIsComplete'
    BY <1>1 DEF Select, TypeOK, Goto, Files, ActivatesWhole, ReadyIsComplete
  <2> QED BY <2>1, <2>2
<1>2. CASE Reserve(r)
  <2>1. TypeOK'
    <3>1. /\ nextId' = nextId + 1
          /\ UNCHANGED <<data, objects, found, sent>>
          /\ \/ /\ row' = Row(nextId, "pending")
                /\ id' = [id EXCEPT ![r] = nextId]
                /\ pc' = [pc EXCEPT ![r] = "upload"]
             \/ /\ UNCHANGED <<row, id>>
                /\ pc' = [pc EXCEPT ![r] = "failed"]
      BY <1>2 DEF Reserve, Goto
    <3>2. /\ row' \in [id : Nat,
                       status : {"none", "pending", "ready", "archived"}]
          /\ nextId' \in Nat /\ row'.id < nextId'
      BY <1>0, <3>1 DEF TypeOK, Row
    <3>3. id' \in [Runs -> Nat]
      BY <1>0, <3>1 DEF TypeOK
    <3>4. pc' \in [Runs -> {"start", "reserve", "upload", "activate",
                           "cleanup", "printed", "failed"}]
      BY <3>1 DEF TypeOK
    <3> QED BY <3>1, <3>2, <3>3, <3>4 DEF TypeOK, Files
  <2>2. ActivatesWhole' /\ ReadyIsComplete'
    BY <1>2 DEF Reserve, TypeOK, Goto, Files, Row, ActivatesWhole,
       ReadyIsComplete
  <2> QED BY <2>1, <2>2
<1>3. CASE UploadFile(r)
  <2>1. sent[r] + 1 \in Files /\ sent[r] + 1 \in 0..Len(data.suffix)
    BY <1>0, <1>3 DEF UploadFile, Files
  <2>2. TypeOK'
    BY <1>0, <1>3, <2>1 DEF UploadFile, TypeOK, Files
  <2>3. ActivatesWhole' /\ ReadyIsComplete'
    BY <1>0, <1>3, <2>1 DEF UploadFile, Files, ActivatesWhole, ReadyIsComplete
  <2> QED BY <2>2, <2>3
<1>4. CASE Verify(r)
  <2>1. TypeOK'
    BY <1>0, <1>4 DEF Verify, TypeOK, Goto, Files
  <2>2. pc'[r] = "activate" => objects = Files
    BY <1>0, <1>4 DEF Verify, TypeOK, Goto, Files
  <2>3. ActivatesWhole' /\ ReadyIsComplete'
    BY <1>4, <2>2 DEF Verify, TypeOK, Goto, Files, ActivatesWhole,
       ReadyIsComplete
  <2> QED BY <2>1, <2>3
<1>5. CASE UploadError(r) \/ Kill(r)
  BY <1>0, <1>5 DEF UploadError, Kill, TypeOK, Goto, Files, ActivatesWhole,
     ReadyIsComplete
<1>6. CASE DeleteRow(r)
  <2>1. TypeOK'
    BY <1>0, <1>6 DEF DeleteRow, TypeOK, Goto, Files, NoRow
  <2>2. ActivatesWhole' /\ ReadyIsComplete'
    BY <1>6 DEF DeleteRow, TypeOK, Goto, Files, NoRow, ActivatesWhole,
       ReadyIsComplete
  <2> QED BY <2>1, <2>2
<1>7. CASE Activate(r)
  <2>1. TypeOK'
    BY <1>0, <1>7 DEF Activate, TypeOK, Goto, Files, Row
  <2>2. objects = Files /\ objects' = Files'
    BY <1>7 DEF Activate, ActivatesWhole, Files
  <2>3. ActivatesWhole' /\ ReadyIsComplete'
    BY <2>2 DEF ActivatesWhole, ReadyIsComplete
  <2> QED BY <2>1, <2>3
<1> QED BY <1>1, <1>2, <1>3, <1>4, <1>5, <1>6, <1>7

\* A step that leaves the registration alone keeps it.
LEMMA RegistryKept == RegistryInv /\ UNCHANGED vars => RegistryInv'
BY DEF RegistryInv, TypeOK, ActivatesWhole, ReadyIsComplete, vars, run, Files

\* The registration by itself keeps the invariant.
LEMMA RegistryInvariance == Spec => []RegistryInv
<1>1. RegistryInv /\ [Next]_vars => RegistryInv'
  BY RegistryStep, RegistryKept DEF Next
<1> QED BY <1>1, RegistryInit, PTL DEF Spec

\* Its runs never lose a file nor change the dataset.
LEMMA ObjectsStay ==
  ASSUME RegistryInv, Next
  PROVE  data' = data /\ Files' = Files /\ objects \subseteq objects'
BY DEF Next, Select, Reserve, UploadFile, Verify, UploadError, DeleteRow,
   Activate, Kill, Files

-----------------------------------------------------------------------------
(***************************************************************************)
(* The executions of the job.                                              *)
(***************************************************************************)

\* What loading says about a single file that passed the format check: its
\* loader is known.
LEMMA SingleFileLoads ==
  ASSUME data \in Datasets, data.path_type = "object",
         detect_format \in SUPPORTED_FORMATS
  PROVE  dataset_load_spec(Files)
<1>1. Files = {1}
  BY FilesOfData
<1>2. data.suffix[1] \in {"csv", "json", "parquet"}
  BY DEF detect_format, SUPPORTED_FORMATS
<1>3. data.suffix[1] \in DOMAIN _FORMAT_BY_SUFFIX
  BY <1>2 DEF _FORMAT_BY_SUFFIX
<1>4. LoaderFormats({1}) = {_FORMAT_BY_SUFFIX[data.suffix[1]]}
  BY DEF LoaderFormats
<1> QED BY <1>1, <1>3, <1>4 DEF dataset_load_spec

\* Before the job is created nothing has been listed, trained or failed.
LEMMA ExecInitOK == ExecInit => ExecInv
<1> SUFFICES ASSUME ExecInit PROVE ExecInv
  OBVIOUS
<1>1. RegistryInv
  BY RegistryInit DEF ExecInit
<1>2. ExecTypeOK
  BY ExecutionAssumption DEF ExecInit, ExecTypeOK
<1>3. PickedWhole /\ ListsWhole /\ Validated /\ Untrained
      /\ TrainedOnWhole /\ RejectedEarly
  BY DEF ExecInit, PickedWhole, ListsWhole, Validated, Untrained, TrainedOnWhole,
     RejectedEarly, AliveSteps, ListedSteps, FetchedSteps
<1> QED BY <1>1, <1>2, <1>3 DEF ExecInv

\* A registration run changes nothing that the job has seen.
LEMMA ExecRegistry ==
  ASSUME ExecInv, Next, UNCHANGED exec
  PROVE  ExecInv'
<1> USE DEF ExecInv
<1>1. RegistryInv'
  BY RegistryStep DEF Next
<1>2. data' = data /\ Files' = Files /\ objects \subseteq objects'
  BY ObjectsStay
<1>3. objects' \subseteq Files
  BY <1>1, <1>2 DEF RegistryInv, TypeOK
<1>4. ExecTypeOK' /\ ListsWhole' /\ TrainedOnWhole'
  BY <1>2 DEF exec, ExecTypeOK, ListsWhole, Whole, TrainedOnWhole
<1>5. PickedWhole'
  BY <1>2, <1>3 DEF exec, PickedWhole
<1>6. Validated' /\ RejectedEarly' /\ Untrained'
  BY <1>2 DEF exec, Untrained, Validated, RejectedEarly, validate_dataset_format,
     detect_format
<1> QED BY <1>1, <1>4, <1>5, <1>6

\* The job is created, and taken back from an attempt.
LEMMA ExecJob ==
  ASSUME ExecInv, Pick \/ Reclaim
  PROVE  ExecInv'
<1> USE DEF ExecInv
<1>0. /\ UNCHANGED <<vars, step, keys, local, trained, put, adapter, why>>
      /\ job' = "queued"
      /\ \/ job = "none" /\ picked' = row.status
         \/ job # "none" /\ picked' = picked
      /\ picked' = "ready" => objects = Files
  BY DEF Pick, Reclaim, PickedWhole, RegistryInv, ReadyIsComplete
<1>1. RegistryInv'
  BY <1>0, RegistryKept
<1>2. data' = data /\ objects' = objects /\ Files' = Files
  BY <1>0 DEF vars, Files
<1>3. ExecTypeOK' /\ PickedWhole'
  <2>1. row.status \in {"none", "pending", "ready", "archived"}
    BY DEF RegistryInv, TypeOK
  <2> QED BY <1>0, <1>2, <2>1 DEF ExecTypeOK, PickedWhole
<1>4. ListsWhole' /\ TrainedOnWhole'
  <2>1. CASE job = "none"
    <3>1. \A a \in Attempts : step[a] = "idle" /\ trained[a] = {}
      BY <2>1 DEF PickedWhole, Untrained
    <3> QED BY <1>0, <3>1 DEF ListsWhole, TrainedOnWhole, ListedSteps,
            FetchedSteps
  <2>2. CASE job # "none"
    BY <1>0, <1>2, <2>2 DEF ListsWhole, Whole, TrainedOnWhole
  <2> QED BY <2>1, <2>2
<1>5. Validated' /\ RejectedEarly' /\ Untrained'
  BY <1>0, <1>2 DEF Validated, RejectedEarly, Untrained,
     validate_dataset_format, detect_format
<1> QED BY <1>1, <1>3, <1>4, <1>5

\* What one attempt's step has to keep of the invariant.
LEMMA AttemptStep ==
  ASSUME ExecInv, NEW a \in Attempts, UNCHANGED <<vars, picked>>,
         ExecTypeOK',
         job # "none", job' # "none",
         \A b \in Attempts \ {a} :
            /\ step'[b] = step[b] /\ keys'[b] = keys[b]
            /\ local'[b] = local[b] /\ trained'[b] = trained[b]
            /\ why'[b] = why[b],
         Whole /\ step'[a] \in ListedSteps => keys'[a] = Files,
         Whole /\ step'[a] \in FetchedSteps => local'[a] = Files,
         step'[a] # "idle",
         step'[a] \in AliveSteps \ {"validate"} => validate_dataset_format,
         step'[a] \in ListedSteps /\ data.path_type = "object"
            => detect_format \in SUPPORTED_FORMATS,
         Whole => trained'[a] \in {trained[a], Files},
         why'[a] = "load" => why[a] = "load" \/ data.path_type = "prefix"
  PROVE  ExecInv'
<1> USE DEF ExecInv
<1>1. RegistryInv'
  BY RegistryKept
<1>2. data' = data /\ objects' = objects /\ Files' = Files
      /\ validate_dataset_format' = validate_dataset_format
      /\ detect_format' = detect_format
  BY DEF vars, Files, validate_dataset_format, detect_format
<1>3. PickedWhole'
  BY <1>2 DEF PickedWhole
<1>4. ListsWhole' /\ Validated' /\ Untrained'
  BY <1>2 DEF ListsWhole, Whole, Validated, Untrained
<1>5. TrainedOnWhole' /\ RejectedEarly'
  BY <1>2 DEF TrainedOnWhole, Whole, RejectedEarly
<1> QED BY <1>1, <1>3, <1>4, <1>5

\* An attempt that ends, whatever of.
LEMMA EndStep ==
  ASSUME ExecInv, NEW a \in Attempts,
         UNCHANGED <<vars, picked, local, trained>>,
         step[a] # "idle", NEW next \in {"dead", "done"}, GoOn(a, next),
         ExecTypeOK', job' # "none",
         \A b \in Attempts \ {a} : keys'[b] = keys[b] /\ why'[b] = why[b],
         why'[a] = "load" => why[a] = "load" \/ data.path_type = "prefix"
  PROVE  ExecInv'
<1>1. step \in [Attempts -> AliveSteps \cup {"idle", "dead", "done"}]
  BY DEF ExecInv, ExecTypeOK
<1>2. step'[a] = next /\ \A b \in Attempts \ {a} : step'[b] = step[b]
  BY <1>1 DEF GoOn
<1>3. step'[a] \notin AliveSteps /\ step'[a] \notin ListedSteps
      /\ step'[a] \notin FetchedSteps
  BY <1>2 DEF AliveSteps, ListedSteps, FetchedSteps
<1>4. job # "none"
  BY DEF ExecInv, PickedWhole
<1>5. trained' = trained /\ local' = local /\ UNCHANGED <<vars, picked>>
  OBVIOUS
<1> QED BY <1>2, <1>3, <1>4, <1>5, AttemptStep

\* mark_failed keeps the types.
LEMMA FailsType ==
  ASSUME ExecTypeOK, NEW a \in Attempts,
         NEW reason \in {"format", "empty", "load", "text", "error"},
         Fails(a, reason)
  PROVE  /\ job' \in {"none", "queued", "running", "failed", "completed"}
         /\ job # "none" => job' # "none"
         /\ step' \in [Attempts -> AliveSteps \cup {"idle", "dead", "done"}]
         /\ why' \in [Attempts -> {"nothing", "format", "empty", "load",
                                   "text", "error"}]
         /\ why'[a] = reason
         /\ \A b \in Attempts \ {a} : why'[b] = why[b]
BY DEF ExecTypeOK, Fails, GoOn

\* Every step of an attempt keeps the invariant.
LEMMA ExecAttempt ==
  ASSUME ExecInv, NEW a \in Attempts, Attempt(a) \/ Die(a) \/ InfraError(a)
  PROVE  ExecInv'
<1> USE DEF ExecInv
<1>0. /\ ExecTypeOK /\ data \in Datasets
      /\ objects \subseteq Files
      /\ step[a] # "idle" => job # "none"
      /\ job # "none" /\ picked = "ready" => objects = Files
  BY DEF RegistryInv, TypeOK, PickedWhole
<1>s. ASSUME NEW next \in AliveSteps \cup {"dead", "done"}, GoOn(a, next)
      PROVE  /\ step'
                 \in [Attempts -> AliveSteps \cup {"idle", "dead", "done"}]
             /\ step'[a] = next
             /\ \A b \in Attempts \ {a} : step'[b] = step[b]
  BY <1>0, <1>s DEF ExecTypeOK, GoOn
<1>k. UNCHANGED vars => UNCHANGED Files
  BY DEF vars, Files
<1> USE DEF AliveSteps, ListedSteps, FetchedSteps
<1>1. CASE StartAttempt(a)
  <2>1. ExecTypeOK'
    BY <1>0, <1>k, <1>1, <1>s DEF StartAttempt, ExecTypeOK
  <2> QED BY <1>s, <1>1, <2>1, AttemptStep DEF StartAttempt
<1>2. CASE Validate(a)
  <2>1. CASE validate_dataset_format
    <3>1. ExecTypeOK'
      BY <1>0, <1>k, <1>2, <2>1, <1>s DEF Validate, ExecTypeOK
    <3> QED BY <1>0, <1>s, <1>2, <2>1, <3>1, AttemptStep DEF Validate
  <2>2. CASE ~validate_dataset_format
    <3>1. Fails(a, "format") /\ step[a] = "validate"
          /\ UNCHANGED <<vars, picked, keys, local, trained, put, adapter>>
      BY <1>2, <2>2 DEF Validate
    <3>2. ExecTypeOK'
      BY <1>0, <1>k, <3>1, FailsType DEF ExecTypeOK
    <3> QED BY <1>0, <3>1, <3>2, FailsType, EndStep DEF Fails
  <2> QED BY <2>1, <2>2
<1>3. CASE Ensure(a)
  <2>1. /\ step[a] = "ensure" /\ validate_dataset_format
        /\ UNCHANGED <<vars, job, picked, local, trained, put, adapter, why>>
    BY <1>3 DEF Ensure, Validated
  <2>2. CASE _is_single_file
    <3>1. data.path_type = "object" /\ Files = {1}
      BY <1>0, <2>2, FilesOfData DEF _is_single_file, detect_format
    <3>2. detect_format \in SUPPORTED_FORMATS
      BY <2>1, <2>2 DEF _is_single_file, validate_dataset_format
    <3>3. GoOn(a, "fetch") /\ keys' = [keys EXCEPT ![a] = Files]
      BY <1>3, <2>2, <3>1 DEF Ensure
    <3>4. /\ keys' \in [Attempts -> SUBSET Files] /\ keys'[a] = Files
          /\ \A b \in Attempts \ {a} : keys'[b] = keys[b]
      BY <1>0, <3>3 DEF ExecTypeOK
    <3>5. ExecTypeOK'
      BY <1>0, <1>k, <1>s, <2>1, <3>3, <3>4 DEF ExecTypeOK
    <3> QED BY <1>0, <1>s, <2>1, <3>2, <3>3, <3>4, <3>5, AttemptStep
  <2>3. CASE ~_is_single_file
    <3>1. GoOn(a, "list") /\ UNCHANGED keys
      BY <1>3, <2>3 DEF Ensure
    <3>2. ExecTypeOK'
      BY <1>0, <1>k, <1>s, <2>1, <3>1 DEF ExecTypeOK
    <3> QED BY <1>0, <1>s, <2>1, <3>1, <3>2, AttemptStep
  <2> QED BY <2>2, <2>3
<1>4. CASE ListKeys(a)
  <2> DEFINE listed == IF data.path_type = "prefix" THEN objects ELSE {}
  <2>1. /\ step[a] = "list" /\ validate_dataset_format
        /\ keys' = [keys EXCEPT ![a] = listed]
        /\ UNCHANGED <<vars, picked, local, trained, put, adapter>>
    BY <1>4 DEF ListKeys, Validated
  <2>2. listed \subseteq Files
    BY <1>0
  <2>3. /\ keys' \in [Attempts -> SUBSET Files] /\ keys'[a] = listed
        /\ \A b \in Attempts \ {a} : keys'[b] = keys[b]
    BY <1>0, <2>1, <2>2 DEF ExecTypeOK
  <2>4. CASE listed = {}
    <3>1. Fails(a, "empty")
      BY <1>4, <2>4 DEF ListKeys
    <3>2. ExecTypeOK'
      BY <1>0, <1>k, <2>1, <2>3, <3>1, FailsType DEF ExecTypeOK
    <3> QED BY <1>0, <2>1, <2>3, <3>1, <3>2, FailsType, EndStep DEF Fails
  <2>5. CASE listed # {}
    <3>1. /\ data.path_type = "prefix" /\ (Whole => listed = Files)
          /\ GoOn(a, "fetch") /\ UNCHANGED <<job, why>>
      BY <1>0, <1>4, <2>1, <2>5 DEF ListKeys, Whole
    <3>2. ExecTypeOK'
      BY <1>0, <1>k, <1>s, <2>1, <2>3, <3>1 DEF ExecTypeOK
    <3> HIDE DEF listed
    <3> QED BY <1>0, <1>s, <2>1, <2>3, <3>1, <3>2, AttemptStep
  <2> QED BY <2>4, <2>5
<1>5. CASE FetchFile(a)
  <2>1. /\ step[a] = "fetch"
        /\ UNCHANGED <<vars, job, picked, step, keys, trained, put, adapter,
                       why>>
    BY <1>5 DEF FetchFile
  <2>2. PICK f \in objects : local' = [local EXCEPT ![a] = @ \cup {f}]
    BY <1>5 DEF FetchFile
  <2>3. /\ local' \in [Attempts -> SUBSET Files]
        /\ \A b \in Attempts \ {a} : local'[b] = local[b]
    BY <1>0, <2>2 DEF ExecTypeOK
  <2>4. ExecTypeOK'
    BY <1>0, <1>k, <2>1, <2>3 DEF ExecTypeOK
  <2>5. (Whole => keys'[a] = Files) /\ validate_dataset_format
        /\ (data.path_type = "object" => detect_format \in SUPPORTED_FORMATS)
    BY <2>1 DEF ListsWhole, Validated
  <2> QED BY <1>0, <2>1, <2>3, <2>4, <2>5, AttemptStep
<1>6. CASE Load(a)
  <2>1. /\ step[a] = "fetch"
        /\ Whole => keys[a] = Files /\ local[a] = Files
        /\ validate_dataset_format
        /\ data.path_type = "object" => detect_format \in SUPPORTED_FORMATS
        /\ UNCHANGED <<vars, picked, keys, local, trained, put, adapter>>
    <3>1. step[a] = "fetch" /\ keys[a] \subseteq local[a]
          /\ local[a] \subseteq Files
      BY <1>0, <1>6 DEF Load, ExecTypeOK
    <3>2. Whole => keys[a] = Files
      BY <3>1 DEF ListsWhole
    <3> QED BY <1>6, <3>1, <3>2 DEF Load, Validated
  <2>2. CASE ~dataset_load_spec(local[a])
    <3>1. data.path_type = "prefix"
      BY <1>0, <2>1, <2>2, SingleFileLoads, FilesOfData DEF Whole
    <3>2. Fails(a, "load")
      BY <1>6, <2>2 DEF Load
    <3>3. ExecTypeOK'
      BY <1>0, <1>k, <2>1, <3>2, FailsType DEF ExecTypeOK
    <3> QED BY <1>0, <2>1, <3>1, <3>2, <3>3, FailsType, EndStep DEF Fails
  <2>3. CASE dataset_load_spec(local[a]) /\ ~resolve_text_field
    <3>1. Fails(a, "text")
      BY <1>6, <2>3 DEF Load
    <3>2. ExecTypeOK'
      BY <1>0, <1>k, <2>1, <3>1, FailsType DEF ExecTypeOK
    <3> QED BY <1>0, <2>1, <3>1, <3>2, FailsType, EndStep DEF Fails
  <2>4. CASE dataset_load_spec(local[a]) /\ resolve_text_field
    <3>1. GoOn(a, "train") /\ UNCHANGED <<job, why>>
      BY <1>6, <2>4 DEF Load
    <3>2. ExecTypeOK'
      BY <1>0, <1>k, <1>s, <2>1, <3>1 DEF ExecTypeOK
    <3> QED BY <1>0, <1>s, <2>1, <3>1, <3>2, AttemptStep
  <2> QED BY <2>2, <2>3, <2>4
<1>7. CASE Train(a)
  <2>1. /\ step[a] = "train"
        /\ Whole => keys[a] = Files /\ local[a] = Files
        /\ validate_dataset_format
        /\ data.path_type = "object" => detect_format \in SUPPORTED_FORMATS
        /\ trained' = [trained EXCEPT ![a] = local[a]] /\ GoOn(a, "upload")
        /\ UNCHANGED <<vars, job, picked, keys, local, put, adapter, why>>
    BY <1>7 DEF Train, ListsWhole, Validated
  <2>2. /\ trained' \in [Attempts -> SUBSET Files]
        /\ Whole => trained'[a] = Files
        /\ \A b \in Attempts \ {a} : trained'[b] = trained[b]
    BY <1>0, <2>1 DEF ExecTypeOK
  <2>3. ExecTypeOK'
    BY <1>0, <1>k, <1>s, <2>1, <2>2 DEF ExecTypeOK
  <2> QED BY <1>0, <1>s, <2>1, <2>2, <2>3, AttemptStep
<1>8. CASE UploadAdapter(a)
  <2>1. /\ step[a] = "upload"
        /\ Whole => keys[a] = Files /\ local[a] = Files
        /\ validate_dataset_format
        /\ data.path_type = "object" => detect_format \in SUPPORTED_FORMATS
        /\ put[a] < AdapterFiles
        /\ put' = [put EXCEPT ![a] = @ + 1]
        /\ adapter' = [adapter EXCEPT ![put[a] + 1] = a]
        /\ UNCHANGED <<vars, job, picked, step, keys, local, trained, why>>
    BY <1>8 DEF UploadAdapter, ListsWhole, Validated
  <2>2. put[a] + 1 \in 0..AdapterFiles
    BY <1>0, <2>1, ExecutionAssumption DEF ExecTypeOK
  <2>3. put' \in [Attempts -> 0..AdapterFiles]
        /\ adapter' \in [1..AdapterFiles -> Attempts \cup {None}]
    BY <1>0, <2>1, <2>2 DEF ExecTypeOK
  <2>4. ExecTypeOK'
    BY <1>0, <1>k, <2>1, <2>3 DEF ExecTypeOK
  <2> QED BY <1>0, <2>1, <2>4, AttemptStep
<1>9. CASE Complete(a)
  <2>1. ExecTypeOK'
    BY <1>0, <1>k, <1>s, <1>9 DEF Complete, ExecTypeOK
  <2> QED BY <1>0, <1>9, <2>1, EndStep DEF Complete
<1>10. CASE Die(a)
  <2>1. step[a] # "idle" /\ GoOn(a, "dead")
        /\ UNCHANGED <<vars, job, picked, keys, local, trained, put, adapter,
                       why>>
    BY <1>10 DEF Die, Alive
  <2>2. ExecTypeOK'
    BY <1>0, <1>k, <1>s, <2>1 DEF ExecTypeOK
  <2> QED BY <1>0, <2>1, <2>2, EndStep
<1>11. CASE InfraError(a)
  <2>1. step[a] # "idle" /\ Fails(a, "error")
        /\ UNCHANGED <<vars, picked, keys, local, trained, put, adapter>>
    BY <1>11 DEF InfraError
  <2>2. ExecTypeOK'
    BY <1>0, <1>k, <2>1, FailsType DEF ExecTypeOK
  <2> QED BY <1>0, <2>1, <2>2, FailsType, EndStep DEF Fails
<1> QED BY <1>1, <1>2, <1>3, <1>4, <1>5, <1>6, <1>7, <1>8, <1>9, <1>10, <1>11
        DEF Attempt

\* Every step of the system keeps the invariant.
LEMMA ExecStep == ExecInv /\ [ExecNext]_<<vars, exec>> => ExecInv'
<1> SUFFICES ASSUME ExecInv, [ExecNext]_<<vars, exec>> PROVE ExecInv'
  OBVIOUS
<1>1. CASE ExecNext
  BY <1>1, ExecRegistry, ExecJob, ExecAttempt DEF ExecNext
<1>2. CASE UNCHANGED <<vars, exec>>
  <2>1. RegistryInv'
    BY <1>2, RegistryKept DEF ExecInv
  <2>2. data' = data /\ objects' = objects /\ Files' = Files
    BY <1>2 DEF vars, Files
  <2> QED BY <1>2, <2>1, <2>2 DEF ExecInv, exec, ExecTypeOK, PickedWhole,
          ListsWhole, Whole, Validated, Untrained, TrainedOnWhole, RejectedEarly,
          validate_dataset_format, detect_format
<1> QED BY <1>1, <1>2

\* Every reachable state satisfies the inductive invariant.
THEOREM ExecInvariance == ExecSpec => []ExecInv
BY ExecInitOK, ExecStep, PTL DEF ExecSpec

-----------------------------------------------------------------------------
(***************************************************************************)
(* One training per adapter, where no live attempt loses its job.          *)
(***************************************************************************)

\* Before the job is created nothing is uploaded.
LEMMA SoloInit == ExecInit => SoloInv
BY ExecutionAssumption DEF ExecInit, SoloInv, OneAlive, OwnUploads,
   OneTraining, Alive, AliveSteps, ListedSteps, FetchedSteps

\* A step that leaves attempts, uploads and adapter alone, and a running job
\* running while an attempt lives.
LEMMA SoloKept ==
  ASSUME SoloInv, UNCHANGED <<step, put, adapter>>,
         job' = job \/ (job' # "completed" /\ \A a \in Attempts : ~Alive(a))
  PROVE  SoloInv'
BY DEF SoloInv, OneAlive, OwnUploads, OneTraining, Alive

\* An attempt that alone is alive takes a step.
LEMMA SoloAttempt ==
  ASSUME ExecTypeOK, ExecTypeOK', SoloInv, NEW a \in Attempts,
         \A b \in Attempts \ {a} : ~Alive(b),
         \A b \in Attempts \ {a} : step'[b] = step[b] /\ put'[b] = put[b],
         Alive(a)' => job' = "running",
         step'[a] = "upload" => \A i \in 1..put'[a] : adapter'[i] = a,
         step'[a] \in (AliveSteps \ {"upload"}) \cup {"idle"} => put'[a] = 0,
         job' = "completed" =>
            \A i \in 1..AdapterFiles : adapter'[i] = a
  PROVE  SoloInv'
<1>1. \A b \in Attempts : Alive(b)' => b = a
  BY DEF Alive
<1>2. OneAlive'
  BY <1>1 DEF OneAlive
<1>3. OwnUploads'
  <2>1. \A b \in Attempts \ {a} : step'[b] # "upload"
    BY DEF Alive
  <2> QED BY <2>1 DEF SoloInv, OwnUploads
<1>4. OneTraining'
  BY DEF OneTraining, ExecTypeOK
<1> QED BY <1>2, <1>3, <1>4 DEF SoloInv

\* Every step of the system keeps the invariant, where the reconciler takes
\* the job from dead attempts only.
LEMMA SoloStep ==
  ASSUME Overlap = FALSE, ExecInv, ExecInv', SoloInv,
         [ExecNext]_<<vars, exec>>
  PROVE  SoloInv'
<1>0. ExecTypeOK /\ ExecTypeOK'
  BY DEF ExecInv
<1> USE DEF AliveSteps, ListedSteps, FetchedSteps
<1>1. CASE UNCHANGED exec
  BY <1>1, SoloKept DEF exec
<1>2. CASE Pick
  <2>1. \A a \in Attempts : ~Alive(a)
    BY <1>2 DEF Pick, ExecInv, PickedWhole, Alive
  <2> QED BY <1>2, <2>1, SoloKept DEF Pick
<1>3. CASE Reclaim
  BY <1>3, SoloKept DEF Reclaim
<1>4. ASSUME NEW a \in Attempts, Attempt(a) \/ Die(a) \/ InfraError(a)
      PROVE  SoloInv'
  <2>1. CASE StartAttempt(a)
    <3>1. \A b \in Attempts : ~Alive(b)
      BY <2>1 DEF StartAttempt, SoloInv, OneAlive
    <3>2. /\ step' = [step EXCEPT ![a] = "validate"] /\ step[a] = "idle"
          /\ job' = "running" /\ UNCHANGED <<put, adapter>>
      BY <2>1 DEF StartAttempt, GoOn
    <3>3. step'[a] = "validate"
          /\ \A b \in Attempts \ {a} : step'[b] = step[b]
      BY <1>0, <3>2 DEF ExecTypeOK
    <3>4. put'[a] = 0
      BY <3>2 DEF SoloInv, OwnUploads
    <3> QED BY <1>0, <3>1, <3>2, <3>3, <3>4, SoloAttempt
  <2>2. CASE ~StartAttempt(a)
    <3>1. Alive(a) /\ job = "running"
          /\ \A b \in Attempts \ {a} : ~Alive(b)
      <4>1. Alive(a)
        BY <1>4, <2>2 DEF Attempt, Validate, Ensure, ListKeys, FetchFile,
           Load, Train, UploadAdapter, Complete, Die, InfraError, Alive
      <4> QED BY <4>1 DEF SoloInv, OneAlive
    <3>2. /\ step[a] = "upload" => \A i \in 1..put[a] : adapter[i] = a
          /\ step[a] \in AliveSteps \ {"upload"} => put[a] = 0
      BY DEF SoloInv, OwnUploads
    <3>3. CASE Validate(a) \/ Ensure(a) \/ ListKeys(a) \/ FetchFile(a)
               \/ Load(a) \/ Train(a) \/ Die(a) \/ InfraError(a)
      <4>1. UNCHANGED <<put, adapter>>
        BY <3>3 DEF Validate, Ensure, ListKeys, FetchFile, Load, Train, Die,
           InfraError
      <4>2. \/ UNCHANGED <<step, job>>
            \/ \E reason \in {"format", "empty", "load", "text", "error"} :
                  Fails(a, reason)
            \/ Die(a)
            \/ UNCHANGED job /\ step[a] # "upload" /\
               \E next \in AliveSteps : GoOn(a, next)
        BY <3>3 DEF Validate, Ensure, ListKeys, FetchFile, Load, Train,
           InfraError
      <4>3. CASE UNCHANGED <<step, job>>
        BY <4>1, <4>3, SoloKept
      <4>4. CASE \E reason \in {"format", "empty", "load", "text", "error"} :
                    Fails(a, reason)
        <5>1. step' = [step EXCEPT ![a] = "done"] /\ job' = "failed"
          BY <3>1, <4>4 DEF Fails, GoOn
        <5>2. step'[a] = "done" /\ \A b \in Attempts \ {a} : step'[b] = step[b]
          BY <1>0, <5>1 DEF ExecTypeOK
        <5> QED BY <1>0, <3>1, <4>1, <5>1, <5>2, SoloAttempt DEF Alive
      <4>5. CASE Die(a)
        <5>1. step' = [step EXCEPT ![a] = "dead"] /\ job' = "running"
          BY <3>1, <4>5 DEF Die, GoOn
        <5>2. step'[a] = "dead" /\ \A b \in Attempts \ {a} : step'[b] = step[b]
          BY <1>0, <5>1 DEF ExecTypeOK
        <5> QED BY <1>0, <3>1, <4>1, <5>1, <5>2, SoloAttempt DEF Alive
      <4>6. CASE UNCHANGED job /\ step[a] # "upload" /\
                 \E next \in AliveSteps : GoOn(a, next)
        <5>1. PICK next \in AliveSteps : step' = [step EXCEPT ![a] = next]
          BY <4>6 DEF GoOn
        <5>2. step'[a] = next /\ \A b \in Attempts \ {a} : step'[b] = step[b]
          BY <1>0, <5>1 DEF ExecTypeOK
        <5>3. put[a] = 0
          BY <1>0, <3>1, <3>2, <4>6 DEF Alive, ExecTypeOK
        <5> QED BY <1>0, <3>1, <4>1, <4>6, <5>2, <5>3, SoloAttempt
      <4> QED BY <4>2, <4>3, <4>4, <4>5, <4>6
    <3>4. CASE UploadAdapter(a)
      <4>1. /\ step[a] = "upload" /\ put[a] < AdapterFiles
            /\ put' = [put EXCEPT ![a] = @ + 1]
            /\ adapter' = [adapter EXCEPT ![put[a] + 1] = a]
            /\ UNCHANGED <<job, step>>
        BY <3>4 DEF UploadAdapter
      <4>2. /\ put[a] \in Nat /\ put'[a] = put[a] + 1
            /\ \A b \in Attempts \ {a} : put'[b] = put[b]
        BY <1>0, <4>1, ExecutionAssumption DEF ExecTypeOK
      <4>3. ASSUME NEW i \in 1..put'[a] PROVE adapter'[i] = a
        <5>0. i \in 1..AdapterFiles
          BY <1>0, <4>1, <4>2, ExecutionAssumption
        <5>1. CASE i = put[a] + 1
          BY <1>0, <4>1, <5>0, <5>1 DEF ExecTypeOK
        <5>2. CASE i # put[a] + 1
          <6>1. i \in 1..put[a]
            BY <4>2, <5>2
          <6> QED BY <1>0, <3>2, <4>1, <5>0, <5>2, <6>1 DEF ExecTypeOK
        <5> QED BY <5>1, <5>2
      <4> QED BY <1>0, <3>1, <4>1, <4>2, <4>3, SoloAttempt
    <3>5. CASE Complete(a)
      <4>1. /\ step[a] = "upload" /\ put[a] = AdapterFiles
            /\ step' = [step EXCEPT ![a] = "done"]
            /\ UNCHANGED <<put, adapter>>
        BY <3>5 DEF Complete, GoOn
      <4>2. step'[a] = "done" /\ \A b \in Attempts \ {a} : step'[b] = step[b]
        BY <1>0, <4>1 DEF ExecTypeOK
      <4> QED BY <1>0, <3>1, <3>2, <4>1, <4>2, SoloAttempt DEF Alive
    <3> QED BY <1>4, <2>2, <3>3, <3>4, <3>5 DEF Attempt
  <2> QED BY <2>1, <2>2
<1> QED BY <1>1, <1>2, <1>3, <1>4 DEF ExecNext

-----------------------------------------------------------------------------
(***************************************************************************)
(* The results.                                                            *)
(***************************************************************************)

\* Type correctness of the registration's row, objects and runs, under the
\* specification that composes it with the job.
THEOREM TypeCorrect == ExecSpec => []TypeOK
BY ExecInvariance, PTL DEF ExecInv, RegistryInv

\* register_dataset.py: no interleaving of runs that replace each other's
\* rows, fail in their upload or are killed leaves a ready row without all
\* its files in Garage.
THEOREM ReadyRowsComplete == Spec => []ReadyIsComplete
BY RegistryInvariance, PTL DEF RegistryInv

\* The same while a job trains on the dataset.
THEOREM ReadyStaysComplete == ExecSpec => []ReadyIsComplete
BY ExecInvariance, PTL DEF ExecInv, RegistryInv

\* CachingExecutor.run: the adapter of a job whose dataset was ready when it
\* was created is trained on every file of it, whatever the registration runs
\* do between its creation, the listing and each download.
THEOREM TrainsOnWhole == ExecSpec => []TrainedOnWhole
BY ExecInvariance, PTL DEF ExecInv

\* validate_dataset_format and dataset_load_spec: the loader knows every
\* single file the format check let through.
THEOREM FormatsAgree == ExecSpec => []RejectedEarly
BY ExecInvariance, PTL DEF ExecInv

\* Where no live attempt loses its job, a completed job's adapter is whole
\* and of one training, however many attempts died uploading theirs.
THEOREM AdapterOfOne == Overlap = FALSE => (ExecSpec => []OneTraining)
<1> SUFFICES ASSUME Overlap = FALSE PROVE ExecSpec => []OneTraining
  OBVIOUS
<1>1. ExecInv /\ ExecInv' /\ SoloInv /\ [ExecNext]_<<vars, exec>> => SoloInv'
  BY SoloStep
<1>2. ExecSpec => []SoloInv
  BY <1>1, SoloInit, ExecInvariance, PTL DEF ExecSpec
<1>3. SoloInv => OneTraining
  BY DEF SoloInv
<1> QED BY <1>2, <1>3, PTL
=============================================================================
