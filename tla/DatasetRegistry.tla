-------------------------- MODULE DatasetRegistry --------------------------
(***************************************************************************)
(* Registration of one dataset content under one name: several runs of     *)
(* scripts/register_dataset.py, the row of table datasets they compete for *)
(* (UNIQUE (name, version), and version is the content's checksum, so they *)
(* all mean the same row) and the objects they upload to Garage.           *)
(*                                                                         *)
(* A transaction's statements see what is committed when each runs (READ   *)
(* COMMITTED): the SELECT of reserve_dataset_row is one step, its DELETE   *)
(* and INSERT, which only the commit publishes, are the next.              *)
(***************************************************************************)
EXTENDS Naturals, Sequences

CONSTANTS Runs,     \* invocations of the script
          Datasets  \* the contents considered

\* A dataset is a single file, stored under datasets/{name}/{version}.{ext}, or
\* a directory, stored under the prefix datasets/{name}/{version}/, and maybe
\* empty.  Its files are uploaded in sorted order; suffix holds their
\* extensions in that order, and text says whether they have a "text" column.
ASSUME RegistryAssumption ==
    \A d \in Datasets :
        /\ d.path_type \in {"object", "prefix"}
        /\ d.suffix \in Seq(STRING)
        /\ d.path_type = "object" => Len(d.suffix) = 1
        /\ d.text \in BOOLEAN

NoRow == [id |-> 0, status |-> "none"]
Row(i, s) == [id |-> i, status |-> s]

VARIABLES data,     \* the dataset
          row,      \* the row for (name, version), or NoRow
          nextId,   \* the SERIAL sequence
          objects,  \* files present in Garage
          pc,       \* pc[r]: the next step of run r
          found,    \* found[r]: what its SELECT returned
          id,       \* id[r]: the dataset_id it works for
          sent      \* sent[r]: files it has uploaded

run == <<pc, found, id, sent>>
vars == <<data, row, nextId, objects, run>>

Files == 1..Len(data.suffix)

Active(r) == pc[r] \notin {"start", "printed", "failed"}

Init ==
    /\ data \in Datasets
    /\ \/ row = NoRow /\ nextId = 1 /\ objects = {}
       \/ row = Row(1, "archived") /\ nextId = 2 /\ objects = Files
    /\ pc = [r \in Runs |-> "start"]
    /\ found = [r \in Runs |-> NoRow]
    /\ id = [r \in Runs |-> 0]
    /\ sent = [r \in Runs |-> 0]

Goto(r, next) == pc' = [pc EXCEPT ![r] = next]
-----------------------------------------------------------------------------
(* register_dataset.py                                                     *)

\* The SELECT: a ready row is reported and ends the run.
Select(r) ==
    /\ pc[r] = "start"
    /\ found' = [found EXCEPT ![r] = row]
    /\ IF row.status = "ready"
       THEN id' = [id EXCEPT ![r] = row.id] /\ Goto(r, "printed")
       ELSE UNCHANGED id /\ Goto(r, "reserve")
    /\ UNCHANGED <<data, row, nextId, objects, sent>>

\* DELETE the row that was found, by id, whatever it has become; INSERT a
\* pending one.  If another row has the key by then the INSERT violates the
\* unique constraint, the transaction is rolled back and the run ends.
Reserve(r) ==
    LET free == row = NoRow \/ row.id = found[r].id IN
    /\ pc[r] = "reserve"
    /\ nextId' = nextId + 1
    /\ IF free
       THEN /\ row' = Row(nextId, "pending")
            /\ id' = [id EXCEPT ![r] = nextId]
            /\ Goto(r, "upload")
       ELSE UNCHANGED <<row, id>> /\ Goto(r, "failed")
    /\ UNCHANGED <<data, objects, found, sent>>

\* Mutant: off by one in the upload loop.
UploadFileTooMany(r) ==
    /\ pc[r] = "upload"
    /\ sent[r] <= Len(data.suffix)
    /\ objects' = objects \cup {sent[r] + 1}
    /\ sent' = [sent EXCEPT ![r] = @ + 1]
    /\ UNCHANGED <<data, row, nextId, pc, found, id>>

UploadFile(r) ==
    /\ pc[r] = "upload"
    /\ sent[r] < Len(data.suffix)
    /\ objects' = objects \cup {sent[r] + 1}
    /\ sent' = [sent EXCEPT ![r] = @ + 1]
    /\ UNCHANGED <<data, row, nextId, pc, found, id>>

\* Mutant: the row is activated whatever was sent.
VerifyNothing(r) ==
    /\ pc[r] = "upload"
    /\ Goto(r, "activate")
    /\ UNCHANGED <<data, row, nextId, objects, found, id, sent>>

\* The listing of the prefix against the keys that were sent.
Verify(r) ==
    /\ pc[r] = "upload"
    /\ sent[r] = Len(data.suffix)
    /\ Goto(r, IF 1..sent[r] \subseteq objects THEN "activate" ELSE "cleanup")
    /\ UNCHANGED <<data, row, nextId, objects, found, id, sent>>

UploadError(r) ==
    /\ pc[r] = "upload"
    /\ Goto(r, "cleanup")
    /\ UNCHANGED <<data, row, nextId, objects, found, id, sent>>

\* DELETE ... WHERE id = %s AND status = 'pending', then the error is raised.
DeleteRow(r) ==
    /\ pc[r] = "cleanup"
    /\ row' = IF row = Row(id[r], "pending") THEN NoRow ELSE row
    /\ Goto(r, "failed")
    /\ UNCHANGED <<data, nextId, objects, found, id, sent>>

\* UPDATE ... SET status = 'ready' WHERE id = %s: the row count is not looked
\* at; the id is printed either way.
Activate(r) ==
    /\ pc[r] = "activate"
    /\ row' = IF row.id = id[r] THEN Row(id[r], "ready") ELSE row
    /\ Goto(r, "printed")
    /\ UNCHANGED <<data, nextId, objects, found, id, sent>>

\* The script is killed.
Kill(r) ==
    /\ Active(r)
    /\ Goto(r, "failed")
    /\ UNCHANGED <<data, row, nextId, objects, found, id, sent>>
-----------------------------------------------------------------------------
Next == \E r \in Runs : \/ Select(r) \/ Reserve(r) \/ UploadFile(r)
                        \/ Verify(r) \/ UploadError(r) \/ DeleteRow(r)
                        \/ Activate(r) \/ Kill(r)

Spec == Init /\ [][Next]_vars
-----------------------------------------------------------------------------
(* Properties                                                              *)

\* The type of the state.
TypeOK ==
    /\ row \in [id : Nat, status : {"none", "pending", "ready", "archived"}]
    /\ nextId \in Nat /\ row.id < nextId
    /\ data \in Datasets /\ objects \subseteq Files
    /\ pc \in [Runs -> {"start", "reserve", "upload", "activate", "cleanup",
                        "printed", "failed"}]
    /\ found \in [Runs -> [id : Nat,
                           status : {"none", "pending", "ready", "archived"}]]
    /\ id \in [Runs -> Nat]
    /\ sent \in [Runs -> 0..Len(data.suffix)]

\* A ready row has all its files in Garage, whichever of the competing,
\* failing or killed runs reserved, uploaded and activated it.
ReadyIsComplete == row.status = "ready" => objects = Files
-----------------------------------------------------------------------------
(* What the script's documentation says, and the code does not do.         *)

\* "The dataset ID is printed to stdout on success": a printed id names the
\* registered, ready dataset.
PrintedIsRegistered ==
    \A r \in Runs : pc[r] = "printed" => row = Row(id[r], "ready")
=============================================================================
