----------------------------- MODULE Catalogue -----------------------------
(***************************************************************************)
(* GET /jobs, GET /models and GET /datasets: a client walks through a      *)
(* listing page by page while rows are inserted, deleted and change        *)
(* status.  A page is a COUNT and a SELECT ... LIMIT OFFSET, two           *)
(* statements outside a transaction.                                       *)
(*                                                                         *)
(* A row is its place in the listing's ORDER BY, which has no ties and     *)
(* never changes; a search term only narrows the set of rows there are.    *)
(***************************************************************************)
EXTENDS JobStatus, Naturals, FiniteSets

CONSTANTS NumRows,       \* places in the order
          DefaultLimit,  \* 50 in the code
          MaxLimit,      \* 200 in the code
          None,          \* a query parameter that is not given
          MaxMoves       \* bound on arrivals and departures

ASSUME CatalogueAssumption ==
    /\ NumRows \in Nat /\ MaxMoves \in Nat
    /\ DefaultLimit \in 1..MaxLimit
    /\ MaxLimit \in Nat
    /\ None \notin Nat \cup Statuses

Rows == 1..NumRows
Tables == {"jobs", "models", "datasets"}
RegistryStatuses == {"pending", "ready", "archived"}

VARIABLES
    table,     \* the table listed
    row,       \* row[r]: its status, "absent" if there is no such row
    request,   \* the query parameters status and limit
    pc,        \* the handler's next statement, or the client's turn
    offset,    \* the query parameter offset
    total,     \* what the COUNT returned
    page,      \* what the SELECT returned
    \* The walk so far
    seen,      \* the rows the client was given
    kept,      \* the rows that matched at its start and ever since
    repeats,   \* rows given again
    arrived,   \* changes that made a row match
    departed,  \* changes that made one match no longer
    late       \* those of arrived since the last COUNT

walk == <<seen, repeats>>
vars == <<table, row, request, pc, offset, total, page, kept, walk, arrived,
          departed, late>>
-----------------------------------------------------------------------------
(* The handlers' parameters.  A limit outside 1..200, a negative offset and *)
(* an unknown job status are answered 422.                                 *)

\* parseListJobsParams leaves what is not given to the store ...
parseListJobsParams(q) == q

JobStoreList(q) ==
    [filter |-> q.status,
     limit |-> IF q.limit = None THEN DefaultLimit ELSE q.limit]

\* Mutant: the handler's copy of the default limit is another one.
ListJobsEchoDiffers(q) == IF q.limit = None THEN DefaultLimit + 1 ELSE q.limit

\* ... and ListJobs fills in the limit again for its response.
ListJobsEcho(q) == IF q.limit = None THEN DefaultLimit ELSE q.limit

parseListModelsParams(q) ==
    [status |-> q.status,
     limit |-> IF q.limit = None THEN DefaultLimit ELSE q.limit]

ModelStoreList(q) ==
    [filter |-> IF q.status = None THEN "ready" ELSE q.status,
     limit |-> IF q.limit > 0 THEN q.limit ELSE DefaultLimit]

parseListDatasetsParams(q) ==
    [status |-> q.status,
     limit |-> IF q.limit = None THEN DefaultLimit ELSE q.limit]

DatasetStoreList(q) ==
    [filter |-> IF q.status = None THEN "ready" ELSE q.status,
     limit |-> IF q.limit > 0 THEN q.limit ELSE DefaultLimit]

\* What the two statements filter by and how many rows they return at most.
List == CASE table = "jobs" -> JobStoreList(parseListJobsParams(request))
          [] table = "models" -> ModelStoreList(parseListModelsParams(request))
          [] table = "datasets" ->
                DatasetStoreList(parseListDatasetsParams(request))

\* The limit of the response.
Echo == CASE table = "jobs" -> ListJobsEcho(request)
          [] table = "models" -> parseListModelsParams(request).limit
          [] table = "datasets" -> parseListDatasetsParams(request).limit

Match(s) == s # "absent" /\ List.filter \in {None, s}
Matching == {r \in Rows : Match(row[r])}
-----------------------------------------------------------------------------
(* The tables                                                              *)

\* A new job comes first (ORDER BY created_at DESC), other rows anywhere.
CanInsert(r) == table = "jobs" => \A q \in 1..r : row[q] = "absent"

\* The changes of status the platform makes: JobStore.Update, the worker's
\* UPDATEs, register_model.py and register_dataset.py (which replaces a row
\* of the same name and version).
Moves(s) ==
    CASE table = "jobs" ->
            CASE s = "absent" -> {"queued"}
              [] s = "running" -> validTransitions[s] \cup {"queued"}
              [] s = "queued" -> validTransitions[s]
              [] OTHER -> {}
      [] table = "models" -> IF s = "absent" THEN {"ready"} ELSE {}
      [] table = "datasets" ->
            CASE s = "pending" -> {"ready", "absent"}
              [] OTHER -> {"pending"}

\* A row changes.
Move(r) ==
    \E s \in Moves(row[r]) :
        LET in == Match(s) /\ ~Match(row[r])
            out == Match(row[r]) /\ ~Match(s)
        IN  /\ row[r] = "absent" => CanInsert(r)
            /\ in \/ out => arrived + departed < MaxMoves
            /\ row' = [row EXCEPT ![r] = s]
            /\ arrived' = IF in THEN arrived + 1 ELSE arrived
            /\ late' = IF in /\ pc = "select" THEN late + 1 ELSE late
            /\ departed' = IF out THEN departed + 1 ELSE departed
            /\ kept' = IF out THEN kept \ {r} ELSE kept
            /\ UNCHANGED <<table, request, pc, offset, total, page, walk>>
-----------------------------------------------------------------------------
(* One page                                                                *)

Count ==
    /\ pc = "count"
    /\ total' = Cardinality(Matching)
    /\ late' = 0
    /\ pc' = "select"
    /\ UNCHANGED <<table, row, request, offset, page, kept, walk, arrived,
                   departed>>

Rank(r) == Cardinality({q \in Matching : q < r})

\* Mutant: one row too many.
PageInclusive == {r \in Matching : /\ Rank(r) >= offset
                                   /\ Rank(r) <= offset + List.limit}

\* LIMIT and OFFSET
Page == {r \in Matching : /\ Rank(r) >= offset
                          /\ Rank(r) < offset + List.limit}

Select ==
    /\ pc = "select"
    /\ page' = Page
    /\ seen' = seen \cup Page
    /\ repeats' = repeats + Cardinality(Page \cap seen)
    /\ pc' = "answered"
    /\ UNCHANGED <<table, row, request, offset, total, kept, arrived,
                   departed, late>>

\* Either statement fails: 500, and the client asks again.
Fail ==
    /\ pc \in {"count", "select"}
    /\ pc' = "count"
    /\ UNCHANGED <<table, row, request, offset, total, page, kept, walk,
                   arrived, departed, late>>
-----------------------------------------------------------------------------
(* The client: goes on from where the response says the page ended, until  *)
(* a page is short or the total is reached.                                *)

Short == Cardinality(page) < Echo
Reached == offset + Echo >= total

NextPage ==
    /\ pc = "answered"
    /\ ~Short
    /\ offset' = offset + Echo
    /\ pc' = "count"
    /\ UNCHANGED <<table, row, request, total, page, kept, walk, arrived,
                   departed, late>>

Stop ==
    /\ pc = "answered"
    /\ \/ Short /\ pc' = "short"
       \/ Reached /\ pc' = "reached"
    /\ UNCHANGED <<table, row, request, offset, total, page, kept, walk,
                   arrived, departed, late>>
-----------------------------------------------------------------------------
Init ==
    /\ table \in Tables
    /\ row \in [Rows -> {"absent"} \cup
                   CASE table = "jobs" -> {"queued", "completed"}
                     [] table = "models" -> {"ready", "archived"}
                     [] table = "datasets" -> {"pending", "ready"}]
    /\ table = "jobs" => \A r \in Rows : row[r] = "absent" => CanInsert(r)
    /\ request \in [status : {None} \cup IF table = "jobs" THEN Statuses
                                         ELSE RegistryStatuses,
                    limit : {None} \cup 1..MaxLimit]
    /\ pc = "count"
    /\ offset = 0 /\ total = 0 /\ page = {}
    /\ seen = {} /\ repeats = 0
    /\ kept = Matching
    /\ arrived = 0 /\ departed = 0 /\ late = 0

Next == \/ \E r \in Rows : Move(r)
        \/ Count \/ Select \/ Fail \/ NextPage \/ Stop

Spec == Init /\ [][Next]_vars
-----------------------------------------------------------------------------
(* Properties                                                              *)

\* A row that matched all the time is missed by the walk only if another one
\* left the listing meanwhile, one miss for each; a client that trusts the
\* total also misses one for each row that arrived between the COUNT and the
\* SELECT of its last page.  So the listing of all jobs, and the listing of
\* ready models, from which rows never leave, miss nothing.
SkipsBounded ==
    LET missed == Cardinality(kept \ seen) IN
    /\ pc = "short" => missed <= departed
    /\ pc = "reached" => missed <= departed + late

\* A row is listed again only if another one arrived, at most once for each.
RepeatsBounded == repeats <= arrived
=============================================================================
