-------------------------- MODULE CatalogueProofs --------------------------
(***************************************************************************)
(* Proofs about the listings: for any number of rows, any limits and any   *)
(* changes meanwhile, what a client's walk through the pages misses or is  *)
(* given twice.                                                            *)
(***************************************************************************)
EXTENDS Catalogue, FiniteSetTheorems, WellFoundedInduction, TLAPS

(***************************************************************************)
(* Ranks in a set of rows.                                                 *)
(***************************************************************************)

\* The rows of X before row r, and their number.
Before(X, r) == {q \in X : q < r}
RankIn(X, r) == Cardinality(Before(X, r))

\* The rows of X from rank k on, and the others.
Beyond(X, k) == {r \in X : RankIn(X, r) >= k}
Below(X, k) == {r \in X : RankIn(X, r) < k}

\* Sets of rows are finite.
LEMMA RowsFinite ==
  ASSUME NEW X \in SUBSET Rows
  PROVE  IsFiniteSet(X) /\ Cardinality(X) \in Nat
<1>1. IsFiniteSet(Rows)
  BY CatalogueAssumption, FS_Interval DEF Rows
<1> QED BY <1>1, FS_Subset, FS_CardinalityType

\* A part of a set of rows has no more rows than the set.
LEMMA PartSize ==
  ASSUME NEW X \in SUBSET Rows, NEW Y \in SUBSET X
  PROVE  Cardinality(Y) <= Cardinality(X)
BY RowsFinite, FS_Subset

\* If Y has at most one row that X has not, it is larger by at most one.
LEMMA OneMore ==
  ASSUME NEW X \in SUBSET Rows, NEW Y \in SUBSET Rows,
         \A p, q \in Y \ X : p = q
  PROVE  Cardinality(Y) <= Cardinality(X) + 1
<1>1. CASE Y \subseteq X
  BY <1>1, PartSize, RowsFinite
<1>2. CASE ~(Y \subseteq X)
  <2>1. PICK p \in Y \ X : TRUE
    BY <1>2
  <2>2. Y \subseteq X \cup {p} /\ X \cup {p} \in SUBSET Rows
    BY <2>1
  <2>3. Cardinality(Y) <= Cardinality(X \cup {p})
    BY <2>2, PartSize
  <2>4. Cardinality(X \cup {p}) = Cardinality(X) + 1
    BY <2>1, RowsFinite, FS_AddElement
  <2> QED BY <2>3, <2>4
<1> QED BY <1>1, <1>2

\* A rank is a number.
LEMMA RankType ==
  ASSUME NEW X \in SUBSET Rows, NEW r
  PROVE  Before(X, r) \in SUBSET Rows /\ RankIn(X, r) \in Nat
BY RowsFinite DEF Before, RankIn

\* Ranks grow with the rows.
LEMMA RankGrows ==
  ASSUME NEW X \in SUBSET Rows, NEW q \in X, NEW r \in X, q < r
  PROVE  RankIn(X, q) < RankIn(X, r)
<1>1. q \in Nat /\ r \in Nat /\ q \notin Before(X, q)
  BY CatalogueAssumption DEF Rows, Before
<1>2. Before(X, q) \cup {q} \in SUBSET Before(X, r)
  <2>1. ASSUME NEW p \in X, p < q PROVE p < r
    BY <2>1, CatalogueAssumption DEF Rows
  <2> QED BY <2>1 DEF Before
<1>3. /\ Before(X, q) \in SUBSET Rows /\ RankIn(X, q) \in Nat
      /\ Before(X, r) \in SUBSET Rows /\ RankIn(X, r) \in Nat
  BY RankType
<1>4. Cardinality(Before(X, q) \cup {q}) = RankIn(X, q) + 1
  BY <1>1, <1>3, RowsFinite, FS_AddElement DEF RankIn
<1>5. Cardinality(Before(X, q) \cup {q}) <= RankIn(X, r)
  BY <1>2, <1>3, PartSize DEF RankIn
<1> QED BY <1>3, <1>4, <1>5

\* Two rows never have the same.
LEMMA RankInjective ==
  ASSUME NEW X \in SUBSET Rows, NEW q \in X, NEW r \in X,
         RankIn(X, q) = RankIn(X, r)
  PROVE  q = r
<1>1. q \in Nat /\ r \in Nat
  BY CatalogueAssumption DEF Rows
<1>2. RankIn(X, q) \in Nat /\ RankIn(X, r) \in Nat
  BY RankType
<1>3. ~(q < r) /\ ~(r < q)
  BY <1>2, RankGrows
<1> QED BY <1>1, <1>3

\* A non-empty set of rows has a first and a last row.
LEMMA FirstRow ==
  ASSUME NEW X \in SUBSET Rows, X # {}
  PROVE  \E r \in X : \A q \in X : r <= q
<1>1. IsWellFoundedOn(OpToRel(<, Nat), Nat)
  BY NatLessThanWellFounded
<1>2. X \subseteq Nat
  BY CatalogueAssumption DEF Rows
<1>3. PICK r \in X : \A q \in X : ~ (<<q, r>> \in OpToRel(<, Nat))
  BY <1>1, <1>2, WFMin
<1>4. ASSUME NEW q \in X PROVE r <= q
  <2>1. ~ (<<q, r>> \in OpToRel(<, Nat)) /\ q \in Nat /\ r \in Nat
    BY <1>2, <1>3
  <2> QED BY <2>1 DEF OpToRel
<1> QED BY <1>4

LEMMA LastRow ==
  ASSUME NEW X \in SUBSET Rows, X # {}
  PROVE  \E r \in X : \A q \in X : q <= r
<1> DEFINE Y == {r \in Rows : NumRows + 1 - r \in X}
<1>1. Y \in SUBSET Rows /\ Y # {}
  <2>1. PICK r \in X : TRUE
    OBVIOUS
  <2>2. NumRows + 1 - r \in Rows /\ NumRows + 1 - (NumRows + 1 - r) = r
    BY CatalogueAssumption DEF Rows
  <2> QED BY <2>1, <2>2
<1>2. PICK m \in Y : \A q \in Y : m <= q
  <2> HIDE DEF Y
  <2> QED BY <1>1, FirstRow
<1>3. ASSUME NEW q \in X PROVE q <= NumRows + 1 - m
  <2>1. NumRows + 1 - q \in Y
    <3>1. NumRows + 1 - q \in Rows /\ NumRows + 1 - (NumRows + 1 - q) = q
      BY CatalogueAssumption DEF Rows
    <3> QED BY <3>1
  <2>2. m <= NumRows + 1 - q
    BY <1>2, <2>1
  <2> QED BY <2>2, CatalogueAssumption DEF Rows
<1> QED BY <1>2, <1>3

\* At most k rows have a rank below k ...
LEMMA BelowSize ==
  ASSUME NEW X \in SUBSET Rows, NEW k \in Nat
  PROVE  Cardinality(Below(X, k)) <= k
<1>1. Below(X, k) \in SUBSET Rows
  BY DEF Below
<1>2. CASE Below(X, k) = {}
  BY <1>2, FS_EmptySet
<1>3. CASE Below(X, k) # {}
  <2>1. PICK r \in Below(X, k) : \A q \in Below(X, k) : q <= r
    BY <1>1, <1>3, LastRow
  <2>2. r \in X /\ RankIn(X, r) < k
    BY <2>1 DEF Below
  <2>3. /\ Before(X, r) \in SUBSET Rows /\ RankIn(X, r) \in Nat
        /\ r \notin Before(X, r)
    BY <2>2, RankType, CatalogueAssumption DEF Before, Rows
  <2>4. Below(X, k) \subseteq Before(X, r) \cup {r}
    BY <1>1, <2>1, CatalogueAssumption DEF Below, Before, Rows
  <2>5. Cardinality(Before(X, r) \cup {r}) = RankIn(X, r) + 1
    BY <2>3, RowsFinite, FS_AddElement DEF RankIn
  <2>6. Cardinality(Below(X, k)) <= RankIn(X, r) + 1
    BY <2>2, <2>3, <2>4, <2>5, PartSize
  <2>7. Cardinality(Below(X, k)) \in Nat
    BY <1>1, RowsFinite
  <2> QED BY <2>2, <2>3, <2>6, <2>7
<1> QED BY <1>2, <1>3

\* ... and at least k do, if some row has a rank from k on: no rank is
\* left out.
LEMMA BelowFull ==
  ASSUME NEW X \in SUBSET Rows, NEW k \in Nat, Beyond(X, k) # {}
  PROVE  /\ Cardinality(Below(X, k)) >= k
         /\ Cardinality(Beyond(X, k)) <= Cardinality(X) - k
<1>1. Below(X, k) \in SUBSET Rows /\ Beyond(X, k) \in SUBSET Rows
  BY DEF Below, Beyond
<1>2. PICK m \in Beyond(X, k) : \A q \in Beyond(X, k) : m <= q
  BY <1>1, FirstRow
<1>3. m \in X /\ RankIn(X, m) >= k
  BY <1>2 DEF Beyond
<1>4. Before(X, m) \subseteq Below(X, k)
  <2> SUFFICES ASSUME NEW q \in X, q < m PROVE RankIn(X, q) < k
    BY DEF Before, Below
  <2>1. q \notin Beyond(X, k)
    BY <1>2, <1>3, CatalogueAssumption DEF Rows
  <2>2. RankIn(X, q) \in Nat
    BY RankType
  <2> QED BY <2>1, <2>2 DEF Beyond
<1>5. Cardinality(Below(X, k)) >= k
  <2>1. RankIn(X, m) <= Cardinality(Below(X, k))
    BY <1>1, <1>4, PartSize DEF RankIn
  <2>2. RankIn(X, m) \in Nat /\ Cardinality(Below(X, k)) \in Nat
    BY <1>1, RankType, RowsFinite
  <2> QED BY <1>3, <2>1, <2>2
<1>6. X = Below(X, k) \cup Beyond(X, k) /\ Below(X, k) \cap Beyond(X, k) = {}
  <2>1. \A q \in X : RankIn(X, q) \in Nat
    BY RankType
  <2> QED BY <2>1 DEF Below, Beyond
<1>7. Cardinality(X) = Cardinality(Below(X, k)) + Cardinality(Beyond(X, k))
  <2> DEFINE B == Below(X, k)
             C == Beyond(X, k)
  <2>1. /\ IsFiniteSet(B) /\ Cardinality(B) \in Nat
        /\ IsFiniteSet(C) /\ Cardinality(C) \in Nat
    BY <1>1, RowsFinite
  <2>2. X = B \cup C /\ B \cap C = {}
    BY <1>6
  <2> HIDE DEF B, C
  <2>3. Cardinality(B \cup C) = Cardinality(B) + Cardinality(C)
                                 - Cardinality(B \cap C)
    BY <2>1, FS_Union
  <2>4. Cardinality(B \cap C) = 0
    BY <2>2, FS_EmptySet
  <2>5. Cardinality(X) = Cardinality(B) + Cardinality(C)
    BY <2>1, <2>2, <2>3, <2>4
  <2> QED BY <2>5 DEF B, C
<1>8. /\ Cardinality(Below(X, k)) \in Nat /\ Cardinality(Beyond(X, k)) \in Nat
      /\ Cardinality(X) \in Nat
  BY <1>1, RowsFinite
<1> QED BY <1>5, <1>7, <1>8

\* A row that arrives moves those behind it by one.
LEMMA RankArrival ==
  ASSUME NEW X \in SUBSET Rows, NEW a \in Rows \ X, NEW r \in Rows
  PROVE  RankIn(X \cup {a}, r)
            = IF a < r THEN RankIn(X, r) + 1 ELSE RankIn(X, r)
<1>1. Before(X \cup {a}, r)
         = IF a < r THEN Before(X, r) \cup {a} ELSE Before(X, r)
  BY DEF Before
<1>2. a \notin Before(X, r) /\ Before(X, r) \in SUBSET Rows
  BY DEF Before
<1>3. Cardinality(Before(X, r) \cup {a}) = Cardinality(Before(X, r)) + 1
  BY <1>2, RowsFinite, FS_AddElement
<1> QED BY <1>1, <1>3 DEF RankIn

\* So at most one row gets to rank k or further: the one that arrives, or
\* the one before rank k.
LEMMA ArrivalBeyond ==
  ASSUME NEW X \in SUBSET Rows, NEW a \in Rows \ X, NEW k \in Nat
  PROVE  \A p, q \in Beyond(X \cup {a}, k) \ Beyond(X, k) : p = q
<1> DEFINE Gone == Beyond(X \cup {a}, k) \ Beyond(X, k)
<1>1. ASSUME NEW p \in Gone, p # a
      PROVE  p \in X /\ RankIn(X, p) = k - 1 /\ a < p
  <2>1. p \in X /\ p \in Rows
    BY <1>1 DEF Beyond
  <2>2. RankIn(X, p) \in Nat /\ ~(RankIn(X, p) >= k)
    BY <1>1, <2>1, RankType DEF Beyond
  <2>3. RankIn(X \cup {a}, p) >= k
    BY <1>1 DEF Beyond
  <2> QED BY <2>1, <2>2, <2>3, RankArrival
<1>2. ASSUME a \in Gone, NEW p \in Gone, p # a PROVE FALSE
  <2>1. p \in X /\ RankIn(X, p) = k - 1 /\ a < p
    BY <1>1, <1>2
  <2>2. a \in X \cup {a} /\ p \in X \cup {a} /\ X \cup {a} \in SUBSET Rows
    BY <2>1
  <2>3. RankIn(X \cup {a}, a) < RankIn(X \cup {a}, p)
    BY <2>1, <2>2, RankGrows
  <2>4. RankIn(X \cup {a}, p) = k
    BY <2>1, <2>2, RankArrival
  <2>5. RankIn(X \cup {a}, a) >= k
    BY <1>2 DEF Beyond
  <2>6. RankIn(X \cup {a}, a) \in Nat
    BY <2>2, RankType
  <2> QED BY <2>3, <2>4, <2>5, <2>6
<1>3. ASSUME NEW p \in Gone, NEW q \in Gone, p # a, q # a PROVE p = q
  BY <1>1, <1>3, RankInjective
<1> QED BY <1>2, <1>3

\* None gets back below it.
LEMMA ArrivalBelow ==
  ASSUME NEW X \in SUBSET Rows, NEW a \in Rows \ X, NEW k \in Nat
  PROVE  Below(X \cup {a}, k) \cap X \subseteq Below(X, k)
<1> SUFFICES ASSUME NEW p \in X, RankIn(X \cup {a}, p) < k
             PROVE  RankIn(X, p) < k
  BY DEF Below
<1>1. RankIn(X, p) \in Nat
  BY RankType
<1> QED BY <1>1, RankArrival

\* The same with X before and after a row left, and the sides exchanged.
LEMMA DepartureBelow ==
  ASSUME NEW X \in SUBSET Rows, NEW a \in X, NEW k \in Nat
  PROVE  \A p, q \in Below(X \ {a}, k) \ Below(X, k) : p = q
<1> DEFINE Y == X \ {a}
<1>1. Y \in SUBSET Rows /\ a \in Rows \ Y /\ X = Y \cup {a}
  OBVIOUS
<1>2. ASSUME NEW p \in Below(Y, k) \ Below(X, k)
      PROVE  p \in Y /\ RankIn(Y, p) = k - 1
  <2>1. p \in Y /\ p \in X /\ RankIn(Y, p) < k
    BY <1>2 DEF Below
  <2>2. RankIn(Y, p) \in Nat /\ RankIn(X, p) \in Nat
    BY <1>1, RankType
  <2>3. ~(RankIn(X, p) < k)
    BY <1>2, <2>1 DEF Below
  <2>4. RankIn(X, p) = RankIn(Y, p) + 1 \/ RankIn(X, p) = RankIn(Y, p)
    <3> HIDE DEF Y
    <3> QED BY <1>1, <2>1, RankArrival
  <2> QED BY <2>1, <2>2, <2>3, <2>4
<1>3. ASSUME NEW p \in Below(Y, k) \ Below(X, k),
             NEW q \in Below(Y, k) \ Below(X, k)
      PROVE  p = q
  <2>1. p \in Y /\ q \in Y /\ RankIn(Y, p) = RankIn(Y, q)
    BY <1>2, <1>3
  <2> HIDE DEF Y
  <2> QED BY <1>1, <2>1, RankInjective
<1> QED BY <1>3

LEMMA DepartureBeyond ==
  ASSUME NEW X \in SUBSET Rows, NEW a \in X, NEW k \in Nat
  PROVE  Beyond(X \ {a}, k) \subseteq Beyond(X, k)
<1> DEFINE Y == X \ {a}
<1>1. Y \in SUBSET Rows /\ a \in Rows \ Y /\ X = Y \cup {a}
  OBVIOUS
<1>2. ASSUME NEW p \in Y, RankIn(Y, p) >= k PROVE RankIn(X, p) >= k
  <2>1. RankIn(Y, p) \in Nat
    BY <1>1, RankType
  <2>2. RankIn(X, p) = RankIn(Y, p) + 1 \/ RankIn(X, p) = RankIn(Y, p)
    <3>1. p \in Rows
      OBVIOUS
    <3> HIDE DEF Y
    <3> QED BY <1>1, <3>1, RankArrival
  <2> QED BY <1>2, <2>1, <2>2
<1> QED BY <1>2 DEF Beyond

-----------------------------------------------------------------------------
(***************************************************************************)
(* The inductive invariant.                                                *)
(***************************************************************************)

\* The type of the state.
TypeOK ==
    /\ table \in Tables
    /\ row \in [Rows -> {"absent"} \cup Statuses \cup RegistryStatuses]
    /\ request \in [status : {None} \cup Statuses \cup RegistryStatuses,
                    limit : {None} \cup 1..MaxLimit]
    /\ pc \in {"count", "select", "answered", "short", "reached"}
    /\ offset \in Nat /\ total \in Nat
    /\ page \in SUBSET Rows /\ seen \in SUBSET Rows /\ kept \in SUBSET Rows
    /\ repeats \in Nat /\ arrived \in Nat /\ departed \in Nat /\ late \in Nat

\* The rank at which the walk goes on.
Ahead == IF pc \in {"count", "select"} THEN offset ELSE offset + Echo

\* A row that comes again was seen and is ahead, one that is missed has not
\* been seen and is behind: both lie on their side only because another row
\* arrived, or left.  At the end of the walk all that was kept is behind.
WalkInv ==
    /\ TypeOK
    /\ kept \subseteq Matching
    /\ repeats + Cardinality(Beyond(Matching, Ahead) \cap seen) <= arrived
    /\ Cardinality((kept \ seen) \cap Below(Matching, Ahead)) <= departed
    /\ pc = "select" => Cardinality(Matching) <= total + late
    /\ pc = "short" \/ (pc = "answered" /\ Short)
          => Cardinality(kept \ seen) <= departed
    /\ pc = "reached" \/ (pc = "answered" /\ Reached)
          => Cardinality(kept \ seen) <= departed + late

\* The response names the limit the statement used, and it is positive.
LEMMA EchoIsLimit ==
  ASSUME table \in Tables,
         request.limit \in {None} \cup 1..MaxLimit
  PROVE  List.limit = Echo /\ Echo \in Nat \ {0}
<1>1. /\ DefaultLimit \in Nat \ {0} /\ None \notin Nat /\ MaxLimit \in Nat
      /\ request.limit # None => request.limit \in Nat \ {0}
  BY CatalogueAssumption
<1>2. CASE table = "jobs"
  BY <1>1, <1>2 DEF List, Echo, JobStoreList, parseListJobsParams, ListJobsEcho
<1>3. CASE table = "models"
  BY <1>1, <1>3 DEF List, Echo, ModelStoreList, parseListModelsParams
<1>4. CASE table = "datasets"
  BY <1>1, <1>4 DEF List, Echo, DatasetStoreList, parseListDatasetsParams
<1> QED BY <1>2, <1>3, <1>4 DEF Tables

\* They depend on nothing but the table and the request.
LEMMA ListKept ==
  ASSUME UNCHANGED <<table, request>>
  PROVE  List' = List /\ Echo' = Echo
BY DEF List, Echo

\* The rows that match are rows.
LEMMA MatchingRows == Matching \in SUBSET Rows
BY DEF Matching

\* A row changes to a status of its table.
LEMMA MovesType ==
  ASSUME table \in Tables,
         NEW s \in {"absent"} \cup Statuses \cup RegistryStatuses
  PROVE  Moves(s) \subseteq {"absent"} \cup Statuses \cup RegistryStatuses
<1>1. \A t \in {"queued", "running"} : validTransitions[t] \subseteq Statuses
  BY DEF validTransitions, Statuses
<1>2. CASE table = "jobs"
  <2>1. CASE s = "absent"
    BY <1>2, <2>1 DEF Moves, Statuses
  <2>2. CASE s = "running"
    BY <1>1, <1>2, <2>2 DEF Moves, Statuses
  <2>3. CASE s = "queued"
    BY <1>1, <1>2, <2>3 DEF Moves, Statuses
  <2>4. CASE s \notin {"absent", "running", "queued"}
    BY <1>2, <2>4 DEF Moves
  <2> QED BY <2>1, <2>2, <2>3, <2>4
<1>3. CASE table = "models"
  BY <1>3 DEF Moves, RegistryStatuses
<1>4. CASE table = "datasets"
  BY <1>4 DEF Moves, RegistryStatuses
<1> QED BY <1>2, <1>3, <1>4 DEF Tables

\* What a change of a row does to the listing and to the counts.
LEMMA MoveEffects ==
  ASSUME TypeOK, NEW r \in Rows, Move(r)
  PROVE  /\ TypeOK'
         /\ UNCHANGED <<table, request, pc, offset, total, page, seen, repeats>>
         /\ \/ /\ r \notin Matching /\ Matching' = Matching \cup {r}
               /\ arrived' = arrived + 1 /\ departed' = departed
               /\ late' = IF pc = "select" THEN late + 1 ELSE late
               /\ kept' = kept
            \/ /\ r \in Matching /\ Matching' = Matching \ {r}
               /\ arrived' = arrived /\ departed' = departed + 1
               /\ late' = late /\ kept' = kept \ {r}
            \/ Matching' = Matching /\ UNCHANGED <<arrived, departed, late, kept>>
<1>1. PICK s \in Moves(row[r]) :
         /\ row' = [row EXCEPT ![r] = s]
         /\ arrived' = IF Match(s) /\ ~Match(row[r]) THEN arrived + 1 ELSE arrived
         /\ late' = IF Match(s) /\ ~Match(row[r]) /\ pc = "select"
                    THEN late + 1 ELSE late
         /\ departed' = IF Match(row[r]) /\ ~Match(s) THEN departed + 1
                        ELSE departed
         /\ kept' = IF Match(row[r]) /\ ~Match(s) THEN kept \ {r} ELSE kept
  BY DEF Move
<1>2. UNCHANGED <<table, request, pc, offset, total, page, seen, repeats>>
  BY DEF Move, walk
<1>3. s \in {"absent"} \cup Statuses \cup RegistryStatuses
  <2>1. row[r] \in {"absent"} \cup Statuses \cup RegistryStatuses
    BY DEF TypeOK
  <2> QED BY <2>1, MovesType DEF TypeOK
<1>4. TypeOK'
  <2>1. /\ row' \in [Rows -> {"absent"} \cup Statuses \cup RegistryStatuses]
        /\ kept' \in SUBSET Rows
    BY <1>1, <1>3 DEF TypeOK
  <2>2. arrived' \in Nat /\ departed' \in Nat /\ late' \in Nat
    BY <1>1 DEF TypeOK
  <2> QED BY <1>2, <2>1, <2>2 DEF TypeOK
<1>5. /\ \A q \in Rows \ {r} : row'[q] = row[q]
      /\ row'[r] = s
  BY <1>1 DEF TypeOK
<1>6. /\ r \in Matching <=> Match(row[r])
      /\ r \in Matching' <=> Match(s)
      /\ \A q \in Rows \ {r} : q \in Matching' <=> q \in Matching
  <2>1. List' = List
    BY <1>2, ListKept
  <2>2. \A q \in Rows : q \in Matching' <=> Match(row'[q])
    BY <2>1 DEF Matching, Match
  <2>3. \A q \in Rows : q \in Matching <=> Match(row[q])
    BY DEF Matching
  <2> QED BY <1>5, <2>2, <2>3
<1>7. Matching \in SUBSET Rows /\ Matching' \in SUBSET Rows
  BY DEF Matching
<1>8. CASE Match(s) /\ ~Match(row[r])
  <2>1. r \notin Matching /\ Matching' = Matching \cup {r}
    BY <1>6, <1>7, <1>8
  <2> QED BY <1>1, <1>2, <1>4, <1>8, <2>1
<1>9. CASE Match(row[r]) /\ ~Match(s)
  <2>1. r \in Matching /\ Matching' = Matching \ {r}
    BY <1>6, <1>7, <1>9
  <2> QED BY <1>1, <1>2, <1>4, <1>9, <2>1
<1>10. CASE Match(row[r]) <=> Match(s)
  <2>1. Matching' = Matching
    BY <1>6, <1>7, <1>10
  <2> QED BY <1>1, <1>2, <1>4, <1>10, <2>1
<1> QED BY <1>8, <1>9, <1>10

\* A change of a row keeps the invariant.
LEMMA MoveKeeps ==
  ASSUME WalkInv, NEW r \in Rows, Move(r)
  PROVE  WalkInv'
<1> DEFINE M == Matching
           behind == kept \ seen
<1>1. /\ TypeOK /\ TypeOK' /\ kept \subseteq M
      /\ M \in SUBSET Rows /\ Matching' \in SUBSET Rows
      /\ behind \in SUBSET Rows /\ behind' \in SUBSET Rows
      /\ arrived \in Nat /\ departed \in Nat /\ late \in Nat /\ total \in Nat
      /\ repeats \in Nat
  BY MoveEffects DEF WalkInv, TypeOK, Matching
<1>2. /\ Ahead' = Ahead /\ Ahead \in Nat
      /\ Short' <=> Short
      /\ Reached' <=> Reached
      /\ UNCHANGED <<pc, seen, repeats, total>>
  <2>1. UNCHANGED <<table, request, pc, offset, total, page, seen, repeats>>
    BY <1>1, MoveEffects
  <2>2. Echo' = Echo /\ Echo \in Nat
    BY <1>1, <2>1, ListKept, EchoIsLimit DEF TypeOK
  <2> QED BY <1>1, <2>1, <2>2 DEF Ahead, Short, Reached, TypeOK
<1> DEFINE k == Ahead
<1>3. /\ Cardinality(behind) \in Nat /\ Cardinality(behind') \in Nat
      /\ Cardinality(M) \in Nat /\ Cardinality(M') \in Nat
      /\ Cardinality(Beyond(M, k) \cap seen) \in Nat
      /\ Cardinality(Beyond(M', k) \cap seen) \in Nat
      /\ Cardinality(behind \cap Below(M, k)) \in Nat
      /\ Cardinality(behind' \cap Below(M', k)) \in Nat
      /\ Beyond(M, k) \cap seen \in SUBSET Rows
      /\ Beyond(M', k) \cap seen \in SUBSET Rows
      /\ behind \cap Below(M, k) \in SUBSET Rows
      /\ behind' \cap Below(M', k) \in SUBSET Rows
  BY <1>1, RowsFinite DEF Beyond
<1>4. ASSUME kept' \subseteq M', late <= late', late' \in Nat,
             arrived' \in Nat, departed' \in Nat, departed <= departed',
             Cardinality(Beyond(M', k) \cap seen)
               <= Cardinality(Beyond(M, k) \cap seen) + (arrived' - arrived),
             Cardinality(behind' \cap Below(M', k))
               <= Cardinality(behind \cap Below(M, k)) + (departed' - departed),
             pc = "select"
               => Cardinality(M') <= Cardinality(M) + (late' - late),
             Cardinality(behind') <= Cardinality(behind)
      PROVE  WalkInv'
  <2>1. repeats' + Cardinality(Beyond(M', k) \cap seen) <= arrived'
    BY <1>1, <1>2, <1>3, <1>4 DEF WalkInv
  <2>2. Cardinality(behind' \cap Below(M', k)) <= departed'
    BY <1>1, <1>3, <1>4 DEF WalkInv
  <2>3. pc' = "select" => Cardinality(M') <= total' + late'
    BY <1>1, <1>2, <1>3, <1>4 DEF WalkInv
  <2>4. /\ pc' = "short" \/ (pc' = "answered" /\ Short')
              => Cardinality(behind') <= departed'
        /\ pc' = "reached" \/ (pc' = "answered" /\ Reached')
              => Cardinality(behind') <= departed' + late'
    BY <1>1, <1>2, <1>3, <1>4 DEF WalkInv
  <2> QED BY <1>1, <1>2, <1>4, <2>1, <2>2, <2>3, <2>4 DEF WalkInv
<1>5. CASE /\ r \notin M /\ M' = M \cup {r} /\ arrived' = arrived + 1
           /\ departed' = departed
           /\ late' = IF pc = "select" THEN late + 1 ELSE late
           /\ kept' = kept
  <2>1. \A p, q \in (Beyond(M', k) \cap seen) \ (Beyond(M, k) \cap seen) : p = q
    BY <1>1, <1>2, <1>5, ArrivalBeyond
  <2>2. Cardinality(Beyond(M', k) \cap seen)
          <= Cardinality(Beyond(M, k) \cap seen) + 1
    BY <1>3, <2>1, OneMore
  <2>3. behind' = behind
    BY <1>2, <1>5
  <2>4. behind' \cap Below(M', k) \subseteq behind \cap Below(M, k)
    BY <1>1, <1>2, <1>5, <2>3, ArrivalBelow
  <2>5. Cardinality(behind' \cap Below(M', k))
          <= Cardinality(behind \cap Below(M, k))
    BY <1>3, <2>4, PartSize
  <2>6. Cardinality(M') = Cardinality(M) + 1
    BY <1>1, <1>5, RowsFinite, FS_AddElement
  <2>7. kept' \subseteq M'
    BY <1>1, <1>5
  <2> HIDE DEF M, behind, k
  <2> QED BY <1>1, <1>3, <1>4, <1>5, <2>2, <2>3, <2>5, <2>6, <2>7
<1>6. CASE /\ r \in M /\ M' = M \ {r} /\ arrived' = arrived
           /\ departed' = departed + 1 /\ late' = late /\ kept' = kept \ {r}
  <2>1. Cardinality(Beyond(M', k) \cap seen)
          <= Cardinality(Beyond(M, k) \cap seen)
    <3>1. Beyond(M', k) \cap seen \subseteq Beyond(M, k) \cap seen
      BY <1>1, <1>2, <1>6, DepartureBeyond
    <3> QED BY <1>3, <3>1, PartSize
  <2>2. behind' \subseteq behind
    BY <1>2, <1>6
  <2>3. Cardinality(behind' \cap Below(M', k))
          <= Cardinality(behind \cap Below(M, k)) + 1
    <3>1. \A p, q \in (behind' \cap Below(M', k)) \ (behind \cap Below(M, k)) :
             p = q
      BY <1>1, <1>2, <1>6, <2>2, DepartureBelow
    <3> QED BY <1>3, <3>1, OneMore
  <2>4. Cardinality(M') <= Cardinality(M)
    BY <1>1, <1>6, PartSize
  <2>5. Cardinality(behind') <= Cardinality(behind)
    BY <1>1, <2>2, PartSize
  <2>6. kept' \subseteq M'
    BY <1>1, <1>6
  <2> HIDE DEF M, behind, k
  <2> QED BY <1>1, <1>3, <1>4, <1>6, <2>1, <2>3, <2>4, <2>5, <2>6
<1>7. CASE M' = M /\ UNCHANGED <<arrived, departed, late, kept>>
  <2>1. behind' = behind /\ kept' \subseteq M'
    BY <1>1, <1>2, <1>7
  <2> HIDE DEF M, behind, k
  <2> QED BY <1>1, <1>3, <1>4, <1>7, <2>1
<1> QED BY <1>1, <1>5, <1>6, <1>7, MoveEffects

\* A page is what lies between two ranks.
LEMMA PageSpan ==
  ASSUME TypeOK
  PROVE  Page = Beyond(Matching, offset) \cap Below(Matching, offset + Echo)
<1>1. List.limit = Echo
  BY EchoIsLimit DEF TypeOK
<1> QED BY <1>1 DEF Page, Rank, Beyond, Below, RankIn, Before

\* A set in two parts.
LEMMA PartsSize ==
  ASSUME NEW X \in SUBSET Rows, NEW Y \in SUBSET Rows
  PROVE  /\ Cardinality(X \cup Y) <= Cardinality(X) + Cardinality(Y)
         /\ X \cap Y = {}
              => Cardinality(X \cup Y) = Cardinality(X) + Cardinality(Y)
<1>1. /\ IsFiniteSet(X) /\ Cardinality(X) \in Nat
      /\ IsFiniteSet(Y) /\ Cardinality(Y) \in Nat
      /\ Cardinality(X \cap Y) \in Nat
  BY RowsFinite
<1>2. Cardinality(X \cup Y) = Cardinality(X) + Cardinality(Y)
                                - Cardinality(X \cap Y)
  BY <1>1, FS_Union
<1>3. X \cap Y = {} => Cardinality(X \cap Y) = 0
  BY FS_EmptySet
<1> QED BY <1>1, <1>2, <1>3

\* A page shorter than the limit is the last one.
LEMMA ShortIsLast ==
  ASSUME NEW X \in SUBSET Rows, NEW k \in Nat, NEW n \in Nat,
         Cardinality(Beyond(X, k) \cap Below(X, k + n)) < n
  PROVE  Beyond(X, k + n) = {}
<1> DEFINE P == Beyond(X, k) \cap Below(X, k + n)
           B == Below(X, k)
<1> SUFFICES ASSUME Beyond(X, k + n) # {} PROVE FALSE
  OBVIOUS
<1>1. \A r \in X : RankIn(X, r) \in Nat
  BY RankType
<1>2. Below(X, k + n) = B \cup P /\ B \cap P = {}
  BY <1>1 DEF Below, Beyond
<1>3. Cardinality(B \cup P) >= k + n
  <2>1. k + n \in Nat
    OBVIOUS
  <2>2. Cardinality(Below(X, k + n)) >= k + n
    BY <2>1, BelowFull
  <2> QED BY <1>2, <2>2
<1>4. Cardinality(B) <= k
  BY BelowSize
<1>5. B \in SUBSET Rows /\ P \in SUBSET Rows
  BY DEF Below, Beyond
<1>6. Cardinality(B) \in Nat /\ Cardinality(P) \in Nat
  BY <1>5, RowsFinite
<1>7. Cardinality(P) < n
  OBVIOUS
<1> HIDE DEF B, P
<1>8. Cardinality(B \cup P) = Cardinality(B) + Cardinality(P)
  BY <1>2, <1>5, PartsSize
<1> QED BY <1>3, <1>4, <1>6, <1>7, <1>8

\* The SELECT keeps the invariant.
LEMMA SelectKeeps ==
  ASSUME WalkInv, Select
  PROVE  WalkInv'
<1> DEFINE M == Matching
           P == Page
           k == offset
           n == offset + Echo
           behind == kept \ seen
<1>1. /\ TypeOK /\ kept \subseteq M /\ M \in SUBSET Rows
      /\ behind \in SUBSET Rows /\ seen \in SUBSET Rows
      /\ k \in Nat /\ Echo \in Nat /\ n \in Nat /\ n = k + Echo
      /\ arrived \in Nat /\ departed \in Nat /\ late \in Nat /\ total \in Nat
      /\ repeats \in Nat
  BY EchoIsLimit DEF WalkInv, TypeOK, Matching
<1>2. /\ pc = "select" /\ pc' = "answered" /\ page' = P /\ seen' = seen \cup P
      /\ repeats' = repeats + Cardinality(P \cap seen)
      /\ UNCHANGED <<table, row, request, offset, total, kept, arrived,
                     departed, late>>
  BY DEF Select
<1>3. /\ Echo' = Echo /\ Matching' = M
      /\ Ahead = k /\ Ahead' = n
      /\ behind' = behind \ P
  <2>1. List' = List /\ Echo' = Echo
    BY <1>2, ListKept
  <2> QED BY <1>2, <2>1 DEF Matching, Match, Ahead
<1>4. P = Beyond(M, k) \cap Below(M, n) /\ P \in SUBSET Rows
  BY <1>1, PageSpan DEF Beyond
<1>5. /\ Below(M, k) \in SUBSET Rows /\ Beyond(M, k) \in SUBSET Rows
      /\ Below(M, n) \in SUBSET Rows /\ Beyond(M, n) \in SUBSET Rows
      /\ \A r \in M : /\ r \in Below(M, k) <=> r \notin Beyond(M, k)
                      /\ r \in Below(M, n) <=> r \notin Beyond(M, n)
                      /\ r \in Beyond(M, n) => r \in Beyond(M, k)
  <2>1. \A r \in M : RankIn(M, r) \in Nat
    BY <1>1, RankType
  <2> QED BY <1>1, <2>1 DEF Below, Beyond
<1>6. /\ Cardinality(M) <= total + late
      /\ repeats + Cardinality(Beyond(M, k) \cap seen) <= arrived
      /\ Cardinality(behind \cap Below(M, k)) <= departed
  BY <1>2, <1>3 DEF WalkInv
<1>7. Short' <=> Cardinality(P) < Echo
  BY <1>2, <1>3 DEF Short
<1>8. Reached' <=> n >= total
  BY <1>2, <1>3 DEF Reached
<1>9. TypeOK'
  <2>1. Cardinality(P \cap seen) \in Nat
    BY <1>4, RowsFinite
  <2> QED BY <1>1, <1>2, <1>4, <2>1 DEF TypeOK
<1>10. Beyond(M, k) \subseteq M /\ Below(M, k) \subseteq M
  BY DEF Beyond, Below
<1> HIDE DEF M, P, k, n, behind
<1>11. repeats' + Cardinality(Beyond(M, n) \cap seen') <= arrived
  <2> DEFINE again == P \cap seen
             later == Beyond(M, n) \cap seen
  <2>1. /\ Beyond(M, n) \cap seen' = later
        /\ Beyond(M, k) \cap seen = again \cup later
        /\ again \cap later = {}
    <3>1. Beyond(M, n) \subseteq M
      BY DEF Beyond
    <3> QED BY <1>2, <1>4, <1>5, <1>10, <3>1
  <2>2. again \in SUBSET Rows /\ later \in SUBSET Rows
    BY <1>4, <1>5
  <2>3. Cardinality(Beyond(M, k) \cap seen)
          = Cardinality(again) + Cardinality(later)
    BY <2>1, <2>2, PartsSize
  <2>4. Cardinality(again) \in Nat /\ Cardinality(later) \in Nat
    BY <2>2, RowsFinite
  <2>6. Cardinality(Beyond(M, n) \cap seen') = Cardinality(later)
    BY <2>1
  <2> HIDE DEF later
  <2>5. repeats' = repeats + Cardinality(again)
    BY <1>2
  <2> HIDE DEF again
  <2> QED BY <1>1, <1>6, <2>3, <2>4, <2>5, <2>6
<1>12. /\ behind' \cap Below(M, n) \subseteq behind \cap Below(M, k)
       /\ behind' \subseteq (behind \cap Below(M, k)) \cup Beyond(M, n)
       /\ behind' \in SUBSET Rows
  <2>1. behind \subseteq M
    BY <1>1 DEF behind
  <2> QED BY <1>1, <1>3, <1>4, <1>5, <2>1
<1>13. Cardinality(behind' \cap Below(M, n)) <= departed
  <2>1. Cardinality(behind' \cap Below(M, n))
          <= Cardinality(behind \cap Below(M, k))
    BY <1>5, <1>12, PartSize
  <2>2. /\ Cardinality(behind' \cap Below(M, n)) \in Nat
        /\ Cardinality(behind \cap Below(M, k)) \in Nat
    BY <1>5, RowsFinite
  <2> QED BY <1>1, <1>6, <2>1, <2>2
<1>14. Short' => Cardinality(behind') <= departed
  <2> SUFFICES ASSUME Cardinality(P) < Echo
               PROVE  Cardinality(behind') <= departed
    BY <1>7
  <2>1. Beyond(M, n) = {}
    BY <1>1, <1>4, ShortIsLast
  <2>2. Cardinality(behind') <= Cardinality(behind \cap Below(M, k))
    BY <1>5, <1>12, <2>1, PartSize
  <2>3. /\ Cardinality(behind') \in Nat
        /\ Cardinality(behind \cap Below(M, k)) \in Nat
    BY <1>5, <1>12, RowsFinite
  <2> QED BY <1>1, <1>6, <2>2, <2>3
<1>15. Reached' => Cardinality(behind') <= departed + late
  <2> SUFFICES ASSUME n >= total
               PROVE  Cardinality(behind') <= departed + late
    BY <1>8
  <2>1. Cardinality(Beyond(M, n)) <= late
    <3>1. CASE Beyond(M, n) = {}
      BY <1>1, <3>1, FS_EmptySet
    <3>2. CASE Beyond(M, n) # {}
      <4>1. Cardinality(Beyond(M, n)) <= Cardinality(M) - n
        BY <1>1, <3>2, BelowFull
      <4>2. Cardinality(Beyond(M, n)) \in Nat /\ Cardinality(M) \in Nat
        BY <1>1, <1>5, RowsFinite
      <4> QED BY <1>1, <1>6, <4>1, <4>2
    <3> QED BY <3>1, <3>2
  <2> DEFINE before == behind \cap Below(M, k)
  <2>2. Cardinality(behind') <= Cardinality(before \cup Beyond(M, n))
    BY <1>5, <1>12, PartSize
  <2>3. before \in SUBSET Rows
    BY <1>5
  <2>4. Cardinality(before) <= departed
    BY <1>6
  <2>5. /\ Cardinality(behind') \in Nat /\ Cardinality(before) \in Nat
        /\ Cardinality(Beyond(M, n)) \in Nat
        /\ Cardinality(before \cup Beyond(M, n)) \in Nat
    BY <1>5, <1>12, <2>3, RowsFinite
  <2>6. Cardinality(before \cup Beyond(M, n))
          <= Cardinality(before) + Cardinality(Beyond(M, n))
    BY <1>5, <2>3, PartsSize
  <2> HIDE DEF before
  <2> QED BY <1>1, <2>1, <2>2, <2>4, <2>5, <2>6
<1>16. kept' \subseteq M /\ Ahead' = n /\ Matching' = M
  BY <1>1, <1>2, <1>3
<1> QED BY <1>2, <1>9, <1>11, <1>13, <1>14, <1>15, <1>16 DEF WalkInv, behind

\* So do the other steps of the walk.
LEMMA StepKeeps ==
  ASSUME WalkInv, Count \/ Fail \/ NextPage \/ Stop
  PROVE  WalkInv'
<1>1. /\ TypeOK /\ Matching \in SUBSET Rows /\ Cardinality(Matching) \in Nat
      /\ Echo \in Nat /\ offset \in Nat /\ Cardinality(page) \in Nat
  BY EchoIsLimit, MatchingRows, RowsFinite DEF WalkInv, TypeOK
<1>2. UNCHANGED <<table, row, request, page, seen, repeats, kept, arrived,
                  departed>>
  BY DEF Count, Fail, NextPage, Stop, walk
<1>3. Echo' = Echo /\ Matching' = Matching /\ (Short' <=> Short)
  <2>1. List' = List /\ Echo' = Echo
    BY <1>2, ListKept
  <2> QED BY <1>2, <2>1 DEF Matching, Match, Short
<1>4. CASE Count
  <2>1. TypeOK' /\ Ahead' = Ahead
    BY <1>1, <1>2, <1>3, <1>4 DEF Count, TypeOK, Ahead
  <2>2. Cardinality(Matching) <= total' + late'
    BY <1>1, <1>4 DEF Count
  <2>3. pc' = "select"
    BY <1>4 DEF Count
  <2> QED BY <1>2, <1>3, <2>1, <2>2, <2>3 DEF WalkInv
<1>5. CASE Fail
  <2>1. TypeOK' /\ Ahead' = Ahead /\ pc' = "count"
    BY <1>1, <1>2, <1>3, <1>5 DEF Fail, TypeOK, Ahead
  <2> QED BY <1>2, <1>3, <2>1 DEF WalkInv
<1>6. CASE NextPage
  <2>1. TypeOK' /\ Ahead' = Ahead /\ pc' = "count"
    BY <1>1, <1>2, <1>3, <1>6 DEF NextPage, TypeOK, Ahead
  <2> QED BY <1>2, <1>3, <2>1 DEF WalkInv
<1>7. CASE Stop
  <2>1. /\ TypeOK' /\ Ahead' = Ahead /\ UNCHANGED late
        /\ pc = "answered" /\ pc' \in {"short", "reached"}
        /\ pc' = "short" => Short
        /\ pc' = "reached" => Reached
    BY <1>1, <1>2, <1>3, <1>7 DEF Stop, TypeOK, Ahead
  <2> QED BY <1>2, <1>3, <2>1 DEF WalkInv
<1> QED BY <1>4, <1>5, <1>6, <1>7

\* The walk starts with it.
LEMMA WalkInit == Init => WalkInv
<1> SUFFICES ASSUME Init PROVE WalkInv
  OBVIOUS
<1>1. TypeOK
  <2>1. row \in [Rows -> {"absent"} \cup Statuses \cup RegistryStatuses]
    <3>1. CASE table = "jobs"
      BY <3>1 DEF Init, Statuses
    <3>2. CASE table = "models"
      BY <3>2 DEF Init, RegistryStatuses
    <3>3. CASE table = "datasets"
      BY <3>3 DEF Init, RegistryStatuses
    <3> QED BY <3>1, <3>2, <3>3 DEF Init, Tables
  <2>2. request \in [status : {None} \cup Statuses \cup RegistryStatuses,
                     limit : {None} \cup 1..MaxLimit]
    BY DEF Init
  <2> QED BY <2>1, <2>2, MatchingRows DEF Init, TypeOK
<1>2. Ahead = 0 /\ seen = {}
  BY DEF Init, Ahead
<1>3. Below(Matching, 0) = {}
  <2>1. \A r \in Matching : RankIn(Matching, r) \in Nat
    BY MatchingRows, RankType
  <2> QED BY <2>1 DEF Below
<1>4. repeats = 0 /\ arrived = 0 /\ departed = 0 /\ pc = "count"
      /\ kept = Matching
  BY DEF Init
<1>5. /\ Beyond(Matching, Ahead) \cap seen = {}
      /\ (kept \ seen) \cap Below(Matching, Ahead) = {}
  BY <1>2, <1>3
<1>6. Cardinality({}) = 0
  BY FS_EmptySet
<1> QED BY <1>1, <1>4, <1>5, <1>6 DEF WalkInv

-----------------------------------------------------------------------------
(***************************************************************************)
(* The theorems.                                                           *)
(***************************************************************************)

\* Whatever the changes between any two statements, the invariant holds.
THEOREM WalkInvariance == Spec => []WalkInv
<1>1. WalkInv /\ [Next]_vars => WalkInv'
  <2> SUFFICES ASSUME WalkInv, [Next]_vars PROVE WalkInv'
    OBVIOUS
  <2>1. CASE UNCHANGED vars
    <3>1. UNCHANGED <<table, row, request, pc, offset, total, page, seen,
                      repeats, kept, arrived, departed, late>>
      BY <2>1 DEF vars, walk
    <3>2. List' = List /\ Echo' = Echo
      BY <3>1, ListKept
    <3>3. Matching' = Matching /\ Ahead' = Ahead
      BY <3>1, <3>2 DEF Matching, Match, Ahead
    <3> QED BY <3>1, <3>2, <3>3 DEF WalkInv, TypeOK, Short, Reached
  <2>2. CASE Next
    BY <2>2, MoveKeeps, SelectKeeps, StepKeeps DEF Next
  <2> QED BY <2>1, <2>2
<1> QED BY <1>1, WalkInit, PTL DEF Spec

\* JobStore.List, ModelStore.List, DatasetStore.List and their handlers: a
\* client that goes by the limit of the response misses a row only for a row
\* that left the listing, or that arrived after its last COUNT.
THEOREM MissesExplained == Spec => []SkipsBounded
<1>1. WalkInv => SkipsBounded
  BY DEF WalkInv, SkipsBounded
<1> QED BY <1>1, WalkInvariance, PTL

\* And it is given a row again only for a row that arrived.
THEOREM RepeatsExplained == Spec => []RepeatsBounded
<1>1. WalkInv => RepeatsBounded
  <2> SUFFICES ASSUME WalkInv PROVE repeats <= arrived
    BY DEF RepeatsBounded
  <2>1. Cardinality(Beyond(Matching, Ahead) \cap seen) \in Nat
    BY MatchingRows, RowsFinite DEF Beyond
  <2> QED BY <2>1 DEF WalkInv, TypeOK
<1> QED BY <1>1, WalkInvariance, PTL
=============================================================================
