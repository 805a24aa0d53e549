-------------------------- MODULE MCModelRegistry --------------------------
(* Four revisions: one of unknown size, one at each limit, one beyond the  *)
(* upper one.  Counts and thresholds are in units of 500 million           *)
(* parameters.  The runs are numbered.                                     *)
EXTENDS ModelRegistry

Sizes == [v \in 1..4 |-> CASE v = 1 -> None [] v = 2 -> 17
                           [] v = 3 -> 30 [] v = 4 -> 31]

\* Runs are interchangeable, so every behaviour is, up to their names, one in
\* which they are numbered in the order of the revisions they register.  This
\* takes the place of a symmetry set, which liveness does not allow.
Sorted == \A r \in Runs : \A q \in 1..(r - 1) :
             None \in {arg[q].rev, arg[r].rev} \/ arg[q].rev <= arg[r].rev

\* A row registered before is ready, or else the default: an archived row that
\* is not the default is to the runs what a ready one is, and to the worker none.
SortedInit == Init /\ \A v \in DOMAIN models :
                         models[v].status = "archived" => models[v].default

\* FairSpec, so restricted.
SortedSpec == SortedInit /\ [][Next /\ Sorted']_vars /\ Fairness
=============================================================================
