---------------------------- MODULE MCExecution ----------------------------
(* The datasets that the configuration gives to Datasets.                  *)
EXTENDS Execution, TLC

File(s) == [path_type |-> "object", suffix |-> <<s>>, text |-> TRUE]
Directory(s, t) == [path_type |-> "prefix", suffix |-> s, text |-> t]

\* Single files of every kind of extension; directories of no file, of one, of
\* two alike, of two extensions with one loader, of two loaders, with a file that
\* no loader knows, and without a text column.
Samples ==
    {File(s) : s \in {"csv", "parquet", "jsonl", "txt", "none"}}
      \cup {Directory(s, TRUE) : s \in {<<>>, <<"csv">>, <<"csv", "csv">>,
                                        <<"json", "jsonl">>, <<"csv", "json">>,
                                        <<"csv", "txt">>}}
      \cup {Directory(<<"csv">>, FALSE)}

\* All the registrations together, and all but one beside a job: the bound
\* that keeps the instance small.
OneApart == job' = "none" \/ \E r \in Runs : pc'[r] = "start"

ApartSpec == ExecInit /\ [][ExecNext /\ OneApart]_<<vars, exec>>

\* Runs and attempts are interchangeable.
Symmetry == Permutations(Runs) \cup Permutations(Attempts)
=============================================================================
