------------------------------ MODULE MCRestore ------------------------------
(* The plans that a restore is model-checked with. *)
EXTENDS Restore

\* Two component roots, one of which did not exist, and a server database.
TwoRoots == [kind |-> <<"directory", "directory">>, original |-> {1}, inside |-> 0, server |-> TRUE]
\* A root, a sidecar and the file of a SQLite database beside the data root.
SQLiteBeside == [kind |-> <<"directory", "sidecar", "file">>, original |-> {1, 2, 3},
                 inside |-> 0, server |-> FALSE]
\* The data root with the SQLite file inside it.
SQLiteInside == [kind |-> <<"directory", "file">>, original |-> {1, 2}, inside |-> 1, server |-> FALSE]

SafePlans  == {TwoRoots, SQLiteBeside}
InsidePlan == {SQLiteInside}
=============================================================================
