----------------------------- MODULE MCDatabase -----------------------------
(* The objects are interchangeable, and so are the names of tables.         *)
EXTENDS Database, TLC

Interchangeable == Permutations(Dbs) \cup Permutations(Names)
=============================================================================
