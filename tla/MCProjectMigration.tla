------------------------- MODULE MCProjectMigration -------------------------
(* Instances of ProjectMigration for TLC. *)
EXTENDS ProjectMigration, TLC

\* Names, contents and requests are interchangeable.
MigrationSymmetry == Permutations(Names) \cup Permutations(Contents)
                     \cup Permutations(Requests)
=============================================================================
