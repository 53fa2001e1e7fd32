---------------------------- MODULE MCMigration ----------------------------
EXTENDS Migration, TLC

\* Processes and paths are interchangeable: no definition tells two apart.
Symmetry == Permutations(Workers) \union Permutations(Paths)
=============================================================================
