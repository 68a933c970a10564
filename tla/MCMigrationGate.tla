--------------------------- MODULE MCMigrationGate ---------------------------
(* An instance of MigrationGate for TLC.                                   *)
EXTENDS MigrationGate, TLC

CONSTANTS s1, s2, t1,         \* processes
          freezer, exporter, importer, writer, newcomer

\* Two processes on the source, one of which only writes; one on the target.
Placement == writer :> s1 @@ freezer :> s1 @@ exporter :> s2
             @@ newcomer :> t1 @@ importer :> t1
IdSymmetry == Permutations(MigrationIds)
=============================================================================
