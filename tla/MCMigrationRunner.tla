---------------------------- MODULE MCMigrationRunner ----------------------------
(* MigrationRunner with a history of several chunks and a last one not full.    *)
EXTENDS MigrationRunner

ROWS == 5
CHUNK == 2
=============================================================================
