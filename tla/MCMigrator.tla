----------------------------- MODULE MCMigrator -----------------------------
EXTENDS Migrator, TLC

CONSTANTS old, new, twin

\* The newer build has a migration that sorts before the last of the older.
MCServer == {old, new, twin}
MCBuild == old :> {1, 3} @@ new :> {1, 2, 3} @@ twin :> {1, 2, 3}
MCSeedRows == <<"upsert", "release", "release">>
=============================================================================
