----------------------------- MODULE JobPipeline -----------------------------
(***************************************************************************)
(* What runs inside the migration Job (k8s/client.go): the dump script in  *)
(* the init container, then the restore script in the main container, over *)
(* the databases of two servers that other clients go on using.            *)
(*                                                                         *)
(* Both scripts run under `set -euo pipefail`: a command that fails ends   *)
(* the container and, with BackoffLimit 0 and RestartPolicy Never, the Job.*)
(***************************************************************************)
CONSTANTS
    Database,       \* names of databases
    Excluded,       \* options.exclude_databases
    Formats,        \* the values of options.format that are used
    SourceDatabase, \* source.database and
    TargetDatabase  \* target.database, of the single-database mode

ASSUME OptionsAssumption ==
    /\ Excluded \subseteq Database
    /\ Formats \subseteq {"custom", "directory", "plain"}
    /\ SourceDatabase \in Database /\ TargetDatabase \in Database

VARIABLES
    options,    \* options.all_databases and options.format of this migration
    stage,      \* which part of the scripts runs
    source,     \* databases on the source server
    target,     \* database -> what the target server holds of it
    listed,     \* $DATABASES, the source's listing when the dump began
    todo,       \* what the running loop has still to do
    dumps       \* databases with a complete dump on the PVC

vars == <<options, stage, source, target, listed, todo, dumps>>

AllDatabases == options.all
Format == options.format

Stage == {"list", "dump", "restore", "succeeded", "failed"}
\* "foreign": a database that was there before; "partial": one the restore
\* wrote to and did not finish, or finished with errors.
Content == {"absent", "foreign", "empty", "partial", "complete"}

TypeOK ==
    /\ options \in [all : BOOLEAN, format : Formats]
    /\ stage \in Stage
    /\ source \subseteq Database
    /\ target \in [Database -> Content]
    /\ listed \subseteq Database /\ todo \subseteq Database /\ dumps \subseteq Database

Init ==
    /\ options \in [all : BOOLEAN, format : Formats]
    /\ stage = "list"
    /\ source \in SUBSET Database
    /\ target \in [Database -> {"absent", "foreign"}]
    /\ listed = {} /\ todo = {} /\ dumps = {}

Fails ==
    /\ stage' = "failed"
    /\ UNCHANGED <<options, source, target, listed, todo, dumps>>

\* The database on the target that gets the dump of db.
Restored(db) == IF AllDatabases THEN db ELSE TargetDatabase

\* Mutation: the names are compared before the list is set.
EveryoneWanted(db) == TRUE

\* EXCLUDE is looked at in the loop over all databases only.
Wanted(db) == ~(AllDatabases /\ db \in Excluded)

-----------------------------------------------------------------------------
(* buildSingleDatabaseDumpScript, buildAllDatabasesDumpScript              *)

\* The single mode has no listing and no exclusion.
Lists ==
    /\ stage = "list"
    /\ stage' = "dump"
    /\ listed' = IF AllDatabases THEN source ELSE {SourceDatabase}
    /\ todo' = listed'
    /\ UNCHANGED <<options, source, target, dumps>>

DumpSkips(db) ==
    /\ stage = "dump" /\ db \in todo /\ ~Wanted(db)
    /\ todo' = todo \ {db}
    /\ UNCHANGED <<options, stage, source, target, listed, dumps>>

\* pg_dump ends well only for a database that is still there.
Dumps(db) ==
    /\ stage = "dump" /\ db \in todo /\ Wanted(db) /\ db \in source
    /\ todo' = todo \ {db}
    /\ dumps' = dumps \cup {db}
    /\ UNCHANGED <<options, stage, source, target, listed>>

DumpBreaks(db) ==
    /\ stage = "dump" /\ db \in todo /\ Wanted(db)
    /\ Fails

\* DUMPED = 0 is an error; else the main container starts.
DumpEnds ==
    /\ stage = "dump" /\ todo = {}
    /\ stage' = IF dumps = {} THEN "failed" ELSE "restore"
    /\ todo' = dumps
    /\ UNCHANGED <<options, source, target, listed, dumps>>

-----------------------------------------------------------------------------
(* buildSingleDatabaseRestoreScript, buildAllDatabasesRestoreScript        *)

\* createDatabaseBash, in the loop over all databases only.
CreatesDatabase(db) ==
    /\ stage = "restore" /\ AllDatabases /\ db \in todo
    /\ target[db] = "absent"
    /\ target' = [target EXCEPT ![db] = "empty"]
    /\ UNCHANGED <<options, stage, source, listed, todo, dumps>>

\* pg_restore or psql ran through without an error.
Restores(db) ==
    /\ stage = "restore" /\ db \in todo
    /\ target[Restored(db)] # "absent"
    /\ target' = [target EXCEPT ![Restored(db)] = "complete"]
    /\ todo' = todo \ {db}
    /\ UNCHANGED <<options, stage, source, listed, dumps>>

\* Mutation: pg_restore's exit status is not looked at either.
AnyRestoreMayErr(db) ==
    /\ stage = "restore" /\ db \in todo
    /\ target[Restored(db)] # "absent"
    /\ target' = [target EXCEPT ![Restored(db)] = "partial"]
    /\ todo' = todo \ {db}
    /\ UNCHANGED <<options, stage, source, listed, dumps>>

\* psql -f without ON_ERROR_STOP goes on after an SQL error and exits 0.
RestoresWithErrors(db) ==
    /\ stage = "restore" /\ db \in todo /\ Format = "plain"
    /\ target[Restored(db)] # "absent"
    /\ target' = [target EXCEPT ![Restored(db)] = "partial"]
    /\ todo' = todo \ {db}
    /\ UNCHANGED <<options, stage, source, listed, dumps>>

\* A lost connection, a missing database, a failed CREATE DATABASE, or any
\* error pg_restore counted: a status other than 0.
RestoreBreaks(db) ==
    /\ stage = "restore" /\ db \in todo
    /\ target' \in {target, [target EXCEPT ![Restored(db)] =
                                IF @ = "absent" THEN @ ELSE "partial"]}
    /\ stage' = "failed"
    /\ UNCHANGED <<options, source, listed, todo, dumps>>

\* RESTORED = 0 cannot be: the init container left a dump.
RestoreEnds ==
    /\ stage = "restore" /\ todo = {}
    /\ stage' = "succeeded"
    /\ UNCHANGED <<options, source, target, listed, todo, dumps>>

-----------------------------------------------------------------------------
\* A command outside the loops fails (the listing, the dump of the roles), or
\* the pod is evicted, out of memory or deleted with its Job.
Killed == stage \notin {"succeeded", "failed"} /\ Fails

\* Environment: the source stays in use while the Job runs.
SourceChanges ==
    /\ stage \notin {"succeeded", "failed"}
    /\ \E db \in Database: source' \in {source \cup {db}, source \ {db}}
    /\ UNCHANGED <<options, stage, target, listed, todo, dumps>>

ScriptStep ==
    \/ Lists \/ DumpEnds \/ RestoreEnds
    \/ \E db \in Database:
        \/ DumpSkips(db) \/ Dumps(db) \/ DumpBreaks(db)
        \/ CreatesDatabase(db)
        \/ Restores(db) \/ RestoresWithErrors(db) \/ RestoreBreaks(db)

Next == ScriptStep \/ Killed \/ SourceChanges

Spec == Init /\ [][Next]_vars

-----------------------------------------------------------------------------
\* All that the source listed when the dump began and nobody excluded is on
\* the target in full, and that is not nothing.
EverythingRestored ==
    IF AllDatabases
    THEN /\ listed \ Excluded # {}
         /\ \A db \in listed \ Excluded: target[db] = "complete"
    ELSE target[TargetDatabase] = "complete"

\* A Job that succeeds with a format pg_restore reads has restored everything:
\* no loop steps over a database, and no container starts from what an
\* incomplete one left (client.go:434-450, 649-681; BackoffLimit and
\* RestartPolicy 98, 138).
ArchiveIsComplete ==
    stage = "succeeded" /\ Format # "plain" => EverythingRestored

\* The restore only writes what the source listed, once all of that is on the
\* PVC: until then, and for an excluded database for ever, the target stays
\* as it was, even if the name is there as well (client.go:435-438, 633-635).
TargetIsSafe ==
    \A db \in Database:
        target[db] \notin {"absent", "foreign"} =>
            IF AllDatabases
            THEN db \notin Excluded /\ listed \ Excluded = dumps
            ELSE db = TargetDatabase /\ dumps = {SourceDatabase}
-----------------------------------------------------------------------------
\* The script's last line "Migration finished successfully", of every format
\* (client.go:501, 542); psql of the plain format does not keep it.
SuccessIsComplete == stage = "succeeded" => EverythingRestored
=============================================================================
