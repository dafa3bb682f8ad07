------------------------------ MODULE Releases ------------------------------
(***************************************************************************)
(* The scripts that put a release on the server (deploy/scripts): the      *)
(* first deployment, an upgrade with its backup and its migrations, and a  *)
(* rollback of the containers.  Every script runs under set -e: the first  *)
(* command that fails ends it, as does a lost connection, and what was     *)
(* done stays done.  An operator runs one script at a time.                *)
(*                                                                         *)
(* Releases are numbered, and a release brings the migrations of all       *)
(* before it: the schema is the number of the latest one migrated to.      *)
(* restore-postgres.sh is left out: a dump without --clean does not go     *)
(* into a database that has tables, so psql stops at its first statement.  *)
(***************************************************************************)
EXTENDS Naturals

CONSTANTS
    Tags,  \* numbers of the releases
    None   \* null

VARIABLES
    head,      \* the tag that is checked out
    image,     \* the release the images of api and web were built from
    running,   \* the release whose server runs, or None
    schema,    \* of the database, 0 when there is none
    backups,   \* the schemas in the files of BACKUP_DIR, in order
    recorded,  \* current-release.env
    script,    \* the script that runs, or Idle
    replaced,  \* only observes: the schemas that an upgrade migrated
    healthy    \* only observes: the releases whose containers were all healthy

vars == <<head, image, running, schema, backups, recorded, script, replaced, healthy>>

Idle == [name |-> None]
Steps == {"checked", "saved", "checkedOut", "built", "migrated", "started", "verified"}
Record == [current: Tags, previous: Tags, backup: Nat]

TypeOK ==
    /\ head \in Tags /\ image \in Tags \cup {None} /\ running \in Tags \cup {None}
    /\ schema \in Nat /\ backups \subseteq Nat
    /\ recorded \in Record \cup {None}
    /\ script \in {Idle} \cup [name: {"first", "upgrade", "rollback"}, step: Steps, target: Tags,
                               current: Tags, backup: Nat \cup {None}]
    /\ replaced \subseteq Nat /\ healthy \subseteq Tags

Init ==
    /\ head \in Tags
    /\ image = None /\ running = None /\ schema = 0 /\ backups = {} /\ recorded = None
    /\ script = Idle /\ replaced = {} /\ healthy = {}

at(name, step) == script.name = name /\ script.step = step
Goes(step) == script' = [script EXCEPT !.step = step]
Ends == script' = Idle

\* prisma migrate deploy skips what was applied and knows no way back.
migrated(release) == IF release > schema THEN release ELSE schema

-----------------------------------------------------------------------------
(* The beginnings.  The operator deploys until a release was healthy once,   *)
(* and upgrades or goes back from then on.                                   *)

Started(name, step, target) ==
    script' = [name |-> name, step |-> step, target |-> target, current |-> head, backup |-> None]

FirstDeploy ==
    /\ script = Idle /\ healthy = {}
    /\ Started("first", "checkedOut", head)
    /\ UNCHANGED <<head, image, running, schema, backups, recorded, replaced, healthy>>

\* What counts as deployed is what is checked out.
alreadyDeployed(target) == head = target

Upgrade ==
    /\ script = Idle /\ healthy # {}
    /\ \E target \in Tags : ~alreadyDeployed(target) /\ Started("upgrade", "checked", target)
    /\ UNCHANGED <<head, image, running, schema, backups, recorded, replaced, healthy>>

Rollback ==
    /\ script = Idle /\ healthy # {}
    /\ \E target \in Tags : Started("rollback", "saved", target)
    /\ UNCHANGED <<head, image, running, schema, backups, recorded, replaced, healthy>>

-----------------------------------------------------------------------------
(* The steps *)

\* Faulty: a dump is only made when there is none.
BackupOnce ==
    /\ at("upgrade", "checked")
    /\ backups' = IF backups = {} THEN {schema} ELSE backups
    /\ \E latest \in backups' :
          script' = [script EXCEPT !.step = "saved", !.backup = latest]
    /\ UNCHANGED <<head, image, running, schema, recorded, replaced, healthy>>

\* The backup is the last file of the directory, which the script has just made.
Backup ==
    /\ at("upgrade", "checked")
    /\ backups' = backups \cup {schema}
    /\ script' = [script EXCEPT !.step = "saved", !.backup = schema]
    /\ UNCHANGED <<head, image, running, schema, recorded, replaced, healthy>>

Checkout ==
    /\ script.name # None /\ script.step = "saved"
    /\ head' = script.target /\ Goes("checkedOut")
    /\ UNCHANGED <<image, running, schema, backups, recorded, replaced, healthy>>

\* The first deployment builds what is missing when it first uses it.
Build ==
    /\ script.name # None /\ script.step = "checkedOut"
    /\ image' = IF script.name = "first" /\ image # None THEN image ELSE head
    /\ Goes("built")
    /\ UNCHANGED <<head, running, schema, backups, recorded, replaced, healthy>>

\* Migrations are applied one by one, and one of them may fail.  A rollback
\* leaves the database to the containers.
Migrate ==
    /\ script.name \in {"first", "upgrade"} /\ script.step = "built"
    /\ \/ schema' = migrated(image) /\ Goes("migrated")
       \/ schema' \in schema .. migrated(image) /\ Ends
    /\ replaced' = IF script.name = "upgrade" THEN replaced \cup {schema} ELSE replaced
    /\ UNCHANGED <<head, image, running, backups, recorded, healthy>>

\* Faulty: the image of the API starts the server right away.
leftAlone(release) == schema

\* Its command applies the migrations and then starts the server, which does
\* not run when one of them fails.
migratedAtStart(release) == migrated(release)

Start ==
    /\ script.name # None
    /\ script.step = (IF script.name = "rollback" THEN "built" ELSE "migrated")
    /\ \/ running' = image /\ schema' = migratedAtStart(image)
       \/ running' = None /\ schema' \in schema .. migratedAtStart(image)
    /\ Goes("started")
    /\ UNCHANGED <<head, image, backups, recorded, replaced, healthy>>

\* Every container is asked for up to a minute.
HealthCheck ==
    /\ script.name # None /\ script.step = "started" /\ running # None
    /\ healthy' = healthy \cup {running}
    /\ IF script.name = "upgrade" THEN Goes("verified") ELSE Ends
    /\ UNCHANGED <<head, image, running, schema, backups, recorded, replaced>>

SaveActiveRelease ==
    /\ at("upgrade", "verified")
    /\ recorded' = [current |-> script.target, previous |-> script.current,
                    backup |-> script.backup]
    /\ Ends
    /\ UNCHANGED <<head, image, running, schema, backups, replaced, healthy>>

\* A command fails, or the operator is cut off.
Stop ==
    /\ script.name # None /\ Ends
    /\ UNCHANGED <<head, image, running, schema, backups, recorded, replaced, healthy>>

Next ==
    \/ FirstDeploy \/ Upgrade \/ Rollback
    \/ Backup \/ Checkout \/ Build \/ Migrate \/ Start \/ HealthCheck \/ SaveActiveRelease
    \/ Stop

-----------------------------------------------------------------------------
(* Properties *)

\* No release runs on a database that lacks its migrations.
SchemaCarriesRelease == running # None => schema >= running

\* Whatever an upgrade has migrated, a dump of the database before is there,
\* wherever the upgrade stopped and however often it was tried again.
MigratedIsBackedUp == replaced \subseteq backups

\* The release on record was healthy once, with a database that had its
\* migrations, and the dump on record is there.
RecordIsProven ==
    recorded # None =>
        /\ recorded.current \in healthy /\ schema >= recorded.current
        /\ recorded.backup \in backups

\* "Target release is already deployed." (upgrade-release.sh:57): an upgrade
\* is refused for this only when the release runs.
DeployedIsRunning ==
    \A target \in Tags :
        script = Idle /\ running # None /\ alreadyDeployed(target) => running = target
=============================================================================
