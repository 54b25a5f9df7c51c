------------------------------- MODULE Upgrade -------------------------------
(***************************************************************************)
(* db upgrade: the schema of the active file is brought to the current     *)
(* version in one transaction, after a copy of the file was put beside it. *)
(*                                                                         *)
(* An upgrade is a run like those of Backups and shares the file with them.*)
(* It decides from the schema status, copies, and only then takes SQLite's *)
(* writer lock and reads the version again; several upgrades, backups and  *)
(* restores may be under way, and each may fail or be killed between two   *)
(* steps.  What a migration does to the rows is in module Migrations.      *)
(***************************************************************************)
EXTENDS Backups, Migrations

CONSTANT Origins    \* schema and reported version a file may start with

ASSUME UpgradeConstants ==
    Origins \subseteq {c \in [schema : 0 .. SchemaVersion, version : 0 .. SchemaVersion] :
                         c.version \in {0, c.schema}}

Current(c) == c.version = SchemaVersion

(***************************************************************************)
(* BEGIN IMMEDIATE: one upgrade at a time is inside its transaction, and   *)
(* until it ends nobody else commits to the file.                          *)
(***************************************************************************)
WriterLocked == \E u \in Upgrades : run[u].pc = "migrating"

(***************************************************************************)
(* get_schema_status and what upgrade_database makes of it.  A current     *)
(* file ends the command; a missing one will be created and needs no copy; *)
(* a broken one is refused.  The name of the copy is the first that does   *)
(* not exist, but nothing reserves it.                                     *)
(***************************************************************************)
UpgradeStart(u) ==
    /\ MayStart(u)
    /\ \/ /\ active.state = "absent"
          /\ run' = [run EXCEPT ![u] = [Idle EXCEPT !.pc = "begin"]]
       \/ /\ active.state \in {"empty", "whole"} /\ ~Current(active)
          /\ \E n \in Available("bak") :
               run' = [run EXCEPT ![u] = [Idle EXCEPT !.pc = "preserving", !.name = n]]
    /\ UNCHANGED <<clock, active, files>>

(***************************************************************************)
(* Mutant of UpgradePreserve: a file of that name is taken for the copy.   *)
(***************************************************************************)
UpgradePreserveOnce(u) ==
    /\ run[u].pc = "preserving"
    /\ IF \E n \in Names : n.kind = "bak" /\ n.time = clock /\ Exists(n)
       THEN UNCHANGED files ELSE Store(run[u].name, active)
    /\ Goto(u, "begin")
    /\ UNCHANGED <<clock, active>>

(***************************************************************************)
(* _backup_database: one read transaction copies the file, over whatever   *)
(* has the name by now.  The copy is not checked.                          *)
(***************************************************************************)
UpgradePreserve(u) ==
    /\ run[u].pc = "preserving"
    /\ active.state # "absent"
    /\ Store(run[u].name, active)
    /\ Goto(u, "begin")
    /\ UNCHANGED <<clock, active>>

(***************************************************************************)
(* The copy fails or is killed half way: a new file is left empty, and one *)
(* that existed keeps what it had, since copying is a transaction too.     *)
(***************************************************************************)
UpgradePreserveStops(u) ==
    /\ Faults /\ run[u].pc = "preserving"
    /\ ~Exists(run[u].name)
    /\ Store(run[u].name, Empty)
    /\ End(u, "failed")
    /\ UNCHANGED <<clock, active>>

(***************************************************************************)
(* The connection creates the file if there is none; then BEGIN IMMEDIATE, *)
(* and the version is read again, unless the file has become unreadable:   *)
(* staged is what the transaction sees.                                    *)
(***************************************************************************)
UpgradeBegin(u) ==
    /\ run[u].pc = "begin"
    /\ ~WriterLocked /\ active.state # "broken"
    /\ active' = IF active.state = "absent" THEN Empty ELSE active
    /\ run' = [run EXCEPT ![u].pc = "migrating", ![u].staged = active']
    /\ UNCHANGED <<clock, files>>

Migrated(c) == Outdated(c.schema + 1, c.schema + 1, c.writes)

(***************************************************************************)
(* Mutant of UpgradeMigrate: each migration is committed as it is done.    *)
(***************************************************************************)
UpgradeMigrateCommits(u) ==
    /\ run[u].pc = "migrating"
    /\ run[u].staged.schema < SchemaVersion
    /\ run' = [run EXCEPT ![u].staged = Migrated(@)]
    /\ active' = run'[u].staged
    /\ UNCHANGED <<clock, files>>

(***************************************************************************)
(* The next migration of the registry and its PRAGMA user_version.         *)
(***************************************************************************)
UpgradeMigrate(u) ==
    /\ run[u].pc = "migrating"
    /\ run[u].staged.schema < SchemaVersion
    /\ run' = [run EXCEPT ![u].staged = Migrated(@)]
    /\ UNCHANGED <<clock, active, files>>

(***************************************************************************)
(* All tables are of the current schema.  The version is recorded also     *)
(* where no migration was left to run, and the transaction commits.        *)
(***************************************************************************)
UpgradeCommit(u) ==
    /\ run[u].pc = "migrating"
    /\ run[u].staged.schema = SchemaVersion
    /\ active' = Whole(run[u].staged.writes)
    /\ End(u, "done")
    /\ UNCHANGED <<clock, files>>

(***************************************************************************)
(* ROLLBACK, also when the lock is not free in time or a check fails.      *)
(***************************************************************************)
UpgradeFails(u) ==
    /\ run[u].pc \in {"preserving", "begin", "migrating"}
    /\ \/ Faults
       \/ run[u].pc = "preserving" /\ active.state = "absent"
       \/ run[u].pc = "begin" /\ (WriterLocked \/ active.state = "broken")
    /\ End(u, "failed")
    /\ UNCHANGED <<clock, active, files>>

UpgradeStep(u) ==
    \/ UpgradeStart(u) \/ UpgradePreserve(u) \/ UpgradePreserveStops(u)
    \/ UpgradeBegin(u) \/ UpgradeMigrate(u) \/ UpgradeCommit(u) \/ UpgradeFails(u)

(***************************************************************************)
(* There may be a file of any earlier schema, with what was entered in it. *)
(***************************************************************************)
UpgradeInit ==
    /\ clock = 0
    /\ active \in {Absent} \cup {Outdated(c.schema, c.version, W) :
                                   c \in Origins, W \in SUBSET Writes}
    /\ \E old \in {Absent, Whole({})} \cup {Outdated(c.schema, c.version, {}) : c \in Origins} :
         OneOldBackup(old)
    /\ run = [r \in Runs |-> Idle]

(***************************************************************************)
(* The other commands refuse a file that is not current; one that finds it *)
(* current still waits for the lock before it writes.                      *)
(***************************************************************************)
UpgradeNext ==
    \/ \E u \in Upgrades : UpgradeStep(u)
    \/ Next /\ (WriterLocked => UNCHANGED active)

UpgradeSpec == UpgradeInit /\ [][UpgradeNext]_vars

-----------------------------------------------------------------------------
(* Properties *)

(***************************************************************************)
(* While an upgrade is inside its transaction, the one change the database *)
(* may see is that upgrade's commit: from the version it had straight to   *)
(* the current one, with every change that was committed before.  Neither  *)
(* a kill between two migrations, nor a second upgrade that found the same *)
(* old version, nor a command that runs in between can break it.           *)
(***************************************************************************)
UpgradeIsAtomic ==
    [][ WriterLocked /\ active' # active
          => /\ active' = Whole(active.writes)
             /\ \E u \in Upgrades : run[u].pc = "migrating" /\ run'[u].pc = "done"
      ]_vars

(***************************************************************************)
(* When the old schema is given up, a file beside the database holds just  *)
(* what it replaces, also when earlier upgrades of that second failed and  *)
(* left files, and when several upgrades overlap.                          *)
(***************************************************************************)
PreUpgradeKept ==
    [][ active.state = "whole" /\ ~Current(active) /\ active' # active
          => \E n \in Names : files'[n] = active
      ]_vars

(***************************************************************************)
(* An old schema of Upgrade stands for every earlier version.              *)
(***************************************************************************)
StandsFor(schema) ==
    IF schema = SchemaVersion THEN {CurrentVersion} ELSE 0 .. CurrentVersion - 1

(***************************************************************************)
(* A migration of Upgrade keeps what was entered, and this is why it may:  *)
(* whatever a transaction finds or has reached, the migrations that are    *)
(* left lose, merge and renumber no row, and an upgrade that starts there  *)
(* takes the database for the version it is, so that none is skipped or    *)
(* run twice.                                                              *)
(***************************************************************************)
MigrationsKeepRows ==
    \A u \in Upgrades : run[u].pc = "migrating"
        => StandsFor(run[u].staged.schema) \subseteq SafeVersions
=============================================================================
