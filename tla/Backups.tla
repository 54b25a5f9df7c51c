------------------------------- MODULE Backups -------------------------------
(***************************************************************************)
(* How AutoRentLedger keeps the database file safe: db backup, db restore  *)
(* and the scheduled daily job with its retention of old backups.          *)
(*                                                                         *)
(* None of them holds a lock from one step to the next.  Each is a process *)
(* that checks a file, copies it, checks the copy and goes on, while other *)
(* commands commit to the database, and it may fail or be killed between   *)
(* any two steps.  The ledger inside a file is the set of changes that     *)
(* were committed to it.                                                   *)
(***************************************************************************)
EXTENDS Naturals, FiniteSets

CONSTANTS
    Dailies,       \* runs of the daily job that may overlap; each may be run again
    Copies,        \* runs of db backup
    Restores,      \* runs of db restore
    Upgrades,      \* runs of db upgrade, whose steps are in module Upgrade
    SchemaVersion, \* CURRENT_SCHEMA_VERSION
    Writes,        \* changes that commands, sync and rent generation commit
    Keep,          \* --keep-backups
    MaxTime,       \* bound on the seconds that pass
    MaxSuffix,     \* bound on the files named in one second
    Quiesced,      \* TRUE when nothing else runs during a restore
    Damages,       \* TRUE when the active database may become unhealthy
    Faults         \* TRUE when a run may be killed or fail for an outside reason

ASSUME BackupConstants ==
    /\ Keep \in Nat \ {0} /\ MaxTime \in Nat /\ MaxSuffix \in Nat
    /\ Quiesced \in BOOLEAN /\ Damages \in BOOLEAN /\ Faults \in BOOLEAN
    /\ Dailies \cap Copies = {}
    /\ (Dailies \cup Copies) \cap Restores = {}
    /\ (Dailies \cup Copies \cup Restores) \cap Upgrades = {}
    /\ SchemaVersion \in Nat \ {0}

VARIABLES
    clock,         \* seconds of UTC, which name the files
    active,        \* the active database file
    files,         \* the backup directory: the content of each name
    run            \* where each run stands

vars == <<clock, active, files, run>>

Runs == Dailies \cup Copies \cup Restores \cup Upgrades

-----------------------------------------------------------------------------
(* Files *)

(***************************************************************************)
(* schema is the version whose tables a file has, version the user_version *)
(* it reports: 0 in a file made before versions were recorded.             *)
(***************************************************************************)
Content == [state : {"absent", "empty", "broken", "whole"},
            schema : 0 .. SchemaVersion, version : 0 .. SchemaVersion,
            writes : SUBSET Writes]

Blank(state) == [state |-> state, schema |-> 0, version |-> 0, writes |-> {}]
Absent == Blank("absent")
Empty  == Blank("empty")
Broken == Blank("broken")

Outdated(schema, version, W) ==
    [state |-> "whole", schema |-> schema, version |-> version, writes |-> W]
Whole(W) == Outdated(SchemaVersion, SchemaVersion, W)

(***************************************************************************)
(* check_database: current schema, integrity, foreign keys and ledger.     *)
(***************************************************************************)
Healthy(c) == c.state = "whole" /\ c.version = SchemaVersion

Names == [kind : {"daily", "manual", "safety", "failed", "bak"},
          time : 0 .. MaxTime, suffix : 0 .. MaxSuffix]
NoName == [kind |-> "none", time |-> 0, suffix |-> 0]

Exists(n) == files[n].state # "absent"

(***************************************************************************)
(* The name of this second without a suffix, or with the first free one.   *)
(***************************************************************************)
Available(kind) ==
    {n \in Names : /\ n.kind = kind /\ n.time = clock /\ ~Exists(n)
                   /\ \A m \in Names :
                        m.kind = kind /\ m.time = clock /\ m.suffix < n.suffix
                          => Exists(m)}

DailyFiles == {n \in Names : n.kind = "daily" /\ Exists(n)}

Newer(g, f) == g.time > f.time \/ (g.time = f.time /\ g.suffix > f.suffix)

(***************************************************************************)
(* Mutant of ToDelete: keeps Keep files besides the current one.           *)
(***************************************************************************)
ToDeleteKeepingOneMore(current) ==
    {f \in DailyFiles \ {current} :
       Cardinality({g \in DailyFiles \ {current} : Newer(g, f)}) >= Keep}

(***************************************************************************)
(* Mutants of ToDelete: the current backup takes its place among the others *)
(* by its date; the oldest others are kept.                                *)
(***************************************************************************)
ToDeleteByDate(current) ==
    {f \in DailyFiles : Cardinality({g \in DailyFiles : Newer(g, f)}) >= Keep}

ToDeleteNewest(current) ==
    {f \in DailyFiles \ {current} :
       Cardinality({g \in DailyFiles \ {current} : Newer(f, g)}) >= Keep - 1}

(***************************************************************************)
(* prune_daily_backups: the daily files that are neither the current one   *)
(* nor among the Keep - 1 newest others.                                   *)
(***************************************************************************)
ToDelete(current) ==
    {f \in DailyFiles \ {current} :
       Cardinality({g \in DailyFiles \ {current} : Newer(g, f)}) >= Keep - 1}

-----------------------------------------------------------------------------
(* Runs *)

(***************************************************************************)
(* name is the file a run makes, source the candidate of a restore, staged *)
(* its temporary copy, todo what retention still has to delete.  verified, *)
(* base and mine are history: whether the backup was verified, what was    *)
(* committed when the run began, and what it committed itself.             *)
(***************************************************************************)
Idle == [pc |-> "idle", name |-> NoName, source |-> NoName, staged |-> Absent,
         todo |-> {}, verified |-> FALSE, base |-> {}, mine |-> {}]

Ended(r) == run[r].pc \in {"idle", "done", "failed"}

(***************************************************************************)
(* The runbook's recovery sequence: everything else is stopped first.      *)
(***************************************************************************)
MayStart(r) ==
    /\ Ended(r)
    /\ Quiesced => /\ \A s \in Restores : Ended(s)
                   /\ r \in Restores => \A s \in Runs : Ended(s)

MayCommit == Quiesced => \A s \in Restores : Ended(s)

Goto(r, pc) == run' = [run EXCEPT ![r].pc = pc]

(***************************************************************************)
(* A run ends; its temporary files go with it.                             *)
(***************************************************************************)
End(r, pc) ==
    run' = [run EXCEPT ![r].pc = pc, ![r].staged = Absent, ![r].todo = {}]

Store(n, c) == files' = [files EXCEPT ![n] = c]

(***************************************************************************)
(* There may be a database, and an older backup of it or of another one.   *)
(***************************************************************************)
OneOldBackup(old) ==
    files = [n \in Names |->
               IF n = [kind |-> "manual", time |-> 0, suffix |-> 0]
               THEN old ELSE Absent]

Init ==
    /\ clock = 0
    /\ active \in {Whole({}), Absent}
    /\ \E old \in {Absent} \cup {Whole(W) : W \in SUBSET Writes} : OneOldBackup(old)
    /\ run = [r \in Runs |-> Idle]

-----------------------------------------------------------------------------
(* backup_database, which all three use *)

(***************************************************************************)
(* daily: require_current_schema, then daily_backup_destination.  db       *)
(* backup: the default destination.                                        *)
(***************************************************************************)
BackupStart(r) ==
    /\ r \in Dailies \cup Copies /\ MayStart(r)
    /\ active.state # "absent"
    /\ \E n \in Available(IF r \in Dailies THEN "daily" ELSE "manual") :
         run' = [run EXCEPT ![r] = [Idle EXCEPT !.pc = "named", !.name = n,
                                                !.base = active.writes]]
    /\ UNCHANGED <<clock, active, files>>

(***************************************************************************)
(* The source is healthy, the name is still free, and the file is created  *)
(* empty to reserve it.                                                    *)
(***************************************************************************)
BackupTouch(r) ==
    /\ run[r].pc = "named"
    /\ Healthy(active)
    /\ ~Exists(run[r].name)
    /\ Store(run[r].name, Empty)
    /\ Goto(r, "touched")
    /\ UNCHANGED <<clock, active>>

(***************************************************************************)
(* _sqlite_snapshot: one read transaction copies what is committed now.    *)
(* If the reserved file was deleted, connecting creates it again.          *)
(***************************************************************************)
BackupSnapshot(r) ==
    /\ run[r].pc = "touched"
    /\ files[run[r].name].state \in {"absent", "empty"}
    /\ active.state # "absent"
    /\ Store(run[r].name, active)
    /\ Goto(r, "copied")
    /\ UNCHANGED <<clock, active>>

BackupVerify(r) ==
    /\ run[r].pc = "copied"
    /\ Healthy(files[run[r].name])
    /\ run' = [run EXCEPT ![r].verified = TRUE,
                          ![r].pc = IF r \in Dailies THEN "sync"
                                    ELSE IF r \in Copies THEN "done" ELSE "saved"]
    /\ UNCHANGED <<clock, active, files>>

-----------------------------------------------------------------------------
(* run_daily_operation after its backup *)

(***************************************************************************)
(* Sync commits each raw email and each payment event on its own.          *)
(***************************************************************************)
DailySync(d) ==
    /\ run[d].pc = "sync"
    /\ Healthy(active)
    /\ \E w \in Writes \ active.writes :
         /\ active' = Whole(active.writes \cup {w})
         /\ run' = [run EXCEPT ![d].mine = @ \cup {w}]
    /\ UNCHANGED <<clock, files>>

(***************************************************************************)
(* Sync is over.  --skip-obligations goes straight to retention.           *)
(***************************************************************************)
DailySynced(d) ==
    /\ run[d].pc = "sync"
    /\ \E pc \in {"generate", "list"} : Goto(d, pc)
    /\ UNCHANGED <<clock, active, files>>

(***************************************************************************)
(* The rent of the current month, in one transaction, if any is missing;   *)
(* the refresh of the attention summary that follows only reads.           *)
(***************************************************************************)
DailyGenerate(d) ==
    /\ run[d].pc = "generate"
    /\ Healthy(active)
    /\ \E W \in {{}} \cup {{w} : w \in Writes \ active.writes} :
         /\ active' = Whole(active.writes \cup W)
         /\ run' = [run EXCEPT ![d].pc = "list", ![d].mine = @ \cup W]
    /\ UNCHANGED <<clock, files>>

DailyList(d) ==
    /\ run[d].pc = "list"
    /\ Exists(run[d].name)
    /\ run' = [run EXCEPT ![d].pc = "prune", ![d].todo = ToDelete(run[d].name)]
    /\ UNCHANGED <<clock, active, files>>

(***************************************************************************)
(* The files to delete, newest first.  One that is gone already is an      *)
(* error, which ends the run.                                              *)
(***************************************************************************)
DailyDelete(d) ==
    /\ run[d].pc = "prune"
    /\ \E f \in run[d].todo :
         /\ \A g \in run[d].todo \ {f} : Newer(f, g)
         /\ Exists(f)
         /\ Store(f, Absent)
         /\ run' = [run EXCEPT ![d].todo = @ \ {f}]
    /\ UNCHANGED <<clock, active>>

DailyDone(d) ==
    /\ run[d].pc = "prune"
    /\ run[d].todo = {}
    /\ End(d, "done")
    /\ UNCHANGED <<clock, active, files>>

-----------------------------------------------------------------------------
(* restore_database *)

(***************************************************************************)
(* Any healthy file may be the candidate.                                  *)
(***************************************************************************)
RestoreStart(r) ==
    /\ MayStart(r)
    /\ \E n \in Names :
         /\ Healthy(files[n])
         /\ run' = [run EXCEPT ![r] = [Idle EXCEPT !.pc = "staging", !.source = n]]
    /\ UNCHANGED <<clock, active, files>>

(***************************************************************************)
(* Mutants of RestoreStage: the candidate is copied over the active file,  *)
(* and the safety backup is left out.                                      *)
(***************************************************************************)
RestoreStageInPlace(r) ==
    /\ run[r].pc = "staging"
    /\ Healthy(files[run[r].source])
    /\ active' = Empty
    /\ run' = [run EXCEPT ![r].pc = "saved", ![r].staged = files[run[r].source]]
    /\ UNCHANGED <<clock, files>>

RestoreStageUnsaved(r) ==
    /\ run[r].pc = "staging"
    /\ Healthy(files[run[r].source])
    /\ run' = [run EXCEPT ![r].pc = "saved", ![r].staged = files[run[r].source]]
    /\ UNCHANGED <<clock, active, files>>

(***************************************************************************)
(* The candidate is copied to a temporary file, which must be healthy.  If *)
(* there is an active database, its safety backup is next.                 *)
(***************************************************************************)
RestoreStage(r) ==
    /\ run[r].pc = "staging"
    /\ Healthy(files[run[r].source])
    /\ \/ /\ active.state = "absent"
          /\ run' = [run EXCEPT ![r].pc = "saved", ![r].staged = files[run[r].source]]
       \/ /\ active.state # "absent"
          /\ \E n \in Available("safety") :
               run' = [run EXCEPT ![r].pc = "named", ![r].name = n,
                                  ![r].staged = files[run[r].source]]
    /\ UNCHANGED <<clock, active, files>>

(***************************************************************************)
(* os.replace, then the old journal files are removed.                     *)
(***************************************************************************)
RestoreReplace(r) ==
    /\ run[r].pc = "saved" /\ r \in Restores
    /\ active' = run[r].staged
    /\ Goto(r, "replaced")
    /\ UNCHANGED <<clock, files>>

RestoreDone(r) ==
    /\ run[r].pc = "replaced"
    /\ Healthy(active)
    /\ End(r, "done")
    /\ UNCHANGED <<clock, active, files>>

(***************************************************************************)
(* Rollback: the safety backup is copied to a temporary file, checked, and *)
(* put in place of what was restored.  The run ends as failed either way.  *)
(***************************************************************************)
RollbackStage(r) ==
    /\ run[r].pc = "rollback"
    /\ Healthy(files[run[r].name])
    /\ run' = [run EXCEPT ![r].pc = "rolling", ![r].staged = files[run[r].name]]
    /\ UNCHANGED <<clock, active, files>>

RollbackReplace(r) ==
    /\ run[r].pc = "rolling"
    /\ active' = run[r].staged
    /\ End(r, "failed")
    /\ UNCHANGED <<clock, files>>

-----------------------------------------------------------------------------
(* Failures *)

(***************************************************************************)
(* What a step finds that makes it raise.                                  *)
(***************************************************************************)
Refused(r) ==
    LET at == run[r] IN
    \/ at.pc \in {"named", "sync", "generate", "replaced"} /\ ~Healthy(active)
    \/ at.pc = "named" /\ Exists(at.name)
    \/ at.pc = "touched" /\ (active.state = "absent"
                              \/ files[at.name].state \notin {"absent", "empty"})
    \/ at.pc \in {"copied", "rollback"} /\ ~Healthy(files[at.name])
    \/ at.pc = "list" /\ ~Exists(at.name)
    \/ at.pc = "prune" /\ \E f \in at.todo :
                             ~Exists(f) /\ \A g \in at.todo \ {f} : Newer(f, g)
    \/ at.pc = "staging" /\ ~Healthy(files[at.source])

(***************************************************************************)
(* Any step may also raise for a reason outside: a database that is locked *)
(* by a writer, a full disk, Gmail.  A backup that fails removes its file. *)
(***************************************************************************)
BackupFails(r) ==
    /\ run[r].pc \in {"touched", "copied"}
    /\ Faults \/ Refused(r)
    /\ Store(run[r].name, Absent)
    /\ End(r, "failed")
    /\ UNCHANGED <<clock, active>>

StepFails(r) ==
    /\ run[r].pc \in {"named", "sync", "generate", "list", "prune", "staging",
                      "saved", "rollback", "rolling"}
    /\ Faults \/ Refused(r)
    /\ End(r, "failed")
    /\ UNCHANGED <<clock, active, files>>

(***************************************************************************)
(* Mutant of RestoreFails: rolls back to a safety backup it never made.    *)
(***************************************************************************)
RestoreFailsRollsBack(r) ==
    /\ run[r].pc = "replaced"
    /\ Faults \/ Refused(r)
    /\ Goto(r, "rollback")
    /\ UNCHANGED <<clock, active, files>>

(***************************************************************************)
(* After the replacement: roll back, or, where there was no database       *)
(* before, put the restored file aside.                                    *)
(***************************************************************************)
RestoreFails(r) ==
    /\ run[r].pc = "replaced"
    /\ Faults \/ Refused(r)
    /\ \/ /\ run[r].name # NoName
          /\ Goto(r, "rollback")
          /\ UNCHANGED <<active, files>>
       \/ /\ run[r].name = NoName
          /\ \E n \in Available("failed") : Store(n, active)
          /\ active' = Absent
          /\ End(r, "failed")
    /\ UNCHANGED clock

(***************************************************************************)
(* The process is killed, or the machine stops.                            *)
(***************************************************************************)
Crash(r) ==
    /\ Faults /\ ~Ended(r)
    /\ End(r, "idle")
    /\ UNCHANGED <<clock, active, files>>

-----------------------------------------------------------------------------
(* The rest of the world *)

(***************************************************************************)
(* Another command commits a change.                                       *)
(***************************************************************************)
Commit(w) ==
    /\ MayCommit
    /\ Healthy(active) /\ w \notin active.writes
    /\ active' = Whole(active.writes \cup {w})
    /\ UNCHANGED <<clock, files, run>>

Damage ==
    /\ Damages /\ Healthy(active)
    /\ active' = Broken
    /\ UNCHANGED <<clock, files, run>>

(***************************************************************************)
(* Time passes; the clock of the host may also be set back.                *)
(***************************************************************************)
Tick ==
    /\ clock' \in (0 .. MaxTime) \ {clock}
    /\ UNCHANGED <<active, files, run>>

BackupStep(r) ==
    BackupStart(r) \/ BackupTouch(r) \/ BackupSnapshot(r) \/ BackupVerify(r)

DailyStep(d) ==
    \/ DailySync(d) \/ DailySynced(d) \/ DailyGenerate(d)
    \/ DailyList(d) \/ DailyDelete(d) \/ DailyDone(d)

RestoreStep(r) ==
    \/ RestoreStart(r) \/ RestoreStage(r) \/ RestoreReplace(r) \/ RestoreDone(r)
    \/ RollbackStage(r) \/ RollbackReplace(r)

Next ==
    \/ \E r \in Runs : BackupStep(r) \/ BackupFails(r) \/ StepFails(r) \/ Crash(r)
    \/ \E d \in Dailies : DailyStep(d)
    \/ \E r \in Restores : RestoreStep(r) \/ RestoreFails(r)
    \/ \E w \in Writes : Commit(w)
    \/ Damage
    \/ Tick

Spec == Init /\ [][Next]_vars

(***************************************************************************)
(* The owner runs a restore until it has ended, and runs it again.         *)
(***************************************************************************)
RestoreGoesOn(r) ==
    \/ RestoreStep(r) \/ RestoreFails(r)
    \/ BackupTouch(r) \/ BackupSnapshot(r) \/ BackupVerify(r) \/ BackupFails(r)
    \/ StepFails(r)

FairSpec == Spec /\ \A r \in Restores : WF_vars(RestoreGoesOn(r))

-----------------------------------------------------------------------------
(* Properties *)

(***************************************************************************)
(* The type invariant.  A run that works on a file of its own has named it. *)
(***************************************************************************)
TypeOK ==
    /\ clock \in 0 .. MaxTime
    /\ active \in Content /\ files \in [Names -> Content]
    /\ run \in [Runs ->
         [pc : {"idle", "named", "touched", "copied", "sync", "generate", "list",
                "prune", "staging", "saved", "replaced", "rollback", "rolling",
                "preserving", "begin", "migrating", "done", "failed"},
          name : Names \cup {NoName}, source : Names \cup {NoName},
          staged : Content, todo : SUBSET Names, verified : BOOLEAN,
          base : SUBSET Writes, mine : SUBSET Writes]]
    /\ \A r \in Runs :
         run[r].pc \in {"named", "touched", "copied", "rollback", "rolling", "preserving"}
           => run[r].name \in Names

(***************************************************************************)
(* A daily run can be undone: from the moment its backup is verified until *)
(* the job is started again, and whether the run succeeds, fails or is     *)
(* killed, the backup is there, is healthy, holds all that was committed   *)
(* when the run began and nothing that the run committed.                  *)
(***************************************************************************)
DailyUndoable ==
    \A d \in Dailies : run[d].verified =>
      LET saved == files[run[d].name] IN
        /\ Healthy(saved)
        /\ run[d].base \subseteq saved.writes
        /\ run[d].mine \cap saved.writes = {}

(***************************************************************************)
(* A daily run that succeeds leaves at most Keep daily backups, also when  *)
(* earlier runs were killed and left files, or failed to delete them.      *)
(***************************************************************************)
RetentionBound ==
    \A d \in Dailies : run[d].pc = "done" => Cardinality(DailyFiles) <= Keep

(***************************************************************************)
(* Retention takes a backup only when the current one and Keep - 1 newer   *)
(* ones than it stay, even if the clock was set back between the runs.     *)
(***************************************************************************)
PruneKeepsNewest ==
    [][ \A f \in Names :
          Exists(f) /\ ~Exists(f)' /\ f.kind = "daily"
            => \/ \E r \in Runs : run[r].pc \in {"touched", "copied"} /\ run[r].name = f
               \/ \E d \in Dailies :
                    /\ Exists(run[d].name)'
                    /\ Cardinality({g \in Names \ {run[d].name} :
                         g.kind = "daily" /\ Exists(g)' /\ Newer(g, f)}) >= Keep - 1
      ]_vars

(***************************************************************************)
(* No run puts a half-written or empty file in place of the database, at   *)
(* whichever step it fails or is killed: only an upgrade that finds no     *)
(* file makes an empty one.                                                *)
(***************************************************************************)
ActiveStaysWhole ==
    [][ ~Damages /\ active'.state # active.state
          => \/ active'.state \in {"whole", "absent"}
             \/ active.state = "absent" /\ \E u \in Upgrades : run[u].pc = "begin"
      ]_vars

(***************************************************************************)
(* Nothing that was committed disappears from the database unless a        *)
(* healthy file of the backup directory holds it.  The step may be a       *)
(* restore, its rollback, or the removal of a failed restore.              *)
(***************************************************************************)
NothingDropped ==
    [][ Healthy(active) /\ ~(active.writes \subseteq active'.writes)
          => \E n \in Names : Healthy(files'[n]) /\ active.writes \subseteq files'[n].writes
      ]_vars

(***************************************************************************)
(* An unhealthy database is replaced once the owner restores a backup.     *)
(***************************************************************************)
RecoveryRestores ==
    (active.state = "broken" /\ \E n \in Names : Healthy(files[n])) ~> Healthy(active)
=============================================================================
