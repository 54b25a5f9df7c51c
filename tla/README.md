# AutoRentLedger in TLA+

AutoRentLedger keeps a landlord's rent ledger in one local SQLite file. A Python
CLI reads payment notifications from Gmail, derives payment events from them,
charges rent each month, and links payments to charges; a local web server shows
read-only pages. This directory models the parts of it that change state, checks
them with TLC and proves the money and tenancy invariants with TLAPS.

Paths below are relative to the repository; `storage/` and the like are under
`src/autorentledger/`.

## 1. The system

### How it runs

There is no server that owns the ledger. Every command is a process that opens
the file, works, and exits: the owner's commands, the scheduled daily job (sync,
monthly generation, backup, retention), a rebuild, an upgrade, a restore, and
requests of the web server. They meet only in the database file and the backup
directory.

Almost every write opens with `BEGIN IMMEDIATE`, which takes SQLite's one writer
lock until the commit: its checks and its writes are one atomic step. What is
hard is everything that is not inside one such transaction:

* commands that read in one connection and write in another (rebuild, the
  allocation plan, `obligation add`, guided setup with its preview);
* commands that write in many transactions (rebuild, sync, the daily job);
* file operations around the database (backup, restore, retention, upgrade).

### Components

| Component | State | Operations | What makes it correct |
|---|---|---|---|
| Ledger writes (`storage/payments.py`, `manual_payments.py`, `gmail_payments.py`, `late_fees.py`, `allocations.py`, `late_fee_allocations.py`) | `payment_events`, manual evidence and revisions, `gmail_payment_voids`, `late_fee_charges`, `late_fee_voids`, `payment_allocations`, `late_fee_allocations` | record, correct, void, assess, allocate, remove | no payment, obligation or fee is over-allocated; nothing voided holds money; audit rows explain the events and only grow |
| Rebuild (`rebuilding/service.py`) | a snapshot of sources in memory | snapshot, one checked update per source | a stale snapshot writes nothing wrong; each event is written once; it ends |
| Rent accounts, schedules, monthly rent (`storage/schedules.py`, `rent_operations.py`, `rentals.py`, `obligations.py`) | `rent_accounts`, `rent_schedules`, `rent_obligations` | create, end, rent change, tenancy end, generate, `obligation add` | ranges nested and disjoint; charges never rewritten; an ended month is not charged again |
| Guided setup (`tenancy_setup.py`) | none of its own | preview, apply in one transaction | all of unit, payer, aliases, account, schedule and first charge, or none; what it set up holds until the owner undoes it |
| Backup, restore, health (`database/`) | the file, its backups, a staged copy | backup, restore with rollback, check | the active file is never half written; nothing committed disappears |
| Daily job and retention (`daily.py`, `retention.py`) | files named by the second | backup, sync, generate, refresh, prune | a verified run can be undone; retention keeps what it should |
| Planner and suggestions (`allocation_planning.py`, `suggestions/`, `reconciliation/`) | what a plan has read | five reads, apply | a plan is valid, settles all it can, and is current when applied |
| Identity (`identity/`, `storage/identity.py`) | `payers`, `payer_aliases`, `rent_account_payers` | add and remove | an alias names one payer |
| Ingestion, processing, sync (`ingestion.py`, `processing.py`, `operations/sync.py`) | `raw_emails`, new `payment_events` | fetch and store, parse and store | each message once, each event once |
| Gmail access (`email/`) | none | search, fetch | external service |
| Parsing (`parsing/`) | none | text patterns | no state |
| Schema and upgrade (`storage/migrations.py`) | `user_version`, the tables | upgrade with a sibling backup | wholly old or wholly new |
| Expenses (`expenses.py`, `storage/expenses.py`) | `property_expenses`, `property_expense_voids` | create, void | the unit of an expense is of its property |
| Properties and units (`storage/properties.py`, `rentals.py`) | `properties`, `units` | create, rename | one unit of a property has a label |
| Month close and review (`month_close.py`, `review/`) | none | reads, each over its own connection | CLEAR means that nothing is left to do |
| Reports, overview, property cash | none | read-only compositions | sums of what is stored |
| Discovery, payment listing, CLI, web | none | read, print | no state |

`PROJECT.json` lists the same parts with their source files and what is modelled
of each; its `hazards` list every line where this code can go wrong in a way a
unit test would hardly reach, with the property that covers it or the reason
none does.

## 2. The modules

| Module | Models | Checked by |
|---|---|---|
| `Money` | sums of integer cents, as the size of a set of cents (see 5) | `TotalIsSum` in `MCLedger` |
| `Ledger` | every write to payments, charges and allocations; rebuild | `ledger_*` |
| `Funds` | abstract: money with limits, opened, moved and closed | – |
| `LedgerFunds` | the refinement mapping from `Ledger` to `Funds` | `ledger_money` |
| `Tenancy` | account ranges, schedules, monthly rent, guided commands | `tenancy_*` |
| `TenancyUse` | `Tenancy` with a record of whether an advanced command was used | `tenancy_*` |
| `Backups` | backup, restore, daily job, retention | `backups_*` |
| `Upgrade` | composes `Backups` with schema upgrades of the same file | `upgrade` |
| `Migrations` | the schema versions and what each migration does to rows | `upgrade` |
| `Intake` | composes `Ledger` with the mailbox and overlapping syncs | `intake` |
| `Matching` | composes `Ledger` with identity, the planner and suggestions | `matching*` |
| `MonthClose` | the month close over the steps of `Matching` | `matching` |
| `Portfolio` | properties, units, payers, aliases, accounts, expenses, guided setup | `portfolio` |
| `LedgerProofs`, `LedgerFundsProofs` | theorems about `Money`, `Ledger` and the refinement | TLAPS |
| `TenancyProofs`, `PortfolioProofs`, `IntakeProofs` | theorems about the module of that name | TLAPS |
| `MatchingProofs` | theorems about `Matching` and `MonthClose` | TLAPS |
| `BackupsProofs` | theorems about `Backups` and `Upgrade` | TLAPS |
| `MigrationsProofs` | theorems about `Migrations` | TLAPS |
| `MC*` | constants and symmetry for TLC | |

### Ledger

One variable per table. A payment event is named by the raw email or the manual
evidence it came from; an allocation row is a record of payment, target and
amount. Each service call is an action with the checks as its guard: a raised
error is a step that does not happen. The service and storage layers check some
things twice; the guard is their conjunction.

`RebuildStart` reads the sources and remembers `parsed_at` of each in `batch`,
outside any transaction. Each source then takes one step: `RebuildUpdate` (the
checked update), `RebuildReject` (the new amount is below what is allocated: the
source is reported and passed over), `RebuildAbort` (`parsed_at` or the row has
changed: the whole command stops with what it has written left in place), or
`RebuildStop` (the process is killed). Sessions may overlap.

`parsed_at` is a counter: 0 as processed, one more with each rewrite. What each
parser version reads in each email is a constant, so a rebuild may lower an
amount, raise it, or find that the current parser no longer reads the email.

### Funds and the refinement

`Funds` says what the ledger promises about money without tables, audit rows,
parsers or plans: sources and uses have a limit, are opened, are closed for good
only while they hold no money, and `Move` changes the set of moved rows within
all limits. `LedgerFunds` maps payments to sources (`void` to closed, the event's
amount to the limit), charges to uses, and both allocation tables to `moved`. A
correction or a rebuild becomes a change of limit; everything about audit rows
and snapshots becomes a stutter.

### Tenancy

Dates are numbered days of a calendar given by `MonthEnd`; a NULL start is day 0
and a NULL end is `Forever`, which is how every comparison of the code treats
them. Guided commands (`Setup*`, `ChangeRent`, `EndTenancy`, `Generate`) and
advanced ones (`CreateAccount`, `CreateSchedule`, `EndSchedule`, `EndAccount`)
are one action each. `obligation add` reads the account in a connection of its
own and inserts without the lock: it is `CheckObligation`, then
`InsertObligation`, with any command between them. `closed` is a history
variable: the months a tenancy end left without a schedule.

Guided and advanced commands are mixed freely. What the guided ones promise by
themselves they promise only until an advanced one is used: `TenancyUse` records
that in `edited`, so one run checks both kinds of statement.

### Backups

Each run of backup, daily or restore is a process with a program counter. Every
step of `backup_database` and `restore_database` leaves what the code leaves when
it fails or is killed right after it: an empty file under a reserved name, a
broken copy, a staged file that replaced nothing. File names carry the second
and a suffix, as the code's names do. The ledger inside a file is the set of
changes committed to it, and `check_database` is a predicate of a file. The
fields `verified`, `base` and `mine` of a run are history. The switches
`Faults`, `Damages` and `Quiesced` choose what may happen around the runs;
each configuration names them.

### Upgrade and Migrations

An upgrade is a run like those of `Backups`, on the same file and backups:
`UpgradeStart` (the schema status, the name of the copy), `UpgradePreserve` (the
copy), `UpgradeBegin` (`BEGIN IMMEDIATE` and the version read again),
`UpgradeMigrate` once for each version, and `UpgradeCommit`. Between any two of
them it may fail, be killed, or be overtaken by another upgrade, a restore or a
commit. The schema of a file and the version it records are two numbers, since
old files record none. `Upgrade` says when the file changes and `Migrations`
what the transaction does to its rows; the latter has no state of its own. A
migration of `Upgrade` keeps what was entered, and `MigrationsKeepRows` is why
it may: an old schema stands for every earlier version, and from each of their
databases with ids in `RowIds` the migrations keep every row.

### Intake

The mailbox is a sequence to which messages are only added. A sync searches,
then takes the messages one by one: `IngestPresent` or `IngestFetch`, and
`IngestInsert`; then it lists all stored emails and takes them one by one:
`ProcessPass` or `ProcessParse`, and `ProcessInsert`, which is `ProcessEmail` of
`Ledger` or finds that another sync was faster. Each of these is a connection of
its own. A failure (`SyncFails`) ends the sync where it is. `counted` is history.

### Portfolio

`SetupPreview` inspects and keeps the request; `SetupApply` resolves it again and
inserts everything, as `apply_checked` does. Every other command is one action:
it either takes the lock before it checks, or what it checks is decided again by
a UNIQUE or FOREIGN KEY constraint. `promised` is history: which senders an
applied setup said pay for an account, until the owner removes the alias or the
association. The account's range, charge and schedule, which the same
transaction inserts, are in `Tenancy`.

### Matching

The planner reads payments, obligations, aliases, associations and pairs in five
connections (`PlanRead` takes one of them), computes the plan from what it has
read, and `PlanApply` inserts it as `ApplyPlan` does. `Turns` are the (payment,
obligation) pairs in the order of the planner's greedy loop, `Pass` is one pass
of the loop, `Passes` what is planned after each, and `Fill` after the last;
`Suggestions` is the suggestion service. `Commit` is any other command of `Ledger` or of identity.

### MonthClose

The report writes nothing, so it has no action and no variable. `MonthReads` is
what its connections return, in the code's order, and `Clear` decides from it.
As in the code, the suggestions read also says how many payments are active, and
when there are none the checks of money and senders do not apply, whatever the
earlier reads found: a report that sees unspent money may still be CLEAR if the
payment is voided before that read.
`TornCloseIsRight` is about every step of `Matching` and every report that made
its first k reads before the step and the others after it. `Done` says what a
CLEAR month must mean by what the other commands would still find to do, not by
the report's own checks. The rent that recurring schedules expect is a constant,
`Expected`; the checks of expenses and property cash never ask for attention.

## 3. The runs

Every run finishes in less than four minutes with two workers. In the passing
runs every action and disjunct of the next-state relation fires. Deadlock is
not checked (`CHECK_DEADLOCK FALSE`): commands run when somebody starts them, and
a ledger in which every bounded row has been used may stop.

| Run | Question | Bounds |
|---|---|---|
| `ledger_money` | Can any interleaving of writes, plans and rebuilds over-allocate, leave money on something voided, store a pair twice, or move money in a way `Funds` does not allow? Are two overlapping rebuilds harmless, and does each end? Does the set form of the plan check decide what the code's loop decides? | 1 Gmail and 1 manual payment, 2 obligations, 1 fee, amounts up to 2, every two-link plan, 2 rebuild sessions |
| `ledger_audit` | Do evidence, revisions and voids always explain the events, only grow, and do duplicates stay out without confirmation? | 2 manual and 1 Gmail payment, 2 fees, 2 duplicate keys, one correction each, `--confirm-duplicate` never given |
| `ledger_void_facts` | Does a voided payment keep its facts? (violated) | 1 email, 1 session |
| `tenancy_commands` | With every command in any order, do ranges stay nested and disjoint, charges final, closed months closed? Until an advanced command is used, is generation never refused and no gap opened by a rent change? | 1 account, 3 schedules, 2 months of 2 days, 1 overtaken `obligation add` |
| `tenancy_partial_month` | Do guided commands avoid partial months? (violated) | 2 months |
| `backups_daily` | Can each verified daily run be undone, and does retention keep what it should, with a clock set back, failures, kills and damage? | 1 daily run again and again, 2 changes, keep 2, 2 seconds |
| `upgrade` | Is the database ever half written or half migrated, a committed change dropped, or the file an upgrade replaces not kept, by upgrades and restores that overlap, fail or are killed anywhere? Is every database of every version seen as that version, and does its upgrade keep every row and reference? | 2 upgrades, 1 restore, 1 change, a schema 2 versions behind (recorded or not) or current but not recorded, 2 seconds; row ids 1 and 3 |
| `intake` | Does every message arrive, and is it counted once, when syncs overlap and fail? | 2 syncs, 3 messages, a search of 2, 1 failure, 1 rebuild |
| `backups_unhealthy` | Does a restore recover an unhealthy database? (violated) | 1 restore, 1 change |
| `matching` | In every reachable ledger and identity, is a fresh plan accepted and does it settle all it can; do suggestions fit, and agree with the plan? Is a month that a torn month close calls CLEAR done? | 2 payments, 2 obligations of one or two accounts, 1 fee, 1 payer, 2 sender names |
| `matching_plan` | When a plan is applied after other commands, is it still the plan of that moment? | the same without the fee, 1 planner, 2 commands in the meantime |
| `portfolio` | Does what an applied setup says hold until the owner undoes it, whatever came between its preview and its transaction? Do units and expenses keep to one property? | 2 setups, 2 properties, units, payers and accounts, 1 label, 1 sender, 1 expense |

Why these bounds are enough to mean something:

* Money: a capacity is broken when two rows share a payment or a target; two
  obligations and a fee give a payment three targets in two tables, and two
  payments give an obligation two payers. An amount of 2 cents can be split,
  lowered to 1, and exceeded.
* Rebuild: two sessions suffice for one to overtake the other between snapshot
  and update.
* Tenancy: a two-day month has a first day, a last day and nothing else, which
  are the days the code tells apart. Three schedules are the old one, the one a
  rent change makes, and another entered by hand between or around them.
* Backups: two changes tell apart before, between and after; with `Keep` 2 there
  is a file to keep besides the current one and one to delete. One restore can
  run twice, so the second may meet what the first left.
* Matching: two obligations entered in reverse order of due date show a lost
  sort; the fee shows a forgotten table; the second sender name shows an alias
  removed; the restricted range shows an obligation outside the plan. Rent
  expected of two accounts in one month shows a check that is content with one.
  In the second month none is expected: while nothing is charged it is CLEAR
  without a payment, also when the report read of money that was voided since.
* Upgrade: two migrations have a moment between them; a version that is not
  recorded shows the detection; a second upgrade finds the file already current.
  `Copies` is empty: `db backup` takes the steps the daily job takes, which
  `backups_daily` has, and a third process here makes the run too large.
  `MaxSuffix` 0 gives both upgrades of one second the same name. Ids 1 and 3
  leave a gap that a renumbering would close.
* Intake: a third message pushes the first out of a search of two; one failure
  may strike at any step of any sync.
* Portfolio: with one label and one sender, any two setups that ask for new
  names collide.

### Fairness

`FairSpec` of `Ledger` gives weak fairness to `RebuildStep`: a rebuild that is
not killed goes through its list in a `for` loop, and SQLite's lock is free
whenever no other transaction is open. Nothing is assumed of the owner, who may
void, allocate and start other rebuilds while it runs; a rebuild that is killed
has ended too.
`FairSpec` of `Backups` gives weak fairness to `RestoreGoesOn`: the owner who
follows the recovery sequence runs the restore to its end and again if it fails.
`IntakeSpec` gives weak fairness to the syncs together: the scheduler starts the
daily job again and again, so some sync always goes on, but no particular one
has to, and failures are finitely many (`MaxFailures`). A message that fails
every time would hold back the older ones for ever, as it does in the code.
Only `RebuildFinishes`, `EveryMessageArrives` and `RecoveryRestores` use fairness
(and `ledger_void_facts` runs under it).

### Where documents and code disagree

* `ledger_void_facts`: `docs/RUNBOOK.md:391` says a voided Gmail payment keeps
  its parsed facts; `list_rebuild_sources` selects voided events too and
  `update_rebuilt_checked` rewrites them.
* `tenancy_partial_month`: `docs/ARCHITECTURE.md:136-137` says guided setup and
  tenancy end keep recurring rent out of partial months; a setup with
  `--active-to` inside a month leaves a schedule that charges that month in full.
* `backups_unhealthy`: `docs/RUNBOOK.md:998-1006` gives restore as the recovery
  of an unhealthy database; `restore_database` first makes a safety backup, and
  `backup_database` refuses an unhealthy source.

### What the models can do and no property forbids

These are behaviours of the code as it is; a property that forbade them would
fail, and no document promises them.

* `obligation add` may charge a month after its tenancy has been ended, when the
  end commits between its check and its insert.
* Two overlapping daily runs with `--keep-backups 1` delete each other's backup.
* With `Quiesced = FALSE`, a change committed between a restore's safety backup
  and `os.replace` is lost. The runbook asks that nothing else run.
* A suggestion may name a pair that is already linked; accepting it is refused.
* A plan that is applied does not look again at aliases and associations.
* A message that is not yet stored when `max_results` newer ones have arrived is
  never stored.
* An email that a sync parses between the month close's read of the payments and
  its read of the unparsed emails is in neither, so the month may be CLEAR with a
  payment nobody has looked at. `TornCloseIsRight` excepts new payments.

## 4. The proofs

TLAPS proves these for every value of the constants: any number of payments,
charges, sessions, syncs, accounts, schedules, files and versions, any amounts,
any calendar. Where a theorem has a hypothesis, the last column names it.

| Theorem | States | If |
|---|---|---|
| `LedgerTypeCorrect` | `TypeOK` of `Ledger` | |
| `PaymentNeverOverspent`, `TargetNeverOverpaid`, `VoidedHoldsNoMoney` | the three parts of `Balanced` | |
| `LedgerImplementsFunds` | every behaviour of `Ledger` is one of `Funds` | |
| `NoPairTwice` | `PairsUnique` | |
| `EventRebuiltOnce` | `RebuiltOnce`, for any number of overlapping sessions | |
| `PlanLoopDecidesSet` | `PlanLoopAgrees`, for plans of any length | |
| `AuditAlwaysConsistent`, `ManualIsProjection`, `AuditOnlyAppended` | the audit tables explain the events and only grow | |
| `DuplicatesStayOut` | `NoUnconfirmedDuplicate` | |
| `TenancyTypeCorrect`, `SchedulesNeverOverlap`, `SchedulesStayWithin` | types, disjoint and nested ranges, under all commands | |
| `ChargesAreFinal` | no step rewrites or removes a charge | |
| `GuidedNeverRefused`, `GuidedKeepsCharging` | until an advanced command is used each month has at most one applicable schedule, and no rent change opens a gap | |
| `EndedMonthsStayEnded` | `ClosedMonthsStayClosed` | |
| `SetupStays`, `UnitsOfOneProperty`, `ReferencesHold` | `SetupHolds`, `OneProperty`, and that no row of `Portfolio` dangles | |
| `BackupsTypeCorrect`, `NothingHalfWritten` | `TypeOK`, `ActiveStaysWhole`, of `Backups` and of `Upgrade` | |
| `UpgradesAreAtomic`, `OldSchemaIsKept` | `UpgradeIsAtomic`, `PreUpgradeKept` | |
| `CommittedIsNeverLost` | `NothingDropped` | `Quiesced`, `~Damages` |
| `DailyRunsAreUndoable` | `DailyUndoable` | `OneDaily`, `Quiesced` |
| `RetentionIsBounded`, `RetentionKeepsNewest` | `RetentionBound`, `PruneKeepsNewest` | `OneDaily` |
| `SyncsImplementLedger` | every behaviour of `Intake` is one of `Ledger`, so all of the above holds with overlapping syncs | |
| `ReportedOnce` | `CountedOnce` | |
| `MatchingTypeCorrect`, `PlansKeepBalance` | `MatchingTypeOK`, and `Balanced` with plans that overlap | |
| `FreshPlansAreAccepted`, `FreshPlansSettle` | `FreshPlanAccepted`, `FreshPlanSettles` | |
| `SuggestionsCanBeFollowed`, `SuggestionsAgreeWithPlans` | `SuggestionFits`, `SuggestionAgrees` | |
| `AppliedPlansAreCurrent` | `AppliedPlanIsCurrent`, for any number of planners and of commands in between | |
| `TornReportIsRight` | `TornCloseIsRight`, for every command and after every read | |
| `EveryVersionIsSafe`, `RowsAreKept` | every version is in `SafeVersions`, and `MigrationsKeepRows`, for any rows and ids | |

**Assumptions.** The `ASSUME` of each module, all of which TLC evaluates; the
one that says something of the system is `TenancyConstants` (the calendar:
months follow each other and cover the days).

**Hypotheses.** `OneDaily`: at most one run of the daily job goes on at a time;
in `docs/RUNBOOK.md:176-190` one scheduled task starts it, and "always performs
exactly one run". `Quiesced`: nothing else runs during a restore, as the recovery
sequence of `docs/RUNBOOK.md:1000-1017` asks. `~Damages`: no fault from outside
breaks the active file, for that would itself drop what the file held. The
first two are needed: section 3 lists what the code does without them. None
makes a theorem empty: failures, kills, a clock set back, upgrades and backups
that overlap are all still there, and `backups_daily` and `upgrade` check the same
properties under the same hypotheses.

**Ledger.** `TypeOK` is inductive alone, and says the allocation tables are
finite, which every law about `Total` needs. `Balanced` is
`PaymentCapacity`, `TargetCapacity` and `LinksJoinActive` together; no part is
inductive alone. A correction or a rebuild keeps `PaymentCapacity` because it
compares the new amount with what is allocated now, not in its snapshot. A void
demands that nothing is allocated, which keeps `LinksJoinActive`; and this with
`TargetCapacity` bounds what a newly created charge or payment may already hold,
namely nothing. Each action has a lemma for each table it can disturb.

**The loop of a plan.** `create_many_checked` checks each link against the rows
inserted before it, `CanInsert` a set of links against the stored rows. If the
set is accepted, each link fits beside any others of it, so every order passes.
If an order passes, so does the set (`LoopImpliesSet`): the last link of a payment
was checked with all its others in the table, and so was the last of an
obligation; these exist because a set of positions has a greatest (`LastNumber`).

**Audit.** `RebuiltOnce` is not inductive: a session may hold a snapshot of any
counter. `Rebuilt` adds that an event once rewritten is as the current parser
reads it, so that no later rebuild selects it, and that every source a session
holds was unwritten when it was read. `Audited` adds to the two audit properties
that the tables hold nothing of a payment that is not stored, so that its
evidence alone explains the row when it comes. `Distinct` is
`NoUnconfirmedDuplicate` read the other way: rows that agree are one row.

**Refinement.** Initial states map to initial states. `Move` needs that the new
rows respect every limit and join open sides: that is `Balanced` in the next
state, which the invariant gives. All other actions map to one action of
`Funds`, or to none. For `SyncsImplementLedger` only the insert of a parsed event
touches the ledger, and `Syncing` says that a sync then has an email in hand.
`Counted` adds to `CountedOnce` that what was counted is stored, and `StoredStays`
that the commands of the ledger never take it away.

**Tenancy.** `TypeOK` does not say that a schedule's account exists, so the
invariant adds `ScheduleReferences`, `DraftReferences` and `ChargedExist` (what
a stale `obligation add` will insert refers to an account that exists), and
disjointness with nesting. `GuidedNeverRefused` needs in addition that
schedules start on firsts of months: of two disjoint schedules that touch one
month, the later starts inside it, after its first. The advanced commands break
that, so the theorem is about `UseSpec`, which implements `Spec`, and the
invariant says it of the states where `edited` is false. `ClosedForGood` says of
a closed month that the account exists, so that setup cannot give it a new
range, and that every schedule of the account ends before the month begins.

**Portfolio.** `PortfolioInv` is `SetupHolds` and `OneProperty` with `NothingDangles`:
the alias, the association and the unit that a setup or an expense relies on
refer to rows that exist, and the rows that come are new ones.

**Backups and upgrades.** `AnySpec` is the union of both specifications, so each
step is looked at once. `Sound` has the types, which steps each kind of run
takes, and that the name a run writes to is of the run's kind;
`StagedWhole` that the copy a restore stages is healthy. `CopyKept` says that
while an upgrade is about to give up an old schema a sibling copy of just that
file is there: only upgrades write such files, nothing makes a database old
again (`OldIsNotMade`), and a restore gets as far as touching the database only
if it is not old (`OnlyCurrentReplaced`). `RestoreHolds` says for each step of a
restore where the committed changes are: in the database, in the safety backup,
or, once the database is replaced, in the candidate. `Undoable` is
`DailyUndoable` with what the earlier steps of the run establish, and that
retention never lists the run's own backup. `Pruning` follows the deletion loop:
each file still to be deleted has `Keep - 1` newer ones besides the current one,
and few enough stay in all; that an oldest file exists is proved from the
finiteness of the directory.

**Migrations.** `After(db, v, i)` says what a database of version v is when it
has come to version i; each migration takes it from one to the next
(`MigrationStep`), so the function of these values solves the recursive
definition of the upgrade's loop, and it is the only solution (`UpgradedIs`). That
a version is not taken for another (`VersionsDiffer`) is where each of them must
add a table that no other adds; version 8 adds none and is told by its column.

**Matching.** The plan is a sequential program, and is proved like one. `Ranking`
says that a finite strict order numbers its elements without gaps, so that
`Turns` has each pair once and in order (`TurnsInOrder`; ids make the order
strict). `LoopInv` is the invariant of the loop: what is left and what was
planned add up to what was read, every link is of a pair that had its turn, a
turn that is over has no money, no room or a blocked payment, and what is due
earlier on an account that received money has no room. Each pass keeps it
(`PassOver`, `PassAdds`), and the induction over the passes is made in terms of
sets of numbers (`LeastNumber`: the finite subsets of `Nat` are well founded).
At the last pass, with `Balanced`, it gives the four properties of fresh plans
and suggestions. For `AppliedPlanIsCurrent`, a plan that was read earlier and is
actionable spends all it read; the checks of the insert say it fits what is there
now, and nothing came free: so no payment has less than was read, the turns are
the same, and in every pass the two loops, which may differ in the room they
see, plan the same link (`SamePass`, `SamePlan`). `MatchingInv` adds to the
ledger's invariant only that what a planner has read has the right columns, for
it says nothing of values that may have changed since.

**Month close.** A month is `Cleared` when its state is what a CLEAR report says,
and `ClearedIsDone` derives `Done` from it: without money left the planner's loop
has no turn that plans anything (`NothingToPlan`). Of a torn report, the reads before the step are of the old
state and the others of the new (`ReportIs`). If the step undoes nothing, rows,
names and charges that were there stay (`RentStaysPaid`, `MoneyStaysSpent`,
`SendersStayKnown`, `NothingGoesMissing`), so what an early read found in order
is so after the step, and the month is `Cleared` then (`TornReportClears`). If
the suggestions read found no active payment, none is active after the step
either, and money and senders, which the report then ignores, are in order. By
`Balanced`, nothing outstanding means paid in full (`SumsFit`), which further rows
cannot change.

**Model-checked only.** Liveness, which is out of the prover's reach, as is
ENABLED: `RebuildFinishes`, `RecoveryRestores`, `EveryMessageArrives`. That `Total`
is the sum (`TotalIsSum`) is an induction over sets of rows and is checked on the
rows of `ledger_money`. Every other property of a passing run is a theorem.

## 5. Abstractions

* Integer sums. `Total(R)` counts the cents of a set of rows, one element per
  row and cent; `MCLedger` checks that it is the sum.
* A plan of several links is checked as a set. The code's loop checks each link
  against the rows inserted before it; `PlanLoopAgrees` says that both
  decide the same, checked for two links in `ledger_money` and proved for any
  number.
* The sources of a rebuild are updated in any order; the code uses id order.
* Sender and date, which the duplicate check compares, are one model value;
  spelling and memo another.
* In `Matching` ids are ordered by a constant, the account, period and due date
  of each obligation row are chosen at the start, and payers and accounts exist
  from the start. The planner goes account by account; `Turns` has all
  turns in one order, which visits each account's obligations in the same order.
  `MaxMeanwhile` bounds the commands that commit while a plan is made.
* SQLite's online backup is one step: it copies a consistent image.
* A Gmail search is one step, although it pages; a message that shows up twice in
  a listing is found present the second time.
* The month close's suggestions are one read of four, at the moment of the first,
  which lists the active payments: a step that undoes nothing adds no suggestion,
  whether the payments were spent when their money was read or there are none.
* In `Portfolio` the normalized name of a sender is a model value; a new payer's
  name is one of the request's senders, as `_effective_aliases` makes it.
* Below the level of the models: SQLite's journal, file permissions, wording,
  time stamps other than those that name files.

## 6. Not modelled, and the plan

The modules were written in this order: money, its refinement, tenancy, backups,
matching, upgrade and migrations, intake, month close, portfolio. The proofs followed
in the order ledger, refinement, tenancy, audit, portfolio, backups and upgrades,
intake, matching, the plan loop, month close, migrations. Of the plan's theorems
none is left; what the models do not cover follows.

Not modelled, and why:

* Gmail's service, authentication and paging: external.
* The parsing of text (`parsing/`): no state; `Ledger` takes what each parser
  version reads in an email as a constant.
* Reports, overview, property cash, discovery and payment listing: single
  read-only sums and listings, from which nothing is decided.
* Renaming properties, accounts and payers: nothing depends on a display name.
* Argument parsing and printing, and the web pages, which only read.
* SQLite's files: a process that opened the database before a restore keeps the
  replaced file and its journal.
