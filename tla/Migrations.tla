----------------------------- MODULE Migrations -----------------------------
(***************************************************************************)
(* The schema versions of the database and the migrations between them, as *)
(* far as a migration touches rows: payments get columns and are rebuilt   *)
(* with their allocations, and units are placed under a property.  The     *)
(* other migrations only create tables.                                    *)
(***************************************************************************)
EXTENDS Naturals, FiniteSets

CONSTANT RowIds     \* row ids in use; earlier rows may have been deleted

ASSUME MigrationsConstants == RowIds \subseteq Nat \ {0}

CurrentVersion == 15

(***************************************************************************)
(* The tables each version adds.                                           *)
(***************************************************************************)
NewTables ==
    <<{"raw_emails"},
      {"payment_events"},
      {"payers", "payer_aliases"},
      {"units", "rent_accounts", "rent_account_payers"},
      {"rent_obligations"},
      {"payment_allocations"},
      {"rent_schedules"},
      {},
      {"manual_payment_evidence"},
      {"manual_payment_revisions"},
      {"gmail_payment_voids"},
      {"late_fee_charges", "late_fee_voids"},
      {"late_fee_allocations"},
      {"properties"},
      {"property_expenses", "property_expense_voids"}>>

TablesByVersion(v) == UNION {NewTables[i] : i \in 1 .. v}

(***************************************************************************)
(* _expected_columns: the columns that not every version of a table has.   *)
(***************************************************************************)
ExpectedColumns(v) ==
    (IF v >= 8  THEN {"parser_version"}     ELSE {}) \cup
    (IF v >= 9  THEN {"manual_evidence_id"} ELSE {}) \cup
    (IF v >= 10 THEN {"voided_at"}          ELSE {}) \cup
    (IF v >= 14 THEN {"property_id"}        ELSE {})

(***************************************************************************)
(* What the upgrade verifies before it commits: PRAGMA foreign_key_check   *)
(* and the CHECKs, for the rows of this model.                             *)
(***************************************************************************)
ForeignKeysHold(db) ==
    /\ \A i \in DOMAIN db.allocations : db.allocations[i] \in DOMAIN db.payments
    /\ \A i \in DOMAIN db.accounts : db.accounts[i] \in DOMAIN db.units
    /\ \A i \in DOMAIN db.units : db.units[i] \in db.properties \cup {0}

(***************************************************************************)
(* The databases of a version: its tables and later columns, and the rows  *)
(* by their ids.  A payment is where it came from and the parser that read *)
(* it, an allocation the id of its payment, a unit the id of its property, *)
(* an account the id of its unit; a column that is not there is "none", 0. *)
(***************************************************************************)
Rows(exists, values) ==
    UNION {[ids -> values] : ids \in IF exists THEN SUBSET RowIds ELSE {{}}}

Databases(v) ==
    {db \in [tables : {TablesByVersion(v)},
             columns : {ExpectedColumns(v)},
             payments : Rows(v >= 2,
                             [source : IF v >= 9 THEN {"gmail", "manual"} ELSE {"gmail"},
                              parser : IF v >= 8 THEN {"legacy", "current"} ELSE {"none"}]),
             allocations : Rows(v >= 6, RowIds),
             units : Rows(v >= 4, IF v >= 14 THEN RowIds ELSE {0}),
             accounts : Rows(v >= 4, RowIds),
             properties : IF v >= 14 THEN SUBSET RowIds ELSE {{}}] : ForeignKeysHold(db)}

(***************************************************************************)
(* detect_legacy_version: the versions that match exactly.  It refuses a   *)
(* database unless there is one.                                           *)
(***************************************************************************)
Detected(db) == {v \in 0 .. CurrentVersion : /\ db.tables = TablesByVersion(v)
                                             /\ db.columns = ExpectedColumns(v)}

-----------------------------------------------------------------------------
(* Migrations that change rows *)

AddParserProvenance(db) ==
    [db EXCEPT !.columns = @ \cup {"parser_version"},
               !.payments = [i \in DOMAIN @ |-> [@[i] EXCEPT !.parser = "legacy"]]]

(***************************************************************************)
(* payment_events and payment_allocations are renamed, created anew, and   *)
(* filled from the old tables with the ids they had.                       *)
(***************************************************************************)
AddManualPaymentEvidence(db) ==
    [db EXCEPT !.tables = @ \cup {"manual_payment_evidence"},
               !.columns = @ \cup {"manual_evidence_id"},
               !.payments = [i \in DOMAIN @ |-> [source |-> "gmail",
                                                 parser |-> @[i].parser]],
               !.allocations = [i \in DOMAIN @ |-> @[i]]]

AddManualPaymentRevisions(db) ==
    [db EXCEPT !.tables = @ \cup {"manual_payment_revisions"},
               !.columns = @ \cup {"voided_at"}]

(***************************************************************************)
(* Mutant of AddProperties: the units are inserted without their ids,      *)
(* which are given out again from 1.                                       *)
(***************************************************************************)
AddPropertiesRenumbered(db) ==
    [db EXCEPT !.tables = @ \cup {"properties"},
               !.columns = @ \cup {"property_id"},
               !.properties = IF DOMAIN db.units = {} THEN {} ELSE {1},
               !.units = [i \in 1 .. Cardinality(DOMAIN @) |-> 1]]

(***************************************************************************)
(* All units there are go under one "Default Property", which is made only *)
(* if there are any.  units is rebuilt as payment_events was.              *)
(***************************************************************************)
AddProperties(db) ==
    [db EXCEPT !.tables = @ \cup {"properties"},
               !.columns = @ \cup {"property_id"},
               !.properties = IF DOMAIN db.units = {} THEN {} ELSE {1},
               !.units = [i \in DOMAIN @ |-> 1]]

(***************************************************************************)
(* MIGRATIONS.                                                             *)
(***************************************************************************)
Migration(db, v) ==
    CASE v = 8  -> AddParserProvenance(db)
      [] v = 9  -> AddManualPaymentEvidence(db)
      [] v = 10 -> AddManualPaymentRevisions(db)
      [] v = 14 -> AddProperties(db)
      [] OTHER  -> [db EXCEPT !.tables = @ \cup NewTables[v]]

(***************************************************************************)
(* The loop of upgrade_database, from version v.                           *)
(***************************************************************************)
Upgraded(db, v) ==
    LET after[i \in v .. CurrentVersion] ==
          IF i = v THEN db ELSE Migration(after[i - 1], i)
    IN  after[CurrentVersion]

-----------------------------------------------------------------------------
(* What an upgrade must make of rows *)

(***************************************************************************)
(* Payments keep where they came from and the parser that read them,       *)
(* allocations and accounts the row they point to, and a property is made  *)
(* only for units that had none.                                           *)
(***************************************************************************)
Preserved(db, new) ==
    LET added == new.columns \ db.columns IN
    /\ ForeignKeysHold(new)
    /\ DOMAIN new.payments = DOMAIN db.payments
    /\ \A i \in DOMAIN db.payments :
         /\ new.payments[i].source = db.payments[i].source
         /\ new.payments[i].parser = IF "parser_version" \in added
                                      THEN "legacy" ELSE db.payments[i].parser
    /\ <<new.allocations, new.accounts>> = <<db.allocations, db.accounts>>
    /\ DOMAIN new.units = DOMAIN db.units
    /\ IF "property_id" \in added
       THEN new.properties = {1 : i \in DOMAIN db.units}
       ELSE <<new.units, new.properties>> = <<db.units, db.properties>>

(***************************************************************************)
(* The versions whose databases are each seen as what they are, also when  *)
(* they do not record it, and come out of the upgrade with every row.      *)
(***************************************************************************)
SafeVersions ==
    {v \in 0 .. CurrentVersion : \A db \in Databases(v) :
        /\ Detected(db) = {v}
        /\ Detected(Upgraded(db, v)) = {CurrentVersion}
        /\ Preserved(db, Upgraded(db, v))}
=============================================================================
