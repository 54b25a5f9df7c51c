-------------------------- MODULE MigrationsProofs --------------------------
(***************************************************************************)
(* Proofs about the migrations, for every set of row ids and every         *)
(* database of every version: each is seen as the version it is, and comes *)
(* out of an upgrade with all its rows.                                    *)
(***************************************************************************)
EXTENDS Upgrade, TLAPS

-----------------------------------------------------------------------------
(* Versions are told apart *)

Versions == 0 .. CurrentVersion

(***************************************************************************)
(* The first table of each version; version 8 adds none.                   *)
(***************************************************************************)
FirstTable ==
    <<"raw_emails", "payment_events", "payers", "units", "rent_obligations",
      "payment_allocations", "rent_schedules", "no table",
      "manual_payment_evidence", "manual_payment_revisions",
      "gmail_payment_voids", "late_fee_charges", "late_fee_allocations",
      "properties", "property_expenses">>

(***************************************************************************)
(* Every version but 8 has a table that no other version adds.             *)
(***************************************************************************)
LEMMA FirstTableIsNew ==
    ASSUME NEW v \in 1 .. CurrentVersion, v # 8, NEW i \in 1 .. CurrentVersion
    PROVE  FirstTable[v] \in NewTables[i] <=> i = v
<1>1. v \in {1, 2, 3, 4, 5, 6, 7, 9, 10, 11, 12, 13, 14, 15}
  BY DEF CurrentVersion
<1>2. i \in {1, 2, 3, 4, 5, 6, 7, 8, 9, 10, 11, 12, 13, 14, 15}
  BY DEF CurrentVersion
<1>3. /\ FirstTable[1] = "raw_emails"
      /\ FirstTable[2] = "payment_events"
      /\ FirstTable[3] = "payers"
      /\ FirstTable[4] = "units"
      /\ FirstTable[5] = "rent_obligations"
      /\ FirstTable[6] = "payment_allocations"
      /\ FirstTable[7] = "rent_schedules"
      /\ FirstTable[9] = "manual_payment_evidence"
      /\ FirstTable[10] = "manual_payment_revisions"
      /\ FirstTable[11] = "gmail_payment_voids"
      /\ FirstTable[12] = "late_fee_charges"
      /\ FirstTable[13] = "late_fee_allocations"
      /\ FirstTable[14] = "properties"
      /\ FirstTable[15] = "property_expenses"
  BY DEF FirstTable
<1>4. /\ i = 1 => NewTables[i] = {"raw_emails"}
      /\ i = 2 => NewTables[i] = {"payment_events"}
      /\ i = 3 => NewTables[i] = {"payers", "payer_aliases"}
      /\ i = 4 => NewTables[i] = {"units", "rent_accounts", "rent_account_payers"}
      /\ i = 5 => NewTables[i] = {"rent_obligations"}
      /\ i = 6 => NewTables[i] = {"payment_allocations"}
      /\ i = 7 => NewTables[i] = {"rent_schedules"}
      /\ i = 8 => NewTables[i] = {}
      /\ i = 9 => NewTables[i] = {"manual_payment_evidence"}
      /\ i = 10 => NewTables[i] = {"manual_payment_revisions"}
      /\ i = 11 => NewTables[i] = {"gmail_payment_voids"}
      /\ i = 12 => NewTables[i] = {"late_fee_charges", "late_fee_voids"}
      /\ i = 13 => NewTables[i] = {"late_fee_allocations"}
      /\ i = 14 => NewTables[i] = {"properties"}
      /\ i = 15 => NewTables[i] = {"property_expenses", "property_expense_voids"}
  BY DEF NewTables
<1> QED
  BY <1>1, <1>2, <1>3, <1>4

(***************************************************************************)
(* The tables and columns of two versions differ.                          *)
(***************************************************************************)
LEMMA VersionsDiffer ==
    ASSUME NEW v \in Versions, NEW w \in Versions, v < w
    PROVE  \/ TablesByVersion(v) # TablesByVersion(w)
           \/ ExpectedColumns(v) # ExpectedColumns(w)
<1>1. w \in 1 .. CurrentVersion /\ CurrentVersion = 15
  BY DEF Versions, CurrentVersion
<1>2. CASE w = 8
  <2>1. "parser_version" \in ExpectedColumns(w) /\ "parser_version" \notin ExpectedColumns(v)
    BY <1>1, <1>2 DEF ExpectedColumns, Versions
  <2> QED
    BY <2>1
<1>3. CASE w # 8
  <2>1. FirstTable[w] \in TablesByVersion(w)
    BY <1>1, <1>3, FirstTableIsNew DEF TablesByVersion
  <2>2. ASSUME NEW i \in 1 .. v PROVE FirstTable[w] \notin NewTables[i]
    <3>1. i \in 1 .. CurrentVersion /\ i # w
      BY <1>1 DEF Versions
    <3> QED
      BY <1>1, <1>3, <3>1, FirstTableIsNew
  <2>3. FirstTable[w] \notin TablesByVersion(v)
    BY <2>2 DEF TablesByVersion
  <2> QED
    BY <2>1, <2>3
<1> QED
  BY <1>2, <1>3

(***************************************************************************)
(* So a database with the schema of a version is seen as that version.     *)
(***************************************************************************)
LEMMA DetectedAs ==
    ASSUME NEW v \in Versions, NEW db,
           db.tables = TablesByVersion(v), db.columns = ExpectedColumns(v)
    PROVE  Detected(db) = {v}
<1>1. ASSUME NEW w \in Versions, w # v
      PROVE  db.tables # TablesByVersion(w) \/ db.columns # ExpectedColumns(w)
  <2>1. v < w \/ w < v
    BY <1>1 DEF Versions, CurrentVersion
  <2> QED
    BY <2>1, VersionsDiffer
<1> QED
  BY <1>1 DEF Detected, Versions

-----------------------------------------------------------------------------
(* One migration after the other *)

(***************************************************************************)
(* What a database of version v is when it has come to version i: payments *)
(* of before version 8 are legacy, units of before version 14 are under    *)
(* property 1.                                                             *)
(***************************************************************************)
PaymentsAfter(db, v, i) ==
    IF v < 8 /\ 8 <= i
    THEN [p \in DOMAIN db.payments |-> [source |-> db.payments[p].source,
                                        parser |-> "legacy"]]
    ELSE db.payments

UnitsAfter(db, v, i) ==
    IF v < 14 /\ 14 <= i THEN [u \in DOMAIN db.units |-> 1] ELSE db.units

PropertiesAfter(db, v, i) ==
    IF v < 14 /\ 14 <= i THEN {1 : u \in DOMAIN db.units} ELSE db.properties

After(db, v, i) ==
    [tables |-> TablesByVersion(i),
     columns |-> ExpectedColumns(i),
     payments |-> PaymentsAfter(db, v, i),
     allocations |-> db.allocations,
     units |-> UnitsAfter(db, v, i),
     accounts |-> db.accounts,
     properties |-> PropertiesAfter(db, v, i)]

(***************************************************************************)
(* A record with the seven fields of a database.                           *)
(***************************************************************************)
IsDatabase(x) ==
    x = [tables |-> x.tables, columns |-> x.columns, payments |-> x.payments,
         allocations |-> x.allocations, units |-> x.units, accounts |-> x.accounts,
         properties |-> x.properties]

(***************************************************************************)
(* What each migration of rows makes of the seven fields, here that of     *)
(* version 8.                                                              *)
(***************************************************************************)
LEMMA ProvenanceAdded ==
    ASSUME NEW x, IsDatabase(x)
    PROVE  AddParserProvenance(x) =
             [tables |-> x.tables,
              columns |-> x.columns \cup {"parser_version"},
              payments |-> [i \in DOMAIN x.payments |-> [x.payments[i] EXCEPT !.parser = "legacy"]],
              allocations |-> x.allocations,
              units |-> x.units,
              accounts |-> x.accounts,
              properties |-> x.properties]
<1>1. PICK t, c, p, a, u, k, r :
        x = [tables |-> t, columns |-> c,
             payments |-> p, allocations |-> a,
             units |-> u, accounts |-> k, properties |-> r]
  BY DEF IsDatabase
<1>2. PICK m, n :
        /\ m = x.columns \cup {"parser_version"}
        /\ n = [i \in DOMAIN x.payments |-> [x.payments[i] EXCEPT !.parser = "legacy"]]
  OBVIOUS
<1>3. PICK y1 : y1 = [x EXCEPT !.columns = m]
  OBVIOUS
<1>4. y1 = [tables |-> t, columns |-> m,
            payments |-> p, allocations |-> a,
            units |-> u, accounts |-> k, properties |-> r]
  BY <1>1, <1>3
<1>5. AddParserProvenance(x) = [y1 EXCEPT !.payments = n]
  BY <1>2, <1>3 DEF AddParserProvenance
<1>6. @ = [tables |-> t, columns |-> m,
           payments |-> n, allocations |-> a,
           units |-> u, accounts |-> k, properties |-> r]
  BY <1>4
<1>7. x.tables = t /\ x.allocations = a /\ x.units = u /\ x.accounts = k /\ x.properties = r
  BY <1>1
<1> QED
  BY <1>2, <1>5, <1>6, <1>7

(***************************************************************************)
(* That of version 9.                                                      *)
(***************************************************************************)
LEMMA EvidenceAdded ==
    ASSUME NEW x, IsDatabase(x)
    PROVE  AddManualPaymentEvidence(x) =
             [tables |-> x.tables \cup {"manual_payment_evidence"},
              columns |-> x.columns \cup {"manual_evidence_id"},
              payments |-> [i \in DOMAIN x.payments |-> [source |-> "gmail", parser |-> x.payments[i].parser]],
              allocations |-> [i \in DOMAIN x.allocations |-> x.allocations[i]],
              units |-> x.units,
              accounts |-> x.accounts,
              properties |-> x.properties]
<1>1. PICK t, c, p, a, u, k, r :
        x = [tables |-> t, columns |-> c,
             payments |-> p, allocations |-> a,
             units |-> u, accounts |-> k, properties |-> r]
  BY DEF IsDatabase
<1>2. PICK m, n, o, q :
        /\ m = x.tables \cup {"manual_payment_evidence"}
        /\ n = x.columns \cup {"manual_evidence_id"}
        /\ o = [i \in DOMAIN x.payments |-> [source |-> "gmail", parser |-> x.payments[i].parser]]
        /\ q = [i \in DOMAIN x.allocations |-> x.allocations[i]]
  OBVIOUS
<1>3. PICK y1 : y1 = [x EXCEPT !.tables = m]
  OBVIOUS
<1>4. y1 = [tables |-> m, columns |-> c,
            payments |-> p, allocations |-> a,
            units |-> u, accounts |-> k, properties |-> r]
  BY <1>1, <1>3
<1>5. PICK y2 : y2 = [y1 EXCEPT !.columns = n]
  OBVIOUS
<1>6. y2 = [tables |-> m, columns |-> n,
            payments |-> p, allocations |-> a,
            units |-> u, accounts |-> k, properties |-> r]
  BY <1>4, <1>5
<1>7. PICK y3 : y3 = [y2 EXCEPT !.payments = o]
  OBVIOUS
<1>8. y3 = [tables |-> m, columns |-> n,
            payments |-> o, allocations |-> a,
            units |-> u, accounts |-> k, properties |-> r]
  BY <1>6, <1>7
<1>9. AddManualPaymentEvidence(x) = [y3 EXCEPT !.allocations = q]
  BY <1>2, <1>3, <1>5, <1>7 DEF AddManualPaymentEvidence
<1>10. @ = [tables |-> m, columns |-> n,
            payments |-> o, allocations |-> q,
            units |-> u, accounts |-> k, properties |-> r]
  BY <1>8
<1>11. x.units = u /\ x.accounts = k /\ x.properties = r
  BY <1>1
<1> QED
  BY <1>2, <1>9, <1>10, <1>11

(***************************************************************************)
(* That of version 10.                                                     *)
(***************************************************************************)
LEMMA RevisionsAdded ==
    ASSUME NEW x, IsDatabase(x)
    PROVE  AddManualPaymentRevisions(x) =
             [tables |-> x.tables \cup {"manual_payment_revisions"},
              columns |-> x.columns \cup {"voided_at"},
              payments |-> x.payments,
              allocations |-> x.allocations,
              units |-> x.units,
              accounts |-> x.accounts,
              properties |-> x.properties]
<1>1. PICK t, c, p, a, u, k, r :
        x = [tables |-> t, columns |-> c,
             payments |-> p, allocations |-> a,
             units |-> u, accounts |-> k, properties |-> r]
  BY DEF IsDatabase
<1>2. PICK m, n :
        /\ m = x.tables \cup {"manual_payment_revisions"}
        /\ n = x.columns \cup {"voided_at"}
  OBVIOUS
<1>3. PICK y1 : y1 = [x EXCEPT !.tables = m]
  OBVIOUS
<1>4. y1 = [tables |-> m, columns |-> c,
            payments |-> p, allocations |-> a,
            units |-> u, accounts |-> k, properties |-> r]
  BY <1>1, <1>3
<1>5. AddManualPaymentRevisions(x) = [y1 EXCEPT !.columns = n]
  BY <1>2, <1>3 DEF AddManualPaymentRevisions
<1>6. @ = [tables |-> m, columns |-> n,
           payments |-> p, allocations |-> a,
           units |-> u, accounts |-> k, properties |-> r]
  BY <1>4
<1>7. x.payments = p /\ x.allocations = a /\ x.units = u /\ x.accounts = k /\ x.properties = r
  BY <1>1
<1> QED
  BY <1>2, <1>5, <1>6, <1>7

(***************************************************************************)
(* That of version 14.                                                     *)
(***************************************************************************)
LEMMA PropertiesAdded ==
    ASSUME NEW x, IsDatabase(x)
    PROVE  AddProperties(x) =
             [tables |-> x.tables \cup {"properties"},
              columns |-> x.columns \cup {"property_id"},
              payments |-> x.payments,
              allocations |-> x.allocations,
              units |-> [i \in DOMAIN x.units |-> 1],
              accounts |-> x.accounts,
              properties |-> IF DOMAIN x.units = {} THEN {} ELSE {1}]
<1>1. PICK t, c, p, a, u, k, r :
        x = [tables |-> t, columns |-> c,
             payments |-> p, allocations |-> a,
             units |-> u, accounts |-> k, properties |-> r]
  BY DEF IsDatabase
<1>2. PICK m, n, o, q :
        /\ m = x.tables \cup {"properties"}
        /\ n = x.columns \cup {"property_id"}
        /\ o = IF DOMAIN x.units = {} THEN {} ELSE {1}
        /\ q = [i \in DOMAIN x.units |-> 1]
  OBVIOUS
<1>3. PICK y1 : y1 = [x EXCEPT !.tables = m]
  OBVIOUS
<1>4. y1 = [tables |-> m, columns |-> c,
            payments |-> p, allocations |-> a,
            units |-> u, accounts |-> k, properties |-> r]
  BY <1>1, <1>3
<1>5. PICK y2 : y2 = [y1 EXCEPT !.columns = n]
  OBVIOUS
<1>6. y2 = [tables |-> m, columns |-> n,
            payments |-> p, allocations |-> a,
            units |-> u, accounts |-> k, properties |-> r]
  BY <1>4, <1>5
<1>7. PICK y3 : y3 = [y2 EXCEPT !.properties = o]
  OBVIOUS
<1>8. y3 = [tables |-> m, columns |-> n,
            payments |-> p, allocations |-> a,
            units |-> u, accounts |-> k, properties |-> o]
  BY <1>6, <1>7
<1>9. AddProperties(x) = [y3 EXCEPT !.units = q]
  BY <1>2, <1>3, <1>5, <1>7 DEF AddProperties
<1>10. @ = [tables |-> m, columns |-> n,
            payments |-> p, allocations |-> a,
            units |-> q, accounts |-> k, properties |-> o]
  BY <1>8
<1>11. x.payments = p /\ x.allocations = a /\ x.accounts = k
  BY <1>1
<1> QED
  BY <1>2, <1>9, <1>10, <1>11

(***************************************************************************)
(* What the proofs need of the databases of a version.                     *)
(***************************************************************************)
LEMMA DatabaseOf ==
    ASSUME NEW v \in Versions, NEW db \in Databases(v)
    PROVE  /\ ForeignKeysHold(db)
           /\ db.tables = TablesByVersion(v) /\ db.columns = ExpectedColumns(v)
           /\ db = [tables |-> db.tables, columns |-> db.columns,
                    payments |-> db.payments, allocations |-> db.allocations,
                    units |-> db.units, accounts |-> db.accounts,
                    properties |-> db.properties]
           /\ \E S, R : db.payments \in [DOMAIN db.payments -> [source : S, parser : R]]
           /\ v < 9 => \A p \in DOMAIN db.payments : db.payments[p].source = "gmail"
           /\ db.allocations = [a \in DOMAIN db.allocations |-> db.allocations[a]]
<1>1. /\ ForeignKeysHold(db)
      /\ db \in [tables : {TablesByVersion(v)},
                 columns : {ExpectedColumns(v)},
                 payments : Rows(v >= 2,
                             [source : IF v >= 9 THEN {"gmail", "manual"} ELSE {"gmail"},
                              parser : IF v >= 8 THEN {"legacy", "current"} ELSE {"none"}]),
                 allocations : Rows(v >= 6, RowIds),
                 units : Rows(v >= 4, IF v >= 14 THEN RowIds ELSE {0}),
                 accounts : Rows(v >= 4, RowIds),
                 properties : IF v >= 14 THEN SUBSET RowIds ELSE {{}}]
  BY DEF Databases
<1>2. PICK S, R : /\ S = IF v >= 9 THEN {"gmail", "manual"} ELSE {"gmail"}
                  /\ R = IF v >= 8 THEN {"legacy", "current"} ELSE {"none"}
  OBVIOUS
<1>3. PICK ids : db.payments \in [ids -> [source : S, parser : R]]
  BY <1>1, <1>2 DEF Rows
<1>4. PICK as : db.allocations \in [as -> RowIds]
  BY <1>1 DEF Rows
<1>5. /\ db.tables = TablesByVersion(v) /\ db.columns = ExpectedColumns(v)
      /\ db = [tables |-> db.tables, columns |-> db.columns,
               payments |-> db.payments, allocations |-> db.allocations,
               units |-> db.units, accounts |-> db.accounts,
               properties |-> db.properties]
  BY <1>1
<1>6. db.payments \in [DOMAIN db.payments -> [source : S, parser : R]]
  BY <1>3
<1>7. ASSUME v < 9, NEW p \in DOMAIN db.payments
      PROVE  db.payments[p].source = "gmail"
  <2>1. S = {"gmail"}
    BY <1>2, <1>7 DEF Versions, CurrentVersion
  <2> QED
    BY <1>6, <2>1
<1> QED
  BY <1>1, <1>4, <1>5, <1>6, <1>7

(***************************************************************************)
(* Before the first migration nothing has changed.                         *)
(***************************************************************************)
LEMMA AfterNone ==
    ASSUME NEW v \in Versions, NEW db \in Databases(v)
    PROVE  After(db, v, v) = db
<1>1. ~(v < 8 /\ 8 <= v) /\ ~(v < 14 /\ 14 <= v)
  BY DEF Versions, CurrentVersion
<1>2. /\ PaymentsAfter(db, v, v) = db.payments
      /\ UnitsAfter(db, v, v) = db.units
      /\ PropertiesAfter(db, v, v) = db.properties
  BY <1>1 DEF PaymentsAfter, UnitsAfter, PropertiesAfter
<1> QED
  BY <1>2, DatabaseOf DEF After

(***************************************************************************)
(* The tables and columns of a version are those of the one before and     *)
(* what it adds.                                                           *)
(***************************************************************************)
LEMMA SchemaStep ==
    ASSUME NEW i \in 1 .. CurrentVersion
    PROVE  /\ TablesByVersion(i) = TablesByVersion(i - 1) \cup NewTables[i]
           /\ i = 8 => ExpectedColumns(i) = ExpectedColumns(i - 1) \cup {"parser_version"}
           /\ i = 9 => ExpectedColumns(i) = ExpectedColumns(i - 1) \cup {"manual_evidence_id"}
           /\ i = 10 => ExpectedColumns(i) = ExpectedColumns(i - 1) \cup {"voided_at"}
           /\ i = 14 => ExpectedColumns(i) = ExpectedColumns(i - 1) \cup {"property_id"}
           /\ i \notin {8, 9, 10, 14} => ExpectedColumns(i) = ExpectedColumns(i - 1)
<1>1. 1 .. i = (1 .. i - 1) \cup {i}
  OBVIOUS
<1>2. TablesByVersion(i) = TablesByVersion(i - 1) \cup NewTables[i]
  BY <1>1 DEF TablesByVersion
<1>3. i \in {1, 2, 3, 4, 5, 6, 7, 8, 9, 10, 11, 12, 13, 14, 15}
  BY DEF CurrentVersion
<1> QED
  BY <1>2, <1>3 DEF ExpectedColumns

(***************************************************************************)
(* Each migration takes a database from what it is at the version before   *)
(* to what it is at the next.                                              *)
(***************************************************************************)
LEMMA MigrationStep ==
    ASSUME NEW v \in Versions, NEW db \in Databases(v),
           NEW i \in v + 1 .. CurrentVersion
    PROVE  Migration(After(db, v, i - 1), i) = After(db, v, i)
<1>1. /\ v \in Nat /\ i \in 1 .. CurrentVersion /\ v < i
  BY DEF Versions, CurrentVersion
<1>2. After(db, v, i - 1).payments = PaymentsAfter(db, v, i - 1)
  BY DEF After
<1>3. After(db, v, i - 1).units = UnitsAfter(db, v, i - 1)
  BY DEF After
<1> DEFINE x == After(db, v, i - 1)
<1>4. /\ x.tables \cup NewTables[i] = TablesByVersion(i)
      /\ x.allocations = db.allocations
      /\ IsDatabase(x)
      /\ x.accounts = db.accounts /\ x.properties = PropertiesAfter(db, v, i - 1)
      /\ x.columns = ExpectedColumns(i - 1)
  BY <1>1, SchemaStep DEF After, IsDatabase
<1> HIDE DEF x
<1>5. CASE i = 8
  <2>1. /\ NewTables[i] = {} /\ x.tables \in SUBSET TablesByVersion(i)
        /\ ~(v < 8 /\ 8 <= i - 1) /\ v < 8 /\ 8 <= i /\ ~(14 <= i - 1) /\ ~(14 <= i)
    BY <1>1, <1>4, <1>5 DEF NewTables
  <2>2. x.tables = TablesByVersion(i)
    BY <1>4, <2>1
  <2>3. x.columns \cup {"parser_version"} = ExpectedColumns(i)
    BY <1>1, <1>4, <1>5, SchemaStep
  <2>4. [p \in DOMAIN x.payments |-> [x.payments[p] EXCEPT !.parser = "legacy"]]
          = PaymentsAfter(db, v, i)
    <3>1. x.payments = db.payments
      BY <1>2, <2>1 DEF PaymentsAfter, x
    <3>2. \A p \in DOMAIN db.payments :
            [db.payments[p] EXCEPT !.parser = "legacy"]
              = [source |-> db.payments[p].source, parser |-> "legacy"]
      <4>1. PICK S, R : db.payments \in [DOMAIN db.payments -> [source : S, parser : R]]
        BY DatabaseOf
      <4> QED
        BY <4>1
    <3> QED
      BY <2>1, <3>1, <3>2 DEF PaymentsAfter
  <2>5. x.units = UnitsAfter(db, v, i) /\ PropertiesAfter(db, v, i - 1) = PropertiesAfter(db, v, i)
    BY <1>3, <2>1 DEF UnitsAfter, PropertiesAfter, x
  <2>6. Migration(x, i) = AddParserProvenance(x)
    BY <1>5 DEF Migration
  <2>7. AddParserProvenance(x)
          = [tables |-> x.tables, columns |-> x.columns \cup {"parser_version"},
             payments |-> [p \in DOMAIN x.payments |->
                             [x.payments[p] EXCEPT !.parser = "legacy"]],
             allocations |-> x.allocations, units |-> x.units,
             accounts |-> db.accounts, properties |-> PropertiesAfter(db, v, i - 1)]
    BY <1>4, ProvenanceAdded
  <2>8. Migration(x, i) = After(db, v, i)
    BY <1>4, <2>2, <2>3, <2>4, <2>5, <2>6, <2>7 DEF After
  <2> QED
    BY <2>8 DEF x
<1>6. CASE i = 9
  <2>1. /\ NewTables[i] = {"manual_payment_evidence"}
        /\ v < 9 /\ ~(14 <= i - 1) /\ ~(14 <= i) /\ 8 <= i - 1 /\ 8 <= i
    BY <1>1, <1>6 DEF NewTables
  <2>2. x.tables \cup {"manual_payment_evidence"} = TablesByVersion(i)
    BY <1>4, <2>1
  <2>3. x.columns \cup {"manual_evidence_id"} = ExpectedColumns(i)
    BY <1>1, <1>4, <1>6, SchemaStep
  <2>4. [p \in DOMAIN x.payments |-> [source |-> "gmail", parser |-> x.payments[p].parser]]
          = PaymentsAfter(db, v, i)
    <3>1. \A p \in DOMAIN db.payments : db.payments[p].source = "gmail"
      BY <2>1, DatabaseOf
    <3>2. CASE v < 8
      BY <1>2, <2>1, <3>1, <3>2 DEF PaymentsAfter, x
    <3>3. CASE ~(v < 8)
      <4>1. x.payments = db.payments /\ PaymentsAfter(db, v, i) = db.payments
        BY <1>2, <3>3 DEF PaymentsAfter, x
      <4>2. PICK S, R : db.payments \in [DOMAIN db.payments -> [source : S, parser : R]]
        BY DatabaseOf
      <4>3. [p \in DOMAIN db.payments |-> [source |-> "gmail", parser |-> db.payments[p].parser]]
              = db.payments
        BY <3>1, <4>2
      <4> QED
        BY <4>1, <4>3
    <3> QED
      BY <3>2, <3>3
  <2>5. x.units = UnitsAfter(db, v, i) /\ PropertiesAfter(db, v, i - 1) = PropertiesAfter(db, v, i)
    BY <1>3, <2>1 DEF UnitsAfter, PropertiesAfter, x
  <2>6. [a \in DOMAIN x.allocations |-> x.allocations[a]] = db.allocations
    BY <1>4, DatabaseOf
  <2>7. Migration(x, i) = AddManualPaymentEvidence(x)
    BY <1>6 DEF Migration
  <2>8. AddManualPaymentEvidence(x)
          = [tables |-> x.tables \cup {"manual_payment_evidence"},
             columns |-> x.columns \cup {"manual_evidence_id"},
             payments |-> [p \in DOMAIN x.payments |->
                             [source |-> "gmail", parser |-> x.payments[p].parser]],
             allocations |-> [a \in DOMAIN x.allocations |-> x.allocations[a]],
             units |-> x.units, accounts |-> db.accounts,
             properties |-> PropertiesAfter(db, v, i - 1)]
    BY <1>4, EvidenceAdded
  <2>9. Migration(x, i) = After(db, v, i)
    BY <2>2, <2>3, <2>4, <2>5, <2>6, <2>7, <2>8 DEF After
  <2> QED
    BY <2>9 DEF x
<1>7. CASE i = 10
  <2>1. /\ NewTables[i] = {"manual_payment_revisions"}
        /\ ~(14 <= i - 1) /\ ~(14 <= i) /\ 8 <= i - 1 /\ 8 <= i
    BY <1>1, <1>7 DEF NewTables
  <2>2. x.tables \cup {"manual_payment_revisions"} = TablesByVersion(i)
    BY <1>4, <2>1
  <2>3. x.columns \cup {"voided_at"} = ExpectedColumns(i)
    BY <1>1, <1>4, <1>7, SchemaStep
  <2>4. x.payments = PaymentsAfter(db, v, i)
    BY <1>2, <2>1 DEF PaymentsAfter, x
  <2>5. x.units = UnitsAfter(db, v, i) /\ PropertiesAfter(db, v, i - 1) = PropertiesAfter(db, v, i)
    BY <1>3, <2>1 DEF UnitsAfter, PropertiesAfter, x
  <2>6. Migration(x, i) = AddManualPaymentRevisions(x)
    BY <1>7 DEF Migration
  <2>7. AddManualPaymentRevisions(x)
          = [tables |-> x.tables \cup {"manual_payment_revisions"},
             columns |-> x.columns \cup {"voided_at"}, payments |-> x.payments,
             allocations |-> x.allocations, units |-> x.units,
             accounts |-> db.accounts, properties |-> PropertiesAfter(db, v, i - 1)]
    BY <1>4, RevisionsAdded
  <2>8. Migration(x, i) = After(db, v, i)
    BY <1>4, <2>2, <2>3, <2>4, <2>5, <2>6, <2>7 DEF After
  <2> QED
    BY <2>8 DEF x
<1>8. CASE i = 14
  <2>1. /\ NewTables[i] = {"properties"}
        /\ v < 14 /\ ~(14 <= i - 1) /\ 14 <= i /\ 8 <= i - 1 /\ 8 <= i
    BY <1>1, <1>8 DEF NewTables
  <2>2. x.tables \cup {"properties"} = TablesByVersion(i)
    BY <1>4, <2>1
  <2>3. x.columns \cup {"property_id"} = ExpectedColumns(i)
    BY <1>1, <1>4, <1>8, SchemaStep
  <2>4. x.payments = PaymentsAfter(db, v, i)
    BY <1>2, <2>1 DEF PaymentsAfter, x
  <2>5. x.units = db.units
    BY <1>3, <2>1 DEF UnitsAfter, x
  <2>6. /\ [u \in DOMAIN x.units |-> 1] = UnitsAfter(db, v, i)
        /\ (IF DOMAIN x.units = {} THEN {} ELSE {1}) = PropertiesAfter(db, v, i)
    BY <2>1, <2>5 DEF UnitsAfter, PropertiesAfter
  <2>7. Migration(x, i) = AddProperties(x)
    BY <1>8 DEF Migration
  <2>8. AddProperties(x)
          = [tables |-> x.tables \cup {"properties"},
             columns |-> x.columns \cup {"property_id"}, payments |-> x.payments,
             allocations |-> x.allocations, units |-> [u \in DOMAIN x.units |-> 1],
             accounts |-> db.accounts,
             properties |-> IF DOMAIN x.units = {} THEN {} ELSE {1}]
    BY <1>4, PropertiesAdded
  <2>9. Migration(x, i) = After(db, v, i)
    BY <1>4, <2>2, <2>3, <2>4, <2>6, <2>7, <2>8 DEF After
  <2> QED
    BY <2>9 DEF x
<1>9. CASE i \notin {8, 9, 10, 14}
  <2>1. Migration(x, i) = [x EXCEPT !.tables = x.tables \cup NewTables[i]]
    BY <1>9 DEF Migration
  <2>2. (8 <= i - 1 <=> 8 <= i) /\ (14 <= i - 1 <=> 14 <= i)
    BY <1>1, <1>9 DEF CurrentVersion
  <2>3. x.columns = ExpectedColumns(i)
    BY <1>1, <1>4, <1>9, SchemaStep
  <2>4. /\ x.payments = PaymentsAfter(db, v, i) /\ x.units = UnitsAfter(db, v, i)
        /\ PropertiesAfter(db, v, i - 1) = PropertiesAfter(db, v, i)
    BY <1>2, <1>3, <2>2 DEF PaymentsAfter, UnitsAfter, PropertiesAfter, x
  <2>5. Migration(x, i)
          = [tables |-> x.tables \cup NewTables[i], columns |-> x.columns,
             payments |-> x.payments, allocations |-> x.allocations, units |-> x.units,
             accounts |-> db.accounts, properties |-> PropertiesAfter(db, v, i - 1)]
    BY <1>4, <2>1 DEF IsDatabase
  <2>6. Migration(x, i) = After(db, v, i)
    BY <1>4, <2>3, <2>4, <2>5 DEF After
  <2> QED
    BY <2>6 DEF x
<1> QED
  BY <1>5, <1>6, <1>7, <1>8, <1>9

(***************************************************************************)
(* What holds at v and passes from each version to the next holds at last. *)
(***************************************************************************)
LEMMA UpToCurrent ==
    ASSUME NEW v \in Versions, NEW S, v \in S,
           \A i \in v + 1 .. CurrentVersion : i - 1 \in S => i \in S
    PROVE  \A i \in v .. CurrentVersion : i \in S
<1>1. \A i \in v + 1 .. 15 : i - 1 \in S => i \in S
  BY DEF CurrentVersion
<1>2. v \in 0 .. 15
  BY DEF Versions, CurrentVersion
<1>3. v = 0 => 0 \in S
  OBVIOUS
<1>4. v <= 1 => 1 \in S
  BY <1>1, <1>2, <1>3
<1>5. v <= 2 => 2 \in S
  BY <1>1, <1>2, <1>4
<1>6. v <= 3 => 3 \in S
  BY <1>1, <1>2, <1>5
<1>7. v <= 4 => 4 \in S
  BY <1>1, <1>2, <1>6
<1>8. v <= 5 => 5 \in S
  BY <1>1, <1>2, <1>7
<1>9. v <= 6 => 6 \in S
  BY <1>1, <1>2, <1>8
<1>10. v <= 7 => 7 \in S
  BY <1>1, <1>2, <1>9
<1>11. v <= 8 => 8 \in S
  BY <1>1, <1>2, <1>10
<1>12. v <= 9 => 9 \in S
  BY <1>1, <1>2, <1>11
<1>13. v <= 10 => 10 \in S
  BY <1>1, <1>2, <1>12
<1>14. v <= 11 => 11 \in S
  BY <1>1, <1>2, <1>13
<1>15. v <= 12 => 12 \in S
  BY <1>1, <1>2, <1>14
<1>16. v <= 13 => 13 \in S
  BY <1>1, <1>2, <1>15
<1>17. v <= 14 => 14 \in S
  BY <1>1, <1>2, <1>16
<1>18. v <= 15 => 15 \in S
  BY <1>1, <1>2, <1>17
<1> QED
  BY <1>2, <1>3, <1>4, <1>5, <1>6, <1>7, <1>8, <1>9, <1>10, <1>11, <1>12, <1>13, <1>14, <1>15, <1>16, <1>17, <1>18 DEF CurrentVersion

(***************************************************************************)
(* An upgrade makes of a database what it is at the current version: the   *)
(* loop's recursive definition has a solution, and only one.               *)
(***************************************************************************)
LEMMA UpgradedIs ==
    ASSUME NEW v \in Versions, NEW db \in Databases(v)
    PROVE  Upgraded(db, v) = After(db, v, CurrentVersion)
<1> DEFINE IsLoop(f) ==
             f = [i \in v .. CurrentVersion |->
                    IF i = v THEN db ELSE Migration(f[i - 1], i)]
           loop == CHOOSE f : IsLoop(f)
<1>1. v \in Nat /\ v <= CurrentVersion /\ CurrentVersion \in Nat
  BY DEF Versions, CurrentVersion
<1>2. \E f : IsLoop(f)
  <2> DEFINE g == [i \in v .. CurrentVersion |-> After(db, v, i)]
  <2>1. ASSUME NEW i \in v .. CurrentVersion
        PROVE  g[i] = IF i = v THEN db ELSE Migration(g[i - 1], i)
    <3>1. CASE i = v
      BY <3>1, AfterNone
    <3>2. CASE i # v
      <4>1. i \in v + 1 .. CurrentVersion /\ i - 1 \in v .. CurrentVersion
        BY <1>1, <3>2
      <4>2. g[i] = After(db, v, i) /\ g[i - 1] = After(db, v, i - 1)
        BY <4>1
      <4> HIDE DEF g
      <4> QED
        BY <3>2, <4>1, <4>2, MigrationStep
    <3> QED
      BY <3>1, <3>2
  <2>2. g = [i \in v .. CurrentVersion |-> g[i]]
    OBVIOUS
  <2>3. IsLoop(g)
    <3> HIDE DEF g
    <3> QED
      BY <2>1, <2>2
  <2> HIDE DEF g, IsLoop
  <2> QED
    BY <2>3
<1>3. IsLoop(loop)
  <2> HIDE DEF IsLoop
  <2> QED
    BY <1>2, Zenon
<1>4. Upgraded(db, v) = loop[CurrentVersion]
  BY Zenon DEF Upgraded
<1> HIDE DEF loop
<1> DEFINE S == {i \in v .. CurrentVersion : loop[i] = After(db, v, i)}
<1>5. v \in S
  BY <1>1, <1>3, AfterNone
<1>6. ASSUME NEW i \in v + 1 .. CurrentVersion, i - 1 \in S
      PROVE  i \in S
  <2>1. i \in v .. CurrentVersion /\ i # v
    BY <1>1
  <2>2. loop[i] = Migration(loop[i - 1], i)
    BY <1>3, <2>1
  <2>3. loop[i - 1] = After(db, v, i - 1)
    BY <1>6
  <2> QED
    BY <2>1, <2>2, <2>3, MigrationStep
<1>7. CurrentVersion \in S
  <2> HIDE DEF S
  <2> QED
    BY <1>1, <1>5, <1>6, UpToCurrent
<1> QED
  BY <1>4, <1>7

-----------------------------------------------------------------------------
(* Every version is safe *)

(***************************************************************************)
(* Nothing is lost on the way, and every reference still holds.            *)
(***************************************************************************)
LEMMA AllPreserved ==
    ASSUME NEW v \in Versions, NEW db \in Databases(v)
    PROVE  Preserved(db, After(db, v, CurrentVersion))
<1> DEFINE new == After(db, v, CurrentVersion)
<1>1. CurrentVersion = 15 /\ v \in 0 .. 15
  BY DEF Versions, CurrentVersion
<1>2. /\ ForeignKeysHold(db) /\ db.columns = ExpectedColumns(v)
      /\ \E S, R : db.payments \in [DOMAIN db.payments -> [source : S, parser : R]]
  BY DatabaseOf
<1>3. /\ new.columns = ExpectedColumns(15) /\ new.payments = PaymentsAfter(db, v, 15)
      /\ new.allocations = db.allocations /\ new.accounts = db.accounts
      /\ new.units = UnitsAfter(db, v, 15) /\ new.properties = PropertiesAfter(db, v, 15)
  BY <1>1 DEF After
<1> HIDE DEF new
<1>4. /\ "parser_version" \in new.columns \ db.columns <=> v < 8
      /\ "property_id" \in new.columns \ db.columns <=> v < 14
  BY <1>1, <1>2, <1>3 DEF ExpectedColumns
<1>5. /\ DOMAIN new.payments = DOMAIN db.payments
      /\ \A p \in DOMAIN db.payments :
           /\ new.payments[p].source = db.payments[p].source
           /\ new.payments[p].parser = IF v < 8 THEN "legacy" ELSE db.payments[p].parser
  BY <1>3 DEF PaymentsAfter
<1>6. /\ DOMAIN new.units = DOMAIN db.units
      /\ v < 14 => /\ new.properties = {1 : u \in DOMAIN db.units}
                   /\ \A u \in DOMAIN db.units : new.units[u] = 1
      /\ ~(v < 14) => new.units = db.units /\ new.properties = db.properties
  BY <1>3 DEF UnitsAfter, PropertiesAfter
<1>7. ForeignKeysHold(new)
  <2>1. \A u \in DOMAIN new.units : new.units[u] \in new.properties \cup {0}
    BY <1>2, <1>6 DEF ForeignKeysHold
  <2> QED
    BY <1>2, <1>3, <1>5, <1>6, <2>1 DEF ForeignKeysHold
<1>8. Preserved(db, new)
  BY <1>3, <1>4, <1>5, <1>6, <1>7 DEF Preserved
<1> QED
  BY <1>8 DEF new

(***************************************************************************)
(* Whatever rows it holds, under whatever ids, a database of any version   *)
(* is taken for that version alone, and the migrations bring it to the     *)
(* current one with every payment, allocation, unit and account it had and *)
(* the references between them.                                            *)
(***************************************************************************)
THEOREM EveryVersionIsSafe == SafeVersions = 0 .. CurrentVersion
<1>1. ASSUME NEW v \in 0 .. CurrentVersion, NEW db \in Databases(v)
      PROVE  /\ Detected(db) = {v}
             /\ Detected(Upgraded(db, v)) = {CurrentVersion}
             /\ Preserved(db, Upgraded(db, v))
  <2>1. v \in Versions /\ CurrentVersion \in Versions
    BY DEF Versions, CurrentVersion
  <2>2. db.tables = TablesByVersion(v) /\ db.columns = ExpectedColumns(v)
    BY <2>1, DatabaseOf
  <2>3. /\ Upgraded(db, v).tables = TablesByVersion(CurrentVersion)
        /\ Upgraded(db, v).columns = ExpectedColumns(CurrentVersion)
    BY <2>1, UpgradedIs DEF After
  <2>4. Detected(db) = {v}
    BY <2>1, <2>2, DetectedAs
  <2>5. Detected(Upgraded(db, v)) = {CurrentVersion}
    BY <2>1, <2>3, DetectedAs
  <2>6. Preserved(db, Upgraded(db, v))
    BY <2>1, UpgradedIs, AllPreserved
  <2> QED
    BY <2>4, <2>5, <2>6
<1> QED
  BY <1>1 DEF SafeVersions

(***************************************************************************)
(* So whatever a transaction of an upgrade finds or has reached, the       *)
(* migrations that are left keep every row.                                *)
(***************************************************************************)
THEOREM RowsAreKept == UpgradeSpec => []MigrationsKeepRows
<1>1. MigrationsKeepRows
  <2>1. ASSUME NEW schema PROVE StandsFor(schema) \subseteq 0 .. CurrentVersion
    BY DEF StandsFor, CurrentVersion
  <2> QED
    BY <2>1, EveryVersionIsSafe DEF MigrationsKeepRows
<1> QED
  BY <1>1, PTL
=============================================================================
