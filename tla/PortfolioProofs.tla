-------------------------- MODULE PortfolioProofs ---------------------------
(***************************************************************************)
(* Proofs about Portfolio, for any rows and any number of setup commands:  *)
(* no reference dangles, a setup stays in force whatever overlaps it, and  *)
(* a unit and the expenses made for it are of one property.                *)
(***************************************************************************)
EXTENDS Portfolio, TLAPS

UnitRows == [property : Properties, label : Labels]

(***************************************************************************)
(* The types of the rows.                                                  *)
(***************************************************************************)
Rows ==
    /\ properties \subseteq Properties
    /\ unit \in [Units -> UnitRows \cup {NoUnit}]
    /\ payers \subseteq Payers
    /\ alias \in [Senders -> Payers \cup {"none"}]
    /\ home \in [Accounts -> Units \cup {"none"}]
    /\ member \subseteq Accounts \X Payers
    /\ expense \in [Expenses -> [property : Properties \cup {"none"},
                                 unit : Units \cup {"none"},
                                 state : {"none", "active", "void"}]]
    /\ setup \in [Setups -> Requests \cup {NoRequest}]
    /\ promised \subseteq Accounts \X Senders

(***************************************************************************)
(* Every row that a row refers to is there: the FOREIGN KEYs of the tables *)
(* payer_aliases, rent_accounts, rent_account_payers, units and            *)
(* property_expenses.                                                      *)
(***************************************************************************)
NothingDangles ==
    /\ \A u \in Units : UnitExists(u) => unit[u].property \in properties
    /\ \A n \in Senders : alias[n] # "none" => alias[n] \in payers
    /\ \A a \in Accounts : home[a] # "none" => UnitExists(home[a])
    /\ \A q \in member : home[q[1]] # "none" /\ q[2] \in payers
    /\ \A x \in Expenses : expense[x].unit # "none" => UnitExists(expense[x].unit)

PortfolioInv == Rows /\ NothingDangles /\ SetupHolds /\ OneProperty

-----------------------------------------------------------------------------
(***************************************************************************)
(* What a request names is of the kind it is named as.                     *)
(***************************************************************************)
LEMMA RequestFields ==
    ASSUME NEW r \in Requests
    PROVE  /\ r.unit \in Units \cup {"new"} /\ r.payer \in Payers \cup {"new"}
           /\ r.senders \subseteq Senders
           /\ r.unit = "new" => r.property \in Properties /\ r.label \in Labels \cup {"none"}
           /\ r.unit = "new" <=> r.label # "none"
BY DEF Requests

(***************************************************************************)
(* The tables are empty at first.                                          *)
(***************************************************************************)
LEMMA InitPortfolio == Init => PortfolioInv
BY SMTT(30) DEF Init, PortfolioInv, Rows, NothingDangles, SetupHolds, OneProperty,
       UnitExists, NoUnit, NoExpense, UnitRows

(***************************************************************************)
(* A row of units is added: to one that is not there, with a label that is *)
(* free in a property that is there.                                       *)
(***************************************************************************)
NewUnit(u, p, l) ==
    /\ u \in Units /\ p \in properties /\ l \in Labels
    /\ ~UnitExists(u) /\ LabelFree(p, l)
    /\ unit' = [unit EXCEPT ![u] = [property |-> p, label |-> l]]

LEMMA NewUnitKeepsUnits ==
    ASSUME Rows, NothingDangles, OneProperty, properties' = properties, UNCHANGED expense,
           NEW u, NEW p, NEW l, NewUnit(u, p, l)
    PROVE  /\ unit' \in [Units -> UnitRows \cup {NoUnit}]
           /\ \A v \in Units : UnitExists(v) => UnitExists(v)'
           /\ UnitExists(u)'
           /\ \A v \in Units : UnitExists(v)' => unit'[v].property \in properties'
           /\ OneProperty'
<1> DEFINE row == [property |-> p, label |-> l]
<1>1. p \in Properties /\ row \in UnitRows
  BY DEF Rows, NewUnit, UnitRows
<1>2. row # NoUnit /\ row.property = p
  BY <1>1, PortfolioConstants DEF NoUnit
<1>3. unit' = [unit EXCEPT ![u] = row] /\ u \in Units /\ p \in properties
  BY DEF NewUnit
<1>4. \A v \in Units : unit[v] # row /\ unit[u] = NoUnit
  BY DEF NewUnit, LabelFree, UnitExists
<1> HIDE DEF row
<1>5. /\ unit'[u] = row
      /\ \A v \in Units : v # u => unit'[v] = unit[v]
      /\ unit' \in [Units -> UnitRows \cup {NoUnit}]
  BY <1>1, <1>3 DEF Rows
<1>6. /\ \A v \in Units : UnitExists(v) => UnitExists(v)'
      /\ UnitExists(u)'
      /\ \A v \in Units : UnitExists(v)' => unit'[v].property \in properties'
  BY <1>2, <1>3, <1>4, <1>5 DEF UnitExists, NothingDangles
<1>7. \A v, w \in Units : UnitExists(v)' /\ unit'[v] = unit'[w] => v = w
  BY <1>4, <1>5 DEF OneProperty, UnitExists
<1>8. \A x \in Expenses : expense'[x].unit # "none"
        => unit'[expense'[x].unit].property = expense'[x].property
  BY <1>4, <1>5 DEF OneProperty, NothingDangles, UnitExists
<1> QED
  BY <1>5, <1>6, <1>7, <1>8 DEF OneProperty, UnitExists

-----------------------------------------------------------------------------
(***************************************************************************)
(* The steps, one group of commands at a time.                             *)
(***************************************************************************)
LEMMA RentalKeeps ==
    ASSUME PortfolioInv, RentalNext
    PROVE  PortfolioInv'
<1> USE DEF PortfolioInv
<1>1. ASSUME NEW p \in Properties, AddProperty(p)
      PROVE  PortfolioInv'
  BY <1>1 DEF AddProperty, Rows, NothingDangles, SetupHolds, OneProperty, UnitExists
<1>2. ASSUME NEW u \in Units, NEW p \in Properties, NEW l \in Labels, AddUnit(u, p, l)
      PROVE  PortfolioInv'
  <2>1. NewUnit(u, p, l) /\ properties' = properties /\ UNCHANGED expense
    BY <1>2 DEF AddUnit, NewUnit
  <2>2. /\ unit' \in [Units -> UnitRows \cup {NoUnit}]
        /\ \A v \in Units : UnitExists(v) => UnitExists(v)'
        /\ \A v \in Units : UnitExists(v)' => unit'[v].property \in properties'
        /\ OneProperty'
    BY <2>1, NewUnitKeepsUnits
  <2>3. Rows' /\ SetupHolds'
    BY <1>2, <2>2 DEF AddUnit, Rows, SetupHolds
  <2>4. NothingDangles'
    BY <1>2, <2>2 DEF AddUnit, NothingDangles, Rows
  <2> QED
    BY <2>2, <2>3, <2>4
<1>3. ASSUME NEW a \in Accounts, NEW u \in Units, AddAccount(a, u)
      PROVE  PortfolioInv'
  <2>1. Rows'
    BY <1>3 DEF AddAccount, Rows
  <2>2. NothingDangles'
    <3>1. \A b \in Accounts : home'[b] # "none" => UnitExists(home[b])'
      BY <1>3 DEF AddAccount, NothingDangles, Rows, UnitExists
    <3>2. \A q \in member' : home'[q[1]] # "none" /\ q[2] \in payers'
      <4>1. u # "none"
        BY PortfolioConstants
      <4> QED
        BY <1>3, <4>1 DEF AddAccount, NothingDangles, Rows
    <3> QED
      BY <1>3, <3>1, <3>2 DEF AddAccount, NothingDangles, UnitExists
  <2>3. SetupHolds' /\ OneProperty'
    BY <1>3 DEF AddAccount, SetupHolds, OneProperty, UnitExists
  <2> QED
    BY <2>1, <2>2, <2>3
<1>4. ASSUME NEW a \in Accounts, NEW y \in Payers, AssociatePayer(a, y)
      PROVE  PortfolioInv'
  BY <1>4 DEF AssociatePayer, Rows, NothingDangles, SetupHolds, OneProperty, UnitExists
<1>5. ASSUME NEW a \in Accounts, NEW y \in Payers, RemovePayer(a, y)
      PROVE  PortfolioInv'
  <2>1. Rows' /\ NothingDangles' /\ OneProperty'
    BY <1>5 DEF RemovePayer, Rows, NothingDangles, OneProperty, UnitExists
  <2>2. SetupHolds'
    <3> SUFFICES ASSUME NEW q \in promised'
                 PROVE  alias'[q[2]] # "none" /\ <<q[1], alias'[q[2]]>> \in member'
      BY DEF SetupHolds
    <3>1. q \in promised /\ ~(q[1] = a /\ alias[q[2]] = y)
      BY <1>5 DEF RemovePayer
    <3>2. alias[q[2]] # "none" /\ <<q[1], alias[q[2]]>> \in member
      BY <3>1 DEF SetupHolds
    <3> QED
      BY <1>5, <3>1, <3>2 DEF RemovePayer
  <2> QED
    BY <2>1, <2>2
<1> QED
  BY <1>1, <1>2, <1>3, <1>4, <1>5 DEF RentalNext

LEMMA IdentityKeeps ==
    ASSUME PortfolioInv, IdentityNext
    PROVE  PortfolioInv'
<1> USE DEF PortfolioInv
<1>1. PICK y \in Payers : AddPayer(y) \/ \E n \in Senders : AddAlias(n, y) \/ RemoveAlias(n, y)
  BY DEF IdentityNext
<1>2. CASE AddPayer(y)
  BY <1>2 DEF AddPayer, Rows, NothingDangles, SetupHolds, OneProperty, UnitExists
<1>3. ASSUME NEW n \in Senders, AddAlias(n, y)
      PROVE  PortfolioInv'
  <2>1. Rows' /\ NothingDangles' /\ OneProperty'
    BY <1>3 DEF AddAlias, Rows, NothingDangles, OneProperty, UnitExists
  <2>2. SetupHolds'
    BY <1>3 DEF AddAlias, SetupHolds, Rows
  <2> QED
    BY <2>1, <2>2
<1>4. ASSUME NEW n \in Senders, RemoveAlias(n, y)
      PROVE  PortfolioInv'
  <2>1. Rows' /\ NothingDangles' /\ OneProperty'
    BY <1>4 DEF RemoveAlias, Rows, NothingDangles, OneProperty, UnitExists
  <2>2. SetupHolds'
    BY <1>4 DEF RemoveAlias, SetupHolds, Rows
  <2> QED
    BY <2>1, <2>2
<1> QED
  BY <1>1, <1>2, <1>3, <1>4

LEMMA ExpensesKeep ==
    ASSUME PortfolioInv, ExpenseNext
    PROVE  PortfolioInv'
<1> USE DEF PortfolioInv
<1>1. PICK x \in Expenses :
        \/ \E p \in Properties, u \in Units \cup {"none"} : CreateExpense(x, p, u)
        \/ VoidExpense(x)
  BY DEF ExpenseNext
<1>2. ASSUME NEW p \in Properties, NEW u \in Units \cup {"none"}, CreateExpense(x, p, u)
      PROVE  PortfolioInv'
  <2> DEFINE row == [property |-> p, unit |-> u, state |-> "active"]
  <2>1. /\ row \in [property : Properties \cup {"none"}, unit : Units \cup {"none"},
                    state : {"none", "active", "void"}]
        /\ row.unit = u /\ row.property = p
    OBVIOUS
  <2>2. expense' = [expense EXCEPT ![x] = row]
    BY <1>2 DEF CreateExpense
  <2> HIDE DEF row
  <2>3. Rows' /\ SetupHolds'
    BY <1>2, <2>1, <2>2 DEF CreateExpense, Rows, SetupHolds
  <2>4. expense'[x] = row /\ \A z \in Expenses : z # x => expense'[z] = expense[z]
    BY <2>2 DEF Rows
  <2>5. NothingDangles' /\ OneProperty'
    BY <1>2, <2>1, <2>4 DEF CreateExpense, NothingDangles, OneProperty, UnitExists
  <2> QED
    BY <2>3, <2>5
<1>3. CASE VoidExpense(x)
  <2>1. \A z \in Expenses : /\ expense'[z].unit = expense[z].unit
                            /\ expense'[z].property = expense[z].property
    BY <1>3 DEF VoidExpense, Rows
  <2>2. Rows' /\ SetupHolds'
    BY <1>3 DEF VoidExpense, Rows, SetupHolds
  <2>3. NothingDangles' /\ OneProperty'
    BY <1>3, <2>1 DEF VoidExpense, NothingDangles, OneProperty, UnitExists
  <2> QED
    BY <2>2, <2>3
<1> QED
  BY <1>1, <1>2, <1>3

(***************************************************************************)
(* apply_checked: what a request says of names that are taken was resolved *)
(* again, so a name that already stands for somebody stands for its payer. *)
(***************************************************************************)
LEMMA SetupApplyKeeps ==
    ASSUME PortfolioInv, NEW s \in Setups, NEW u \in Units, NEW y \in Payers,
           NEW a \in Accounts, SetupApply(s, u, y, a)
    PROVE  PortfolioInv'
<1> USE DEF PortfolioInv
<1> DEFINE r == setup[s]
<1>1. r \in Requests
  BY DEF SetupApply, Rows
<1>2. /\ r.unit \in Units \cup {"new"} /\ r.payer \in Payers \cup {"new"}
      /\ r.senders \subseteq Senders
      /\ r.unit = "new" => r.property \in Properties /\ r.label \in Labels
      /\ r.payer # "new" => y = r.payer
      /\ "new" \notin Payers /\ "none" \notin Payers /\ "new" \notin Units /\ "none" \notin Units
  BY <1>1, RequestFields, PortfolioConstants DEF SetupApply, Insert
<1>3. /\ unit' \in [Units -> UnitRows \cup {NoUnit}]
      /\ \A v \in Units : UnitExists(v) => UnitExists(v)'
      /\ \A v \in Units : UnitExists(v)' => unit'[v].property \in properties'
      /\ UnitExists(u)'
      /\ OneProperty'
  <2>1. CASE r.unit = "new"
    <3>1. NewUnit(u, r.property, r.label)
      BY <1>2, <2>1 DEF SetupApply, Insert, Resolves, RowsResolve, NewUnit
    <3>2. properties' = properties /\ UNCHANGED expense
      BY DEF SetupApply, Insert
    <3> QED
      BY <3>1, <3>2, NewUnitKeepsUnits
  <2>2. CASE r.unit # "new"
    <3>1. u = r.unit /\ UnitExists(u) /\ unit' = unit /\ properties' = properties
          /\ expense' = expense
      BY <2>2 DEF SetupApply, Insert, Resolves, RowsResolve
    <3> QED
      BY <3>1 DEF Rows, NothingDangles, OneProperty, UnitExists
  <2> QED
    BY <2>1, <2>2
<1>4. /\ alias' = [n \in Senders |-> IF n \in r.senders THEN y ELSE alias[n]]
      /\ \A n \in r.senders : alias[n] \in {"none", r.payer}
      /\ payers' = payers \cup {y} /\ home' = [home EXCEPT ![a] = u] /\ home[a] = "none"
      /\ member' = member \cup {<<a, y>>}
      /\ promised' = promised \cup {<<a, n>> : n \in r.senders}
      /\ setup' = [setup EXCEPT ![s] = NoRequest]
      /\ UNCHANGED <<properties, expense, voids>>
  BY DEF SetupApply, Insert, Resolves, NamesResolve
<1> HIDE DEF r
<1>5. Rows'
  BY <1>2, <1>3, <1>4 DEF Rows
<1>6. NothingDangles'
  <2>1. \A n \in Senders : alias'[n] # "none" => alias'[n] \in payers'
    BY <1>4 DEF NothingDangles, Rows
  <2>2. /\ home' \in [Accounts -> Units \cup {"none"}] /\ home'[a] = u /\ u # "none"
        /\ \A b \in Accounts : b # a => home'[b] = home[b]
    BY <1>2, <1>4 DEF Rows
  <2>3. \A b \in Accounts : home'[b] # "none" => UnitExists(home[b])'
    BY <1>3, <2>2 DEF NothingDangles, Rows
  <2>4. \A q \in member' : home'[q[1]] # "none" /\ q[2] \in payers'
    BY <1>4, <2>2 DEF NothingDangles, Rows
  <2>5. \A x \in Expenses : expense'[x].unit # "none" => UnitExists(expense[x].unit)'
    <3>1. \A x \in Expenses : expense[x].unit \in Units \cup {"none"}
      BY DEF Rows
    <3> QED
      BY <1>3, <1>4, <3>1 DEF NothingDangles
  <2> QED
    BY <1>3, <2>1, <2>3, <2>4, <2>5 DEF NothingDangles
<1>7. SetupHolds'
  <2> SUFFICES ASSUME NEW q \in promised'
               PROVE  alias'[q[2]] # "none" /\ <<q[1], alias'[q[2]]>> \in member'
    BY DEF SetupHolds
  <2>1. CASE q \in promised
    <3>1. /\ q[2] \in Senders /\ alias[q[2]] # "none"
          /\ <<q[1], alias[q[2]]>> \in member
      BY <2>1 DEF SetupHolds, Rows
    <3>2. alias[q[2]] \in Payers
      BY <3>1 DEF Rows
    <3>3. q[2] \in r.senders => alias[q[2]] = y
      BY <1>2, <1>4, <3>1, <3>2
    <3> QED
      BY <1>4, <3>1, <3>3
  <2>2. ASSUME NEW n \in r.senders, q = <<a, n>>
        PROVE  alias'[q[2]] # "none" /\ <<q[1], alias'[q[2]]>> \in member'
    BY <1>2, <1>4, <2>2
  <2> QED
    BY <1>4, <2>1, <2>2
<1> QED
  BY <1>3, <1>5, <1>6, <1>7

LEMMA SetupKeeps ==
    ASSUME PortfolioInv, SetupNext
    PROVE  PortfolioInv'
<1>1. PICK s \in Setups :
        \/ \E r \in Requests : SetupPreview(s, r)
        \/ \E u \in Units, y \in Payers, a \in Accounts : SetupApply(s, u, y, a)
        \/ SetupEnd(s)
  BY DEF SetupNext
<1>2. CASE (\E r \in Requests : SetupPreview(s, r)) \/ SetupEnd(s)
  BY <1>2 DEF SetupPreview, SetupEnd, tables, PortfolioInv, Rows, NothingDangles,
              SetupHolds, OneProperty, UnitExists
<1> QED
  BY <1>1, <1>2, SetupApplyKeeps

LEMMA NextKeepsPortfolio == PortfolioInv /\ [Next]_vars => PortfolioInv'
<1> SUFFICES ASSUME PortfolioInv, [Next]_vars
             PROVE  PortfolioInv'
  OBVIOUS
<1>1. CASE UNCHANGED vars
  BY <1>1 DEF vars, tables, PortfolioInv, Rows, NothingDangles, SetupHolds, OneProperty,
              UnitExists
<1> QED
  BY <1>1, RentalKeeps, IdentityKeeps, ExpensesKeep, SetupKeeps DEF Next

LEMMA PortfolioInvariant == Spec => []PortfolioInv
BY InitPortfolio, NextKeepsPortfolio, PTL DEF Spec

-----------------------------------------------------------------------------
(***************************************************************************)
(* No alias, association, account, unit or expense ever refers to a row    *)
(* that is not there: a guided setup that is applied long after its        *)
(* preview inserts rows whose references hold at that moment.              *)
(***************************************************************************)
THEOREM ReferencesHold == Spec => []NothingDangles
BY PortfolioInvariant, PTL DEF PortfolioInv

(***************************************************************************)
(* A payment from a sender that a guided setup named is attributed to a    *)
(* payer of its account until the owner removes the alias or the           *)
(* association: apply_checked resolves every name again, so that it never  *)
(* takes over a name that became somebody else's after the preview.        *)
(***************************************************************************)
THEOREM SetupStays == Spec => []SetupHolds
BY PortfolioInvariant, PTL DEF PortfolioInv

(***************************************************************************)
(* Units are told apart by property and label, and an expense of a unit is *)
(* counted for that unit's property, whatever setups and commands overlap. *)
(***************************************************************************)
THEOREM UnitsOfOneProperty == Spec => []OneProperty
BY PortfolioInvariant, PTL DEF PortfolioInv
=============================================================================
