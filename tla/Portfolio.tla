----------------------------- MODULE Portfolio ------------------------------
(***************************************************************************)
(* What rent is charged for and who pays it: properties and their units,   *)
(* payers and the sender names they use, rent accounts and the payers      *)
(* associated with them, and the expenses of a property.  Rows are only    *)
(* added, but for aliases and associations, which the owner may remove.    *)
(*                                                                         *)
(* A guided setup inspects the tables, connection by connection, before it *)
(* takes the writer lock; what it found may have changed by then, so it    *)
(* resolves everything again and inserts all or nothing.  The single-row   *)
(* commands check and insert without the lock, but only what the table's   *)
(* UNIQUE and FOREIGN KEY constraints decide once more: one action each.   *)
(* The ranges, charges and schedules of an account are in Tenancy.  What   *)
(* is called how is left out, and so are the commands that rename.         *)
(***************************************************************************)
EXTENDS Integers, FiniteSets

CONSTANTS
    Properties, Units, Payers, Accounts, Expenses,  \* row ids
    Labels,        \* unit labels
    Senders,       \* normalized sender names; a payer's name is one as well
    Setups         \* setup commands that may overlap

ASSUME PortfolioConstants ==
    {"new", "none"} \cap (Properties \cup Units \cup Payers \cup Senders) = {}

VARIABLES
    properties,    \* ids of the rows of properties
    unit,          \* units
    payers,        \* ids of the rows of payers
    alias,         \* payer_aliases: the payer of each sender name
    home,          \* rent_accounts: the unit of each
    member,        \* rent_account_payers
    expense,       \* property_expenses
    voids,         \* property_expense_voids
    setup,         \* the request each setup command has inspected
    promised       \* history: senders a setup said pay for an account, unless
                   \* their alias or the association was removed since

tables == <<properties, unit, payers, alias, home, member, expense, voids>>
vars   == <<tables, setup, promised>>

NoUnit    == [property |-> "none", label |-> "none"]
NoExpense == [property |-> "none", unit |-> "none", state |-> "none"]
NoRequest == [unit |-> "none", property |-> "none", label |-> "none",
              payer |-> "none", senders |-> {}]

(***************************************************************************)
(* --unit names a row, --unit-label with --property asks for a new one;    *)
(* likewise --payer and --payer-name.  The name of a new payer is among    *)
(* the aliases (_effective_aliases).                                       *)
(***************************************************************************)
Requests ==
    {r \in [unit : Units \cup {"new"}, property : Properties \cup {"none"},
            label : Labels \cup {"none"}, payer : Payers \cup {"new"},
            senders : SUBSET Senders] :
       /\ r.unit = "new" <=> r.property # "none"
       /\ r.unit = "new" <=> r.label # "none"
       /\ r.payer = "new" => r.senders # {}}

UnitExists(u) == u \in Units /\ unit[u] # NoUnit
LabelFree(p, l) == \A u \in Units : unit[u] # [property |-> p, label |-> l]

-----------------------------------------------------------------------------
Init ==
    /\ properties = {} /\ payers = {}
    /\ unit = [u \in Units |-> NoUnit]
    /\ alias = [n \in Senders |-> "none"]
    /\ home = [a \in Accounts |-> "none"]
    /\ member = {}
    /\ expense = [x \in Expenses |-> NoExpense]
    /\ voids = {}
    /\ setup = [s \in Setups |-> NoRequest]
    /\ promised = {}

(***************************************************************************)
(* property add, payer add, unit add, rent-account add.                    *)
(***************************************************************************)
AddProperty(p) ==
    /\ p \notin properties
    /\ properties' = properties \cup {p}
    /\ UNCHANGED <<unit, payers, alias, home, member, expense, voids, setup, promised>>

AddPayer(y) ==
    /\ y \notin payers
    /\ payers' = payers \cup {y}
    /\ UNCHANGED <<properties, unit, alias, home, member, expense, voids, setup, promised>>

AddUnit(u, p, l) ==
    /\ ~UnitExists(u)
    /\ p \in properties
    /\ LabelFree(p, l)
    /\ unit' = [unit EXCEPT ![u] = [property |-> p, label |-> l]]
    /\ UNCHANGED <<properties, payers, alias, home, member, expense, voids, setup, promised>>

AddAccount(a, u) ==
    /\ home[a] = "none" /\ UnitExists(u)
    /\ home' = [home EXCEPT ![a] = u]
    /\ UNCHANGED <<properties, unit, payers, alias, member, expense, voids, setup, promised>>

-----------------------------------------------------------------------------
(* Identity *)

(***************************************************************************)
(* payer alias-add and alias-remove, rent-account add-payer and            *)
(* remove-payer.  A name belongs to at most one payer.                     *)
(***************************************************************************)
AddAlias(n, y) ==
    /\ y \in payers
    /\ alias[n] = "none"
    /\ alias' = [alias EXCEPT ![n] = y]
    /\ UNCHANGED <<properties, unit, payers, home, member, expense, voids, setup, promised>>

RemoveAlias(n, y) ==
    /\ alias[n] = y
    /\ alias' = [alias EXCEPT ![n] = "none"]
    /\ promised' = {q \in promised : q[2] # n}
    /\ UNCHANGED <<properties, unit, payers, home, member, expense, voids, setup>>

AssociatePayer(a, y) ==
    /\ home[a] # "none" /\ y \in payers
    /\ <<a, y>> \notin member
    /\ member' = member \cup {<<a, y>>}
    /\ UNCHANGED <<properties, unit, payers, alias, home, expense, voids, setup, promised>>

RemovePayer(a, y) ==
    /\ <<a, y>> \in member
    /\ member' = member \ {<<a, y>>}
    /\ promised' = {q \in promised : ~(q[1] = a /\ alias[q[2]] = y)}
    /\ UNCHANGED <<properties, unit, payers, alias, home, expense, voids, setup>>

-----------------------------------------------------------------------------
(* Expenses *)

(***************************************************************************)
(* Mutant of CreateExpense: the unit only has to exist.                    *)
(***************************************************************************)
CreateExpenseAnyUnit(x, p, u) ==
    /\ expense[x] = NoExpense
    /\ p \in properties
    /\ u = "none" \/ UnitExists(u)
    /\ expense' = [expense EXCEPT ![x] = [property |-> p, unit |-> u, state |-> "active"]]
    /\ UNCHANGED <<properties, unit, payers, alias, home, member, voids, setup, promised>>

(***************************************************************************)
(* expense add: a unit, if one is named, must be of that property.         *)
(***************************************************************************)
CreateExpense(x, p, u) ==
    /\ expense[x] = NoExpense
    /\ p \in properties
    /\ u = "none" \/ (UnitExists(u) /\ unit[u].property = p)
    /\ expense' = [expense EXCEPT ![x] = [property |-> p, unit |-> u, state |-> "active"]]
    /\ UNCHANGED <<properties, unit, payers, alias, home, member, voids, setup, promised>>

VoidExpense(x) ==
    /\ expense[x].state = "active"
    /\ expense' = [expense EXCEPT ![x].state = "void"]
    /\ voids' = voids \cup {x}
    /\ UNCHANGED <<properties, unit, payers, alias, home, member, setup, promised>>

-----------------------------------------------------------------------------
(* setup tenancy *)

(***************************************************************************)
(* What preview_tenancy_setup and apply_checked both ask of a request: the *)
(* rows it names exist, the label it brings is free in its property, and   *)
(* none of its names is somebody else's.                                   *)
(***************************************************************************)
RowsResolve(r) ==
    /\ IF r.unit = "new" THEN r.property \in properties /\ LabelFree(r.property, r.label)
                         ELSE UnitExists(r.unit)
    /\ r.payer = "new" \/ r.payer \in payers

NamesResolve(r) == \A n \in r.senders : alias[n] \in {"none", r.payer}

Resolves(r) == RowsResolve(r) /\ NamesResolve(r)

(***************************************************************************)
(* The preview.  Without --apply the command ends here.                    *)
(***************************************************************************)
SetupPreview(s, r) ==
    /\ setup[s] = NoRequest
    /\ Resolves(r)
    /\ setup' = [setup EXCEPT ![s] = r]
    /\ UNCHANGED <<tables, promised>>

(***************************************************************************)
(* The rows a request is applied to.                                       *)
(***************************************************************************)
Insert(s, u, y, a) ==
    LET r == setup[s] IN
    /\ IF r.unit = "new" THEN u \in Units /\ ~UnitExists(u) ELSE u = r.unit
    /\ IF r.payer = "new" THEN y \in Payers \ payers ELSE y = r.payer
    /\ home[a] = "none"
    /\ unit' = IF r.unit = "new"
               THEN [unit EXCEPT ![u] = [property |-> r.property, label |-> r.label]]
               ELSE unit
    /\ payers' = payers \cup {y}
    /\ home' = [home EXCEPT ![a] = u]
    /\ member' = member \cup {<<a, y>>}
    /\ promised' = promised \cup {<<a, n>> : n \in r.senders}
    /\ setup' = [setup EXCEPT ![s] = NoRequest]
    /\ UNCHANGED <<properties, expense, voids>>

(***************************************************************************)
(* Mutant of SetupApply: names that have become somebody else's are passed *)
(* over.                                                                   *)
(***************************************************************************)
SetupApplyIgnoring(s, u, y, a) ==
    /\ setup[s] # NoRequest
    /\ RowsResolve(setup[s])
    /\ Insert(s, u, y, a)
    /\ alias' = [n \in Senders |-> IF n \in setup[s].senders /\ alias[n] = "none"
                                   THEN y ELSE alias[n]]

(***************************************************************************)
(* apply_checked: everything is resolved again under the writer lock, and  *)
(* unit, account, payer, aliases and association are inserted together.    *)
(***************************************************************************)
SetupApply(s, u, y, a) ==
    /\ setup[s] # NoRequest
    /\ Resolves(setup[s])
    /\ Insert(s, u, y, a)
    /\ alias' = [n \in Senders |-> IF n \in setup[s].senders THEN y ELSE alias[n]]

(***************************************************************************)
(* Only previewed, refused, or out of time for the lock.                   *)
(***************************************************************************)
SetupEnd(s) ==
    /\ setup[s] # NoRequest
    /\ setup' = [setup EXCEPT ![s] = NoRequest]
    /\ UNCHANGED <<tables, promised>>

-----------------------------------------------------------------------------
RentalNext ==
    \/ \E p \in Properties : AddProperty(p)
    \/ \E u \in Units, p \in Properties, l \in Labels : AddUnit(u, p, l)
    \/ \E a \in Accounts, u \in Units : AddAccount(a, u)
    \/ \E a \in Accounts, y \in Payers : AssociatePayer(a, y) \/ RemovePayer(a, y)

IdentityNext ==
    \E y \in Payers : \/ AddPayer(y)
                      \/ \E n \in Senders : AddAlias(n, y) \/ RemoveAlias(n, y)

ExpenseNext ==
    \E x \in Expenses :
      \/ \E p \in Properties, u \in Units \cup {"none"} : CreateExpense(x, p, u)
      \/ VoidExpense(x)

SetupNext ==
    \E s \in Setups :
      \/ \E r \in Requests : SetupPreview(s, r)
      \/ \E u \in Units, y \in Payers, a \in Accounts : SetupApply(s, u, y, a)
      \/ SetupEnd(s)

Next == RentalNext \/ IdentityNext \/ ExpenseNext \/ SetupNext

Spec == Init /\ [][Next]_vars

-----------------------------------------------------------------------------
(* Properties *)

(***************************************************************************)
(* A setup is all or nothing, and stays: from the moment it is applied     *)
(* until the owner removes the alias or the association, a payment from    *)
(* each sender it names is attributed to a payer of its account, whatever  *)
(* other setups and commands came between its preview and its transaction  *)
(* and whatever comes after it.                                            *)
(***************************************************************************)
SetupHolds ==
    \A q \in promised : alias[q[2]] # "none" /\ <<q[1], alias[q[2]]>> \in member

(***************************************************************************)
(* A unit is known by its property and label, also when two setups, or a   *)
(* setup and unit add, bring the same label at once; and the cash summary  *)
(* counts an expense for one property: that of the unit it was made for.   *)
(***************************************************************************)
OneProperty ==
    /\ \A u, v \in Units : UnitExists(u) /\ unit[u] = unit[v] => u = v
    /\ \A x \in Expenses : expense[x].unit # "none"
         => unit[expense[x].unit].property = expense[x].property
=============================================================================
