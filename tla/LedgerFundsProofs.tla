------------------------- MODULE LedgerFundsProofs --------------------------
(***************************************************************************)
(* The ledger implements Funds, for every number of payments, charges and  *)
(* rebuild sessions and all amounts.  A guard of Funds compares what a     *)
(* step leaves behind with the limits it leaves behind; Balanced holds     *)
(* after the step as well, which is what proves those guards.              *)
(***************************************************************************)
EXTENDS LedgerProofs, LedgerFunds

-----------------------------------------------------------------------------
(* Sums over both tables *)

LEMMA SameTotal ==
    ASSUME NEW R
    PROVE  F!Total(R) = Total(R)
<1>1. F!Cents(R) = Cents(R)
  BY DEF F!Cents, Cents
<1>2. F!Total(R) = Cardinality(F!Cents(R))
  BY Zenon DEF F!Total, F!Cardinality, Cardinality
<1>3. Total(R) = Cardinality(Cents(R))
  BY DEF Total
<1> HIDE DEF F!Cents, Cents
<1> QED
  BY <1>1, <1>2, <1>3, Zenon

LEMMA TakenIsCombined ==
    TypeOK => \A p : F!Taken(p, Moved) = Combined(p)
<1> SUFFICES ASSUME TypeOK, NEW p
             PROVE  F!Taken(p, Moved) = Combined(p)
  OBVIOUS
<1>1. {r \in Moved : r.payment = p} = RowsOf(p, rentAllocs) \cup RowsOf(p, feeAllocs)
  BY DEF Moved, RowsOf
<1>2. RowsOf(p, rentAllocs) \cap RowsOf(p, feeAllocs) = {}
  BY ChargeIds DEF TypeOK, RowsOf, RentRow, FeeRow
<1>3. Total({r \in Moved : r.payment = p}) = Combined(p)
  BY <1>1, <1>2, RowsPriced, TotalUnion DEF Combined
<1> QED
  BY <1>3, SameTotal DEF F!Taken

LEMMA GivenIsAllocated ==
    TypeOK => /\ \A o \in Obligations : F!Given(o, Moved) = Total(RowsFor(o, rentAllocs))
              /\ \A f \in Fees : F!Given(f, Moved) = Total(RowsFor(f, feeAllocs))
<1> SUFFICES ASSUME TypeOK
             PROVE  /\ \A o \in Obligations :
                         F!Given(o, Moved) = Total(RowsFor(o, rentAllocs))
                    /\ \A f \in Fees : F!Given(f, Moved) = Total(RowsFor(f, feeAllocs))
  OBVIOUS
<1>1. ASSUME NEW o \in Obligations
      PROVE  F!Given(o, Moved) = Total(RowsFor(o, rentAllocs))
  <2>1. {r \in Moved : r.target = o} = RowsFor(o, rentAllocs)
    BY ChargeIds DEF TypeOK, Moved, RowsFor, FeeRow
  <2> QED
    BY <2>1, SameTotal DEF F!Given
<1>2. ASSUME NEW f \in Fees
      PROVE  F!Given(f, Moved) = Total(RowsFor(f, feeAllocs))
  <2>1. {r \in Moved : r.target = f} = RowsFor(f, feeAllocs)
    BY ChargeIds DEF TypeOK, Moved, RowsFor, RentRow
  <2> QED
    BY <2>1, SameTotal DEF F!Given
<1> QED
  BY <1>1, <1>2

(***************************************************************************)
(* A balanced ledger is within the limits of Funds.                        *)
(***************************************************************************)
LEMMA BalancedWithin == TypeOK /\ Balanced => F!Within(Moved)
<1> SUFFICES ASSUME TypeOK, Balanced PROVE F!Within(Moved)
  OBVIOUS
<1>1. ASSUME NEW p \in Payments PROVE F!Taken(p, Moved) <= Supply[p].limit
  <2>1. F!Taken(p, Moved) = Combined(p)
    BY TakenIsCombined
  <2>2. CASE Active(p)
    <3>1. Supply[p].limit = Amount(p)
      BY <2>2 DEF Supply, SupplyOf, Opened, Active, Amount
    <3> QED
      BY <2>1, <3>1 DEF Balanced, PaymentCapacity
  <2>3. CASE ~Active(p)
    <3>1. Supply[p].limit = 0
      BY <2>3 DEF Supply, SupplyOf, Unopened, ClosedDown, Active
    <3> QED
      BY <2>1, <2>3, <3>1, InactiveHoldsNothing
  <2> QED
    BY <2>2, <2>3
<1>2. ASSUME NEW o \in Obligations PROVE F!Given(o, Moved) <= Demand[o].limit
  <2>1. Demand[o].limit = obligation[o]
    BY DEF Demand, RentDemand, Opened, Unopened
  <2> QED
    BY <2>1, GivenIsAllocated DEF Balanced, TargetCapacity
<1>3. ASSUME NEW f \in Fees PROVE F!Given(f, Moved) <= Demand[f].limit
  <2>1. Demand[f] = FeeDemand(fee[f])
    BY ChargeIds DEF Demand
  <2>2. CASE fee[f].state = "active"
    <3>1. Demand[f].limit = fee[f].amount
      BY <2>1, <2>2 DEF FeeDemand, Opened
    <3> QED
      BY <3>1, GivenIsAllocated DEF Balanced, TargetCapacity
  <2>3. CASE fee[f].state # "active"
    <3>1. Demand[f].limit = 0
      BY <2>1, <2>3 DEF FeeDemand, Unopened, ClosedDown
    <3>2. RowsFor(f, feeAllocs) = {}
      BY <2>3 DEF Balanced, LinksJoinActive, RowsFor
    <3> QED
      BY <3>1, <3>2, TotalEmpty, GivenIsAllocated
  <2> QED
    BY <2>2, <2>3
<1> QED
  BY <1>1, <1>2, <1>3 DEF F!Within

-----------------------------------------------------------------------------
(* Initial states *)

LEMMA InitImplements == Init => F!Init
<1> SUFFICES ASSUME Init PROVE F!Init
  OBVIOUS
<1>1. PICK old \in SUBSET Emails :
        payment = [p \in Payments |->
                     IF p \in old
                     THEN [state |-> "active", facts |-> LegacyFacts[p],
                           parsedAt |-> 0, version |-> "legacy"]
                     ELSE NoPayment]
  BY DEF Init
<1> DEFINE size == [p \in Payments |-> IF p \in Emails THEN LegacyFacts[p].amount ELSE 0]
<1>2. size \in [Payments -> 0 .. MaxAmount] /\ old \in SUBSET Payments
  BY LedgerConstants DEF Facts, Payments
<1>3. Supply = [p \in Payments |-> IF p \in old THEN F!Open(size[p]) ELSE F!Unopened]
  <2>1. ASSUME NEW p \in Payments
        PROVE  SupplyOf(payment[p]) = IF p \in old THEN F!Open(size[p]) ELSE F!Unopened
    BY <1>1 DEF SupplyOf, Opened, Unopened, NoPayment, F!Open, F!Unopened
  <2> QED
    BY <2>1 DEF Supply
<1>4. Demand = [t \in Obligations \cup Fees |-> F!Unopened]
  BY DEF Init, Demand, RentDemand, FeeDemand, Unopened, F!Unopened
<1>5. Moved = {}
  BY DEF Init, Moved
<1> QED
  BY <1>2, <1>3, <1>4, <1>5 DEF F!Init

-----------------------------------------------------------------------------
(* Steps on payment events *)

(***************************************************************************)
(* Rewriting one payment event moves one supply and nothing else.          *)
(***************************************************************************)
LEMMA SupplyStep ==
    ASSUME TypeOK, NEW p \in Payments, NEW row,
           payment' = [payment EXCEPT ![p] = row],
           UNCHANGED <<obligation, fee, rentAllocs, feeAllocs>>
    PROVE  /\ Supply' = [Supply EXCEPT ![p] = SupplyOf(row)]
           /\ Demand' = Demand /\ Moved' = Moved
<1>1. \A q \in Payments : payment'[q] = IF q = p THEN row ELSE payment[q]
  BY DEF TypeOK
<1>2. Supply' = [q \in Payments |-> SupplyOf(payment'[q])]
  BY DEF Supply, SupplyOf
<1>5. Supply = [q \in Payments |-> SupplyOf(payment[q])]
  BY DEF Supply
<1> HIDE DEF SupplyOf
<1>3. Supply' = [Supply EXCEPT ![p] = SupplyOf(row)]
  BY <1>1, <1>2, <1>5
<1>4. Demand' = Demand /\ Moved' = Moved
  BY DEF Demand, Moved, RentDemand, FeeDemand
<1> QED
  BY <1>3, <1>4

LEMMA OpenSupplyStep ==
    ASSUME TypeOK, TypeOK', Balanced', NEW p \in Payments, NEW row,
           payment' = [payment EXCEPT ![p] = row],
           UNCHANGED <<obligation, fee, rentAllocs, feeAllocs>>,
           row.state = "active", payment[p].state # "void"
    PROVE  F!Next
<1> DEFINE n == row.facts.amount
<1>1. payment'[p] = row
  BY DEF TypeOK
<1>2. n \in 0 .. MaxAmount
  BY <1>1 DEF TypeOK, Active, Facts
<1>3. Combined(p) <= n
  BY <1>1 DEF Balanced, PaymentCapacity, Combined, Amount
<1>4. F!Taken(p, Moved) <= n
  BY <1>3, TakenIsCombined
<1>5. Supply[p].state # "closed"
  BY DEF Supply, SupplyOf, Opened, Unopened, ClosedDown, TypeOK, PaymentType
<1>6. SupplyOf(row) = F!Open(n)
  BY DEF SupplyOf, Opened, F!Open
<1> HIDE DEF n
<1>7. F!SetSupply(p, n)
  BY <1>4, <1>5, <1>6, SupplyStep DEF F!SetSupply
<1> QED
  BY <1>2, <1>7 DEF F!Next

LEMMA CloseSupplyStep ==
    ASSUME TypeOK, NEW p \in Payments, NEW row,
           payment' = [payment EXCEPT ![p] = row],
           UNCHANGED <<obligation, fee, rentAllocs, feeAllocs>>,
           row.state = "void", payment[p].state = "active", Combined(p) = 0
    PROVE  F!Next
<1>1. \A r \in Moved : r.payment # p
  BY ZeroMeansNoRows DEF Moved
<1>2. Supply[p].state = "open"
  BY DEF Supply, SupplyOf, Opened
<1>3. SupplyOf(row) = F!Closed
  BY DEF SupplyOf, ClosedDown, F!Closed
<1>4. F!CloseSupply(p)
  BY <1>1, <1>2, <1>3, SupplyStep DEF F!CloseSupply
<1> QED
  BY <1>4 DEF F!Next

LEMMA ManualImplements ==
    TypeOK /\ TypeOK' /\ Balanced' /\ ManualNext => F!Next
<1> SUFFICES ASSUME TypeOK, TypeOK', Balanced', NEW m \in Manuals,
                    \/ VoidManual(m)
                    \/ \E facts \in Facts, confirm \in ConfirmFlags :
                         CreateManual(m, facts, confirm) \/ CorrectManual(m, facts, confirm)
             PROVE F!Next
  BY DEF ManualNext
<1> USE DEF feeVars, allocVars
<1>0. m \in Payments /\ payment[m] \in PaymentType
  BY DEF Payments, TypeOK
<1>1. CASE VoidManual(m)
  <2> DEFINE row == [payment[m] EXCEPT !.state = "void"]
  <2>1. payment' = [payment EXCEPT ![m] = row] /\ row.state = "void"
    BY <1>0, <1>1 DEF VoidManual, TypeOK, PaymentType
  <2> HIDE DEF row
  <2> QED
    BY <1>0, <1>1, <2>1, CloseSupplyStep DEF VoidManual, Active
<1>2. ASSUME NEW facts \in Facts, NEW confirm, CreateManual(m, facts, confirm)
      PROVE F!Next
  <2> DEFINE row == [state |-> "active", facts |-> facts, parsedAt |-> 0,
                     version |-> "manual"]
  <2>1. payment' = [payment EXCEPT ![m] = row] /\ row.state = "active"
    BY <1>2 DEF CreateManual
  <2> HIDE DEF row
  <2> QED
    BY <1>0, <1>2, <2>1, OpenSupplyStep DEF CreateManual, Stored
<1>3. ASSUME NEW facts \in Facts, NEW confirm, CorrectManual(m, facts, confirm)
      PROVE F!Next
  <2> DEFINE row == [state |-> "active", facts |-> facts,
                     parsedAt |-> payment[m].parsedAt + 1,
                     version |-> payment[m].version]
  <2>1. payment' = [payment EXCEPT ![m] = row] /\ row.state = "active"
    BY <1>0, <1>3 DEF CorrectManual, TypeOK
  <2> HIDE DEF row
  <2> QED
    BY <1>0, <1>3, <2>1, OpenSupplyStep DEF CorrectManual, Active
<1> QED
  BY <1>1, <1>2, <1>3

LEMMA GmailImplements ==
    TypeOK /\ TypeOK' /\ Balanced' /\ GmailNext => F!Next
<1> SUFFICES ASSUME TypeOK, TypeOK', Balanced', NEW e \in Emails,
                    ProcessEmail(e) \/ VoidGmail(e)
             PROVE F!Next
  BY DEF GmailNext
<1> USE DEF feeVars, allocVars
<1>0. e \in Payments /\ payment[e] \in PaymentType
  BY DEF Payments, TypeOK
<1>1. CASE ProcessEmail(e)
  <2> DEFINE row == [state |-> "active", facts |-> ParsedFacts[e], parsedAt |-> 0,
                     version |-> "current"]
  <2>1. payment' = [payment EXCEPT ![e] = row] /\ row.state = "active"
    BY <1>1 DEF ProcessEmail
  <2> HIDE DEF row
  <2> QED
    BY <1>0, <1>1, <2>1, OpenSupplyStep DEF ProcessEmail, Stored
<1>2. CASE VoidGmail(e)
  <2> DEFINE row == [payment[e] EXCEPT !.state = "void"]
  <2>1. payment' = [payment EXCEPT ![e] = row] /\ row.state = "void"
    BY <1>0, <1>2 DEF VoidGmail, TypeOK, PaymentType
  <2> HIDE DEF row
  <2> QED
    BY <1>0, <1>2, <2>1, CloseSupplyStep DEF VoidGmail, Active
<1> QED
  BY <1>1, <1>2

(***************************************************************************)
(* A rebuild sets the limit of an active payment again; of a voided one it *)
(* rewrites facts nobody can draw on.                                      *)
(***************************************************************************)
LEMMA RebuildImplements ==
    TypeOK /\ TypeOK' /\ Balanced' /\ RebuildNext => F!Next \/ UNCHANGED F!vars
<1> SUFFICES ASSUME TypeOK, TypeOK', Balanced', NEW s \in Sessions,
                    \/ RebuildStart(s, Emails)
                    \/ \E e \in Emails : RebuildStart(s, {e})
                    \/ \E src \in batch[s] :
                         \/ RebuildUpdate(s, src) \/ RebuildReject(s, src)
                         \/ RebuildAbort(s, src)
                    \/ RebuildStop(s)
             PROVE F!Next \/ UNCHANGED F!vars
  BY DEF RebuildNext
<1> USE DEF feeVars, allocVars
<1>1. ASSUME UNCHANGED <<payment, obligation, fee, rentAllocs, feeAllocs>>
      PROVE UNCHANGED F!vars
  BY <1>1 DEF F!vars, Supply, Demand, Moved, SupplyOf, RentDemand, FeeDemand
<1>2. ASSUME NEW src \in batch[s], RebuildUpdate(s, src)
      PROVE F!Next \/ UNCHANGED F!vars
  <2> DEFINE p == src.payment
             row == [state |-> payment[p].state, facts |-> ParsedFacts[p],
                     parsedAt |-> payment[p].parsedAt + 1, version |-> "current"]
  <2>1. p \in Payments
    BY DEF TypeOK, Source, Payments
  <2>2. /\ payment' = [payment EXCEPT ![p] = row]
        /\ row.state = payment[p].state
        /\ payment[p].state \in {"none", "active", "void"}
    BY <1>2, <2>1 DEF RebuildUpdate, TypeOK, PaymentType
  <2>3. UNCHANGED <<obligation, fee, rentAllocs, feeAllocs>>
    BY <1>2 DEF RebuildUpdate
  <2> HIDE DEF row
  <2>4. CASE row.state = "active"
    BY <2>1, <2>2, <2>3, <2>4, OpenSupplyStep
  <2>5. CASE row.state # "active"
    <3>1. SupplyOf(row) = SupplyOf(payment[p])
      BY <2>2, <2>5 DEF SupplyOf
    <3>2. SupplyOf(payment[p]) = Supply[p]
      BY <2>1 DEF Supply
    <3>3. Supply = [Supply EXCEPT ![p] = Supply[p]]
      BY DEF Supply
    <3> HIDE DEF p
    <3>4. Supply' = Supply /\ Demand' = Demand /\ Moved' = Moved
      BY <2>1, <2>2, <2>3, <3>1, <3>2, <3>3, SupplyStep
    <3> QED
      BY <3>4 DEF F!vars
  <2> QED
    BY <2>4, <2>5
<1> QED
  BY <1>1, <1>2 DEF RebuildStart, RebuildReject, RebuildAbort, RebuildStop

-----------------------------------------------------------------------------
(* Steps on charges and allocations *)

LEMMA ChargeImplements == TypeOK /\ TypeOK' /\ ChargeNext => F!Next
<1> SUFFICES ASSUME TypeOK, TypeOK', ChargeNext PROVE F!Next
  OBVIOUS
<1> USE DEF manualVars, feeVars, allocVars
<1>0. \A t \in Fees : t \notin Obligations
  BY ChargeIds
<1>1. ASSUME NEW o \in Obligations, NEW amount \in Amounts, CreateObligation(o, amount)
      PROVE F!Next
  <2>1. amount # 0 /\ amount \in 0 .. MaxAmount
    BY LedgerConstants DEF Amounts
  <2>2. Demand[o].state = "new"
    BY <1>1 DEF CreateObligation, Demand, RentDemand, Unopened
  <2>3. \A q \in Obligations : obligation'[q] = IF q = o THEN amount ELSE obligation[q]
    BY <1>1 DEF CreateObligation, TypeOK
  <2>4. fee' = fee
    BY <1>1 DEF CreateObligation
  <2>5. Demand' = [Demand EXCEPT ![o] = F!Open(amount)]
    BY <2>1, <2>3, <2>4 DEF Demand, RentDemand, FeeDemand, Opened, F!Open
  <2>6. Supply' = Supply /\ Moved' = Moved
    BY <1>1 DEF CreateObligation, Supply, SupplyOf, Moved
  <2>7. F!OpenDemand(o, amount)
    BY <2>2, <2>5, <2>6 DEF F!OpenDemand
  <2> QED
    BY <2>1, <2>7 DEF F!Next
<1>2. ASSUME NEW f \in Fees, VoidFee(f) PROVE F!Next
  <2> DEFINE row == [fee[f] EXCEPT !.state = "void"]
  <2>1. fee' = [fee EXCEPT ![f] = row] /\ row.state = "void"
    BY <1>2 DEF VoidFee, TypeOK, FeeType
  <2> HIDE DEF row
  <2>2. \A g \in Fees : fee'[g] = IF g = f THEN row ELSE fee[g]
    BY <2>1 DEF TypeOK
  <2>3. Demand[f].state = "open"
    BY <1>0, <1>2 DEF VoidFee, Demand, FeeDemand, Opened
  <2>4. \A r \in Moved : r.target # f
    <3>1. \A r \in RowsFor(f, feeAllocs) : r.amount > 0
      BY LedgerConstants DEF TypeOK, RowsFor, FeeRow, Amounts
    <3>2. RowsFor(f, feeAllocs) = {}
      BY <1>2, <3>1, RowsPriced, TotalZero DEF VoidFee
    <3> QED
      BY <1>0, <3>2 DEF TypeOK, Moved, RowsFor, RentRow
  <2>5. obligation' = obligation
    BY <1>2 DEF VoidFee
  <2>9. FeeDemand(row) = F!Closed
    BY <2>1 DEF FeeDemand, ClosedDown, F!Closed
  <2>10. Demand' = [t \in Obligations \cup Fees |->
                      IF t \in Obligations THEN RentDemand(obligation[t])
                      ELSE FeeDemand(fee'[t])]
    BY <2>5 DEF Demand, RentDemand, FeeDemand
  <2>11. \A g \in Fees : FeeDemand(fee'[g]) = IF g = f THEN F!Closed ELSE FeeDemand(fee[g])
    BY <2>2, <2>9
  <2>12. Demand = [t \in Obligations \cup Fees |->
                     IF t \in Obligations THEN RentDemand(obligation[t])
                     ELSE FeeDemand(fee[t])]
    BY DEF Demand
  <2> HIDE DEF FeeDemand, RentDemand
  <2>6. Demand' = [Demand EXCEPT ![f] = F!Closed]
    BY <1>0, <2>10, <2>11, <2>12
  <2>7. Supply' = Supply /\ Moved' = Moved
    BY <1>2 DEF VoidFee, Supply, SupplyOf, Moved
  <2>8. F!CloseDemand(f)
    BY <2>3, <2>4, <2>6, <2>7 DEF F!CloseDemand
  <2> QED
    BY <2>8 DEF F!Next
<1>3. ASSUME NEW f \in Fees, NEW o \in Obligations, NEW amount \in Amounts,
             NEW day \in Days, NEW confirm, AssessFee(f, o, amount, day, confirm)
      PROVE F!Next
  <2> DEFINE row == [state |-> "active", obligation |-> o, amount |-> amount, day |-> day]
  <2>1. fee' = [fee EXCEPT ![f] = row] /\ row.state = "active" /\ row.amount = amount
    BY <1>3 DEF AssessFee
  <2> HIDE DEF row
  <2>2. \A g \in Fees : fee'[g] = IF g = f THEN row ELSE fee[g]
    BY <2>1 DEF TypeOK
  <2>3. Demand[f].state = "new"
    BY <1>0, <1>3 DEF AssessFee, Demand, FeeDemand, Unopened
  <2>5. obligation' = obligation
    BY <1>3 DEF AssessFee
  <2>6. Demand' = [Demand EXCEPT ![f] = F!Open(amount)]
    BY <1>0, <2>1, <2>2, <2>5 DEF Demand, RentDemand, FeeDemand, Opened, F!Open
  <2>7. Supply' = Supply /\ Moved' = Moved
    BY <1>3 DEF AssessFee, Supply, SupplyOf, Moved
  <2>8. F!OpenDemand(f, amount)
    BY <2>3, <2>6, <2>7 DEF F!OpenDemand
  <2>9. amount \in 0 .. MaxAmount
    BY LedgerConstants DEF Amounts
  <2> QED
    BY <2>8, <2>9 DEF F!Next
<1> QED
  BY <1>1, <1>2, <1>3 DEF ChargeNext

(***************************************************************************)
(* New rows, all of one transaction, are one move: each joins an open      *)
(* source and use, no pair is linked twice, and the limits hold after it.  *)
(***************************************************************************)
LEMMA MoveStep ==
    ASSUME TypeOK, TypeOK', Balanced, Balanced', Moved' # Moved, Moved \subseteq Moved',
           UNCHANGED <<payment, obligation, fee>>,
           \A r \in Moved' \ Moved : \A s \in Moved' \ {r} : ~F!SamePair(r, s)
    PROVE  F!Next
<1>1. Supply' = Supply /\ Demand' = Demand
  BY DEF Supply, SupplyOf, Demand, RentDemand, FeeDemand
<1>2. F!Within(Moved')
  <2>1. F!Within(Moved)'
    BY BalancedWithin, PTL
  <2> QED
    BY <1>1, <2>1 DEF F!Within
<1>3. ASSUME NEW r \in Moved'
      PROVE  /\ r.payment \in Payments /\ Supply[r.payment].state = "open"
             /\ r.target \in Obligations \cup Fees /\ Demand[r.target].state = "open"
  <2>1. payment[r.payment].state = "active" /\ r.payment \in Payments
    BY DEF TypeOK, Balanced, LinksJoinActive, Moved, RentRow, FeeRow, Active
  <2>2. Supply[r.payment].state = "open"
    BY <2>1 DEF Supply, SupplyOf, Opened
  <2>3. CASE r \in rentAllocs'
    <3>1. r.target \in Obligations /\ obligation[r.target] > 0
      BY <2>3 DEF TypeOK, Balanced, LinksJoinActive, RentRow
    <3> QED
      BY <2>1, <2>2, <3>1 DEF Demand, RentDemand, Opened
  <2>4. CASE r \in feeAllocs'
    <3>1. r.target \in Fees /\ fee[r.target].state = "active"
      BY <2>4 DEF TypeOK, Balanced, LinksJoinActive, FeeRow
    <3> QED
      BY <2>1, <2>2, <3>1, ChargeIds DEF Demand, FeeDemand, Opened
  <2> QED
    BY <2>3, <2>4 DEF Moved
<1>4. F!Move
  BY <1>1, <1>2, <1>3 DEF F!Move
<1> QED
  BY <1>4 DEF F!Next

LEMMA AllocationImplements ==
    TypeOK /\ TypeOK' /\ Balanced /\ Balanced' /\ AllocationNext
      => F!Next \/ UNCHANGED F!vars
<1> SUFFICES ASSUME TypeOK, TypeOK', Balanced, Balanced', AllocationNext
             PROVE F!Next \/ UNCHANGED F!vars
  OBVIOUS
<1> USE DEF manualVars, feeVars
<1>0. /\ rentAllocs \cap feeAllocs = {} /\ rentAllocs' \cap feeAllocs' = {}
      /\ \A r \in rentAllocs', s \in feeAllocs' : ~F!SamePair(r, s)
  BY ChargeIds DEF TypeOK, RentRow, FeeRow, F!SamePair
<1>1. ASSUME UNCHANGED <<payment, obligation, fee>>
      PROVE  Supply' = Supply /\ Demand' = Demand
  BY <1>1 DEF Supply, SupplyOf, Demand, RentDemand, FeeDemand
<1>2. ASSUME NEW L \in SUBSET RentRow, InsertRent(L)
      PROVE F!Next \/ UNCHANGED F!vars
  <2>1. UNCHANGED <<payment, obligation, fee>> /\ Moved' = Moved \cup L
    BY <1>2 DEF InsertRent, Moved
  <2>2. CASE Moved' = Moved
    BY <1>1, <2>1, <2>2 DEF F!vars
  <2>3. CASE Moved' # Moved
    <3>1. ASSUME NEW r \in Moved' \ Moved, NEW s \in Moved' \ {r}
          PROVE ~F!SamePair(r, s)
      <4>1. r \in L /\ r \in rentAllocs'
        BY <1>2, <2>1 DEF InsertRent
      <4>2. ~HasPair(r, rentAllocs) /\ ~HasPair(r, L \ {r})
        BY <1>2, <4>1 DEF InsertRent, CanInsert
      <4>3. CASE s \in feeAllocs'
        BY <1>0, <4>1, <4>3
      <4>4. CASE s \in rentAllocs \cup (L \ {r})
        BY <4>2, <4>4 DEF HasPair, F!SamePair
      <4> QED
        BY <1>2, <4>3, <4>4 DEF InsertRent, Moved
    <3> QED
      BY <2>1, <2>3, <3>1, MoveStep
  <2> QED
    BY <2>2, <2>3
<1>3. ASSUME NEW l \in FeeRow, AddFeeAllocation(l)
      PROVE F!Next \/ UNCHANGED F!vars
  <2>1. UNCHANGED <<payment, obligation, fee>> /\ Moved' = Moved \cup {l}
    BY <1>3 DEF AddFeeAllocation, Moved
  <2>2. CASE Moved' = Moved
    BY <1>1, <2>1, <2>2 DEF F!vars
  <2>3. CASE Moved' # Moved
    <3>1. ASSUME NEW r \in Moved' \ Moved, NEW s \in Moved' \ {r}
          PROVE ~F!SamePair(r, s)
      <4>1. r = l /\ r \in feeAllocs'
        BY <1>3, <2>1 DEF AddFeeAllocation
      <4>2. ~HasPair(l, feeAllocs)
        BY <1>3 DEF AddFeeAllocation
      <4>3. CASE s \in rentAllocs'
        BY <1>0, <4>1, <4>3 DEF F!SamePair
      <4>4. CASE s \in feeAllocs
        BY <4>1, <4>2, <4>4 DEF HasPair, F!SamePair
      <4> QED
        BY <1>3, <4>1, <4>3, <4>4 DEF AddFeeAllocation, Moved
    <3> QED
      BY <2>1, <2>3, <3>1, MoveStep
  <2> QED
    BY <2>2, <2>3
<1>4. ASSUME Moved' \subseteq Moved, UNCHANGED <<payment, obligation, fee>>
      PROVE F!Next \/ UNCHANGED F!vars
  <2>1. CASE Moved' = Moved
    BY <1>1, <1>4, <2>1 DEF F!vars
  <2>2. CASE Moved' # Moved
    BY <1>1, <1>4, <2>2 DEF F!Next, F!Return
  <2> QED
    BY <2>1, <2>2
<1>5. ASSUME NEW l \in RentRow, RemoveAllocation(l)
      PROVE F!Next \/ UNCHANGED F!vars
  BY <1>4, <1>5 DEF RemoveAllocation, Moved
<1>6. ASSUME NEW l \in FeeRow, RemoveFeeAllocation(l)
      PROVE F!Next \/ UNCHANGED F!vars
  BY <1>4, <1>6 DEF RemoveFeeAllocation, Moved
<1>7. \A L \in Plans : L \in SUBSET RentRow
  BY LedgerConstants
<1>8. \A l \in RentRow : {l} \in SUBSET RentRow
  OBVIOUS
<1> QED
  BY <1>2, <1>3, <1>5, <1>6, <1>7, <1>8 DEF AllocationNext, AddAllocation, ApplyPlan

LEMMA NextImplements ==
    TypeOK /\ TypeOK' /\ Balanced /\ Balanced' /\ [Next]_vars => [F!Next]_F!vars
<1>1. ASSUME UNCHANGED vars PROVE UNCHANGED F!vars
  BY <1>1 DEF vars, F!vars, Supply, SupplyOf, Demand, RentDemand, FeeDemand, Moved
<1> QED
  BY <1>1, ManualImplements, GmailImplements, ChargeImplements, AllocationImplements,
     RebuildImplements DEF Next

(***************************************************************************)
(* Whatever commands and rebuilds do, and in whichever order, all that     *)
(* happens to the money is what Funds allows.                              *)
(***************************************************************************)
THEOREM LedgerImplementsFunds == Spec => ImplementsFunds
<1>1. Spec => [](TypeOK /\ Balanced)
  BY InitType, InitBalanced, NextType, NextBalanced, PTL DEF Spec
<1> QED
  BY <1>1, InitImplements, NextImplements, PTL DEF Spec, ImplementsFunds, F!Spec
=============================================================================
