---------------------------- MODULE LedgerProofs ----------------------------
(***************************************************************************)
(* Proofs about the ledger, for every number of payments, obligations,     *)
(* fees and rebuild sessions and every amount: its tables keep their       *)
(* types, no payment, obligation or late fee is ever over-allocated, a     *)
(* plan is accepted in any order or in none, the audit tables explain the  *)
(* rows, pairs and duplicates stay out, and overlapping rebuilds write an  *)
(* event once.                                                             *)
(***************************************************************************)
EXTENDS Ledger, FiniteSetTheorems, WellFoundedInduction, SequenceTheorems, TLAPS

-----------------------------------------------------------------------------
(* Numbers *)

(***************************************************************************)
(* A set of numbers that is not empty has a least one: the well-founded    *)
(* order of the finite sets 0 .. k stands in for induction.                *)
(***************************************************************************)
LEMMA LeastNumber ==
    ASSUME NEW T \in SUBSET Nat, T # {}
    PROVE  \E m \in T : \A k \in T : m <= k
<1> DEFINE U == {0 .. k : k \in T}
<1>1. U \subseteq FiniteSubsetsOf(Nat) /\ U # {}
  <2>1. \A k \in T : 0 .. k \in SUBSET Nat /\ IsFiniteSet(0 .. k)
    BY FS_Interval
  <2> QED
    BY <2>1 DEF FiniteSubsetsOf
<1>2. PICK x \in U : \A y \in U : <<y, x>> \notin StrictSubsetOrdering(Nat)
  <2> HIDE DEF U
  <2> QED
    BY <1>1, FS_StrictSubsetOrderingWellFounded, WFMin
<1>3. PICK m \in T : x = 0 .. m
  OBVIOUS
<1>4. ASSUME NEW k \in T, k < m
      PROVE  FALSE
  <2>1. k \in Nat /\ m \in Nat
    OBVIOUS
  <2>2. 0 .. k \subseteq 0 .. m /\ m \in 0 .. m /\ m \notin 0 .. k
    BY <1>4, <2>1
  <2>3. <<0 .. k, 0 .. m>> \in StrictSubsetOrdering(Nat)
    BY <2>1, <2>2 DEF StrictSubsetOrdering
  <2> QED
    BY <1>2, <1>3, <2>3
<1> QED
  BY <1>4

(***************************************************************************)
(* What holds at 0 and passes from each number to the next holds up to n.  *)
(***************************************************************************)
LEMMA StepByStep ==
    ASSUME NEW n \in Nat, NEW S, 0 \in S,
           \A i \in 0 .. n : i \in S /\ i < n => i + 1 \in S
    PROVE  \A i \in 0 .. n : i \in S
<1> DEFINE T == {i \in 0 .. n : i \notin S}
<1> SUFFICES ASSUME T # {} PROVE FALSE
  OBVIOUS
<1>1. T \in SUBSET Nat
  OBVIOUS
<1>2. PICK m \in T : \A k \in T : m <= k
  <2> HIDE DEF T
  <2> QED
    BY <1>1, LeastNumber
<1>3. m \in 0 .. n /\ m # 0 /\ m - 1 \notin T
  BY <1>2
<1>4. m - 1 \in S /\ m - 1 \in 0 .. n /\ m - 1 < n
  BY <1>3
<1>5. (m - 1) + 1 \in S
  BY <1>4
<1> QED
  BY <1>3, <1>5

-----------------------------------------------------------------------------
(* The laws of Total.  A row's amount is bounded by some M, which is what  *)
(* makes the set of its cents finite.                                      *)

Priced(R, M) == IsFiniteSet(R) /\ M \in Nat /\ \A r \in R : r.amount \in 0 .. M

(***************************************************************************)
(* A finite table of bounded amounts has finitely many cents, so its total *)
(* is a natural number.                                                    *)
(***************************************************************************)
LEMMA TotalType ==
    ASSUME NEW R, NEW M, Priced(R, M)
    PROVE  IsFiniteSet(Cents(R)) /\ Total(R) \in Nat
<1>1. Cents(R) \subseteq R \X (1 .. M)
  BY DEF Cents, Priced
<1>2. IsFiniteSet(R \X (1 .. M))
  <2>1. IsFiniteSet(R) /\ M \in Int /\ 1 \in Int
    BY DEF Priced
  <2>2. IsFiniteSet(1 .. M)
    BY <2>1, FS_Interval
  <2> QED
    BY <2>1, <2>2, FS_Product
<1>3. IsFiniteSet(Cents(R))
  BY <1>1, <1>2, FS_Subset
<1> QED
  BY <1>3, FS_CardinalityType DEF Total

(***************************************************************************)
(* The total of no rows is what COALESCE(..., 0) gives.                    *)
(***************************************************************************)
LEMMA TotalEmpty == Total({}) = 0
<1>1. Cents({}) = {}
  BY DEF Cents
<1> QED
  BY <1>1, FS_EmptySet DEF Total

(***************************************************************************)
(* One row counts for its amount.                                          *)
(***************************************************************************)
LEMMA TotalOfOne ==
    ASSUME NEW r, r.amount \in Nat
    PROVE  Total({r}) = r.amount
<1>1. Cents({r}) = {r} \X (1 .. r.amount)
  BY DEF Cents
<1>2. IsFiniteSet({r}) /\ Cardinality({r}) = 1
  BY FS_Singleton
<1>3. IsFiniteSet(1 .. r.amount) /\ Cardinality(1 .. r.amount) = r.amount
  BY FS_Interval
<1>4. Cardinality({r} \X (1 .. r.amount))
        = Cardinality({r}) * Cardinality(1 .. r.amount)
  BY <1>2, <1>3, FS_Product, Zenon
<1>5. Cardinality({r} \X (1 .. r.amount)) = 1 * r.amount
  BY <1>2, <1>3, <1>4
<1>6. 1 * r.amount = r.amount
  OBVIOUS
<1> QED
  BY <1>1, <1>5, <1>6, Zenon DEF Total

(***************************************************************************)
(* Fewer rows never sum to more: removing an allocation frees money.       *)
(***************************************************************************)
LEMMA TotalMonotone ==
    ASSUME NEW R, NEW M, Priced(R, M), NEW S \in SUBSET R
    PROVE  Total(S) <= Total(R) /\ Priced(S, M)
<1>1. Cents(S) \subseteq Cents(R)
  BY DEF Cents
<1>2. IsFiniteSet(Cents(R))
  BY TotalType
<1>3. Total(S) <= Total(R)
  BY <1>1, <1>2, FS_Subset DEF Total
<1>4. Priced(S, M)
  BY FS_Subset DEF Priced
<1> QED
  BY <1>3, <1>4

(***************************************************************************)
(* Separate sets of rows add up.                                           *)
(***************************************************************************)
LEMMA TotalUnion ==
    ASSUME NEW R, NEW S, NEW M, Priced(R, M), Priced(S, M), R \cap S = {}
    PROVE  Total(R \cup S) = Total(R) + Total(S) /\ Priced(R \cup S, M)
<1>1. Cents(R \cup S) = Cents(R) \cup Cents(S)
  BY DEF Cents
<1>2. Cents(R) \cap Cents(S) = {}
  <2> SUFFICES ASSUME NEW c \in Cents(R), c \in Cents(S) PROVE FALSE
    OBVIOUS
  <2>1. PICK r \in R : c \in {r} \X (1 .. r.amount)
    BY DEF Cents
  <2>2. PICK s \in S : c \in {s} \X (1 .. s.amount)
    BY DEF Cents
  <2>3. c[1] = r /\ c[1] = s
    BY <2>1, <2>2
  <2> QED
    BY <2>3
<1>3. IsFiniteSet(Cents(R)) /\ IsFiniteSet(Cents(S))
  BY TotalType
<1>4. Cardinality(Cents(R) \cup Cents(S))
        = Cardinality(Cents(R)) + Cardinality(Cents(S)) - Cardinality({})
  BY <1>2, <1>3, FS_Union
<1>5. Priced(R \cup S, M)
  BY FS_Union DEF Priced
<1>6. Cardinality({}) = 0
  BY FS_EmptySet
<1>7. Total(R) \in Nat /\ Total(S) \in Nat
  BY TotalType
<1>8. Total(R \cup S) = Total(R) + Total(S) - Cardinality({})
  BY <1>1, <1>4, Zenon DEF Total
<1> QED
  BY <1>5, <1>6, <1>7, <1>8

(***************************************************************************)
(* One more row adds its amount.                                           *)
(***************************************************************************)
LEMMA TotalAdd ==
    ASSUME NEW R, NEW M, Priced(R, M), NEW r, r \notin R, r.amount \in 0 .. M
    PROVE  Total(R \cup {r}) = Total(R) + r.amount /\ Priced(R \cup {r}, M)
<1>1. Priced({r}, M) /\ R \cap {r} = {}
  BY FS_Singleton DEF Priced
<1>2. r.amount \in Nat
  BY DEF Priced
<1> QED
  BY <1>1, <1>2, TotalUnion, TotalOfOne

(***************************************************************************)
(* A table of positive amounts sums to zero only when it is empty: this is *)
(* why "nothing is allocated" may be tested on the sum.                    *)
(***************************************************************************)
LEMMA TotalZero ==
    ASSUME NEW R, NEW M, Priced(R, M), Total(R) = 0, \A r \in R : r.amount > 0
    PROVE  R = {}
<1>1. Cents(R) = {}
  BY TotalType, FS_EmptySet DEF Total
<1> SUFFICES ASSUME NEW r \in R PROVE FALSE
  OBVIOUS
<1>2. r.amount \in Nat /\ r.amount > 0
  BY DEF Priced
<1>3. <<r, 1>> \in Cents(R)
  BY <1>2 DEF Cents
<1> QED
  BY <1>1, <1>3

-----------------------------------------------------------------------------
(* Types *)

LEMMA InitType == Init => TypeOK
<1> SUFFICES ASSUME Init PROVE TypeOK
  OBVIOUS
<1> USE LedgerConstants
<1>1. PICK old \in SUBSET Emails :
        payment = [p \in Payments |->
                     IF p \in old
                     THEN [state |-> "active", facts |-> LegacyFacts[p],
                           parsedAt |-> 0, version |-> "legacy"]
                     ELSE NoPayment]
  BY DEF Init
<1>2. payment \in [Payments -> PaymentType]
  <2> SUFFICES ASSUME NEW p \in Payments PROVE payment[p] \in PaymentType
    BY <1>1
  <2>1. CASE p \in old
    <3>1. LegacyFacts[p] \in Facts
      BY <2>1
    <3>2. payment[p] = [state |-> "active", facts |-> LegacyFacts[p],
                        parsedAt |-> 0, version |-> "legacy"]
      BY <1>1, <2>1
    <3> QED
      BY <3>1, <3>2 DEF PaymentType
  <2>2. CASE p \notin old
    BY <1>1, <2>2 DEF NoPayment, PaymentType
  <2> QED
    BY <2>1, <2>2
<1>4. \A p \in Payments : Active(p) => payment[p].facts \in Facts
  BY <1>1 DEF Active, NoPayment
<1>3. IsFiniteSet({})
  BY FS_EmptySet
<1> QED
  BY <1>2, <1>3, <1>4 DEF Init, TypeOK, FeeType

(***************************************************************************)
(* Every step keeps the types, by the group of commands it belongs to.     *)
(***************************************************************************)
LEMMA ManualType == TypeOK /\ ManualNext => TypeOK'
<1> SUFFICES ASSUME TypeOK, NEW m \in Manuals,
                    \/ VoidManual(m)
                    \/ \E facts \in Facts, confirm \in ConfirmFlags :
                         CreateManual(m, facts, confirm) \/ CorrectManual(m, facts, confirm)
             PROVE TypeOK'
  BY DEF ManualNext
<1> USE DEF TypeOK, Active, manualVars, feeVars, allocVars
<1>0. m \in Payments /\ payment[m] \in PaymentType
  BY DEF Payments
<1>1. CASE VoidManual(m)
  <2>1. payment[m].facts \in Facts
    BY <1>0, <1>1 DEF VoidManual
  <2>2. [type |-> "void", facts |-> payment[m].facts] \in Revision
    BY <2>1 DEF Revision
  <2>3. revisions' \in [Manuals -> Seq(Revision)]
    BY <1>1, <2>2 DEF VoidManual
  <2>4. [payment[m] EXCEPT !.state = "void"] \in PaymentType
    BY <1>0 DEF PaymentType
  <2>5. payment' = [payment EXCEPT ![m] = [payment[m] EXCEPT !.state = "void"]]
    BY <1>0, <1>1 DEF VoidManual
  <2>6. \A p \in Payments : payment'[p].state = "active" => payment'[p].facts \in Facts
    BY <1>0, <2>5 DEF PaymentType
  <2> QED
    BY <1>0, <1>1, <2>3, <2>4, <2>5, <2>6 DEF VoidManual
<1>2. ASSUME NEW facts \in Facts, NEW confirm, CreateManual(m, facts, confirm)
      PROVE TypeOK'
  <2>1. payment' \in [Payments -> PaymentType]
    BY <1>0, <1>2 DEF CreateManual, PaymentType
  <2>2. \A p \in Payments : payment'[p].state = "active" => payment'[p].facts \in Facts
    BY <1>0, <1>2 DEF CreateManual
  <2> QED
    BY <1>2, <2>1, <2>2 DEF CreateManual
<1>3. ASSUME NEW facts \in Facts, NEW confirm, CorrectManual(m, facts, confirm)
      PROVE TypeOK'
  <2> DEFINE row == [state |-> "active", facts |-> facts,
                     parsedAt |-> payment[m].parsedAt + 1,
                     version |-> payment[m].version]
  <2>1. row \in PaymentType /\ row.facts = facts
    BY <1>0 DEF PaymentType
  <2>2. payment' = [payment EXCEPT ![m] = row]
    BY <1>0, <1>3 DEF CorrectManual
  <2> HIDE DEF row
  <2>3. /\ payment' \in [Payments -> PaymentType]
        /\ \A p \in Payments : payment'[p].state = "active" => payment'[p].facts \in Facts
    BY <1>0, <2>1, <2>2
  <2>4. [type |-> "correction", facts |-> facts] \in Revision
    BY DEF Revision
  <2>5. Append(revisions[m], [type |-> "correction", facts |-> facts]) \in Seq(Revision)
    BY <2>4
  <2>6. revisions' \in [Manuals -> Seq(Revision)]
    BY <1>3, <2>5 DEF CorrectManual
  <2> QED
    BY <1>3, <2>3, <2>6 DEF CorrectManual
<1> QED
  BY <1>1, <1>2, <1>3

LEMMA GmailType == TypeOK /\ GmailNext => TypeOK'
<1> SUFFICES ASSUME TypeOK, NEW e \in Emails, ProcessEmail(e) \/ VoidGmail(e)
             PROVE TypeOK'
  BY DEF GmailNext
<1> USE DEF TypeOK, Active, manualVars, feeVars, allocVars
<1>0. e \in Payments /\ payment[e] \in PaymentType /\ ParsedFacts[e] \in Facts
  BY LedgerConstants DEF Payments
<1>1. CASE ProcessEmail(e)
  <2>1. payment' \in [Payments -> PaymentType]
    BY <1>0, <1>1 DEF ProcessEmail, PaymentType
  <2>2. \A p \in Payments : payment'[p].state = "active" => payment'[p].facts \in Facts
    BY <1>0, <1>1 DEF ProcessEmail
  <2> QED
    BY <1>1, <2>1, <2>2 DEF ProcessEmail
<1>2. CASE VoidGmail(e)
  <2>1. [payment[e] EXCEPT !.state = "void"] \in PaymentType
    BY <1>0 DEF PaymentType
  <2>2. payment' = [payment EXCEPT ![e] = [payment[e] EXCEPT !.state = "void"]]
    BY <1>0, <1>2 DEF VoidGmail
  <2>3. \A p \in Payments : payment'[p].state = "active" => payment'[p].facts \in Facts
    BY <1>0, <2>2 DEF PaymentType
  <2> QED
    BY <1>0, <1>2, <2>1, <2>2, <2>3 DEF VoidGmail
<1> QED
  BY <1>1, <1>2

LEMMA ChargeType == TypeOK /\ ChargeNext => TypeOK'
<1> SUFFICES ASSUME TypeOK, ChargeNext PROVE TypeOK'
  OBVIOUS
<1> USE DEF TypeOK, Active, manualVars, feeVars, allocVars
<1>1. ASSUME NEW o \in Obligations, NEW amount \in Amounts, CreateObligation(o, amount)
      PROVE TypeOK'
  BY <1>1, LedgerConstants DEF CreateObligation, Amounts
<1>2. ASSUME NEW f \in Fees, VoidFee(f) PROVE TypeOK'
  <2>1. [fee[f] EXCEPT !.state = "void"] \in FeeType
    BY DEF FeeType
  <2>2. fee' \in [Fees -> FeeType]
    BY <1>2, <2>1 DEF VoidFee
  <2>3. UNCHANGED <<payment, evidence, revisions, gmailVoids, obligation, rentAllocs,
                    feeAllocs, batch>>
    BY <1>2 DEF VoidFee
  <2>4. feeVoids' \subseteq Fees
    BY <1>2 DEF VoidFee
  <2> QED
    BY <2>2, <2>3, <2>4
<1>3. ASSUME NEW f \in Fees, NEW o \in Obligations, NEW amount \in Amounts,
             NEW day \in Days, NEW confirm, AssessFee(f, o, amount, day, confirm)
      PROVE TypeOK'
  BY <1>3, LedgerConstants DEF AssessFee, FeeType, Amounts
<1> HIDE DEF TypeOK
<1> QED
  BY <1>1, <1>2, <1>3 DEF ChargeNext

LEMMA AllocationType == TypeOK /\ AllocationNext => TypeOK'
<1> SUFFICES ASSUME TypeOK, AllocationNext PROVE TypeOK'
  OBVIOUS
<1> USE DEF TypeOK, Active, manualVars, feeVars, allocVars
<1>1. ASSUME NEW L \in SUBSET RentRow, IsFiniteSet(L), InsertRent(L) PROVE TypeOK'
  <2>1. IsFiniteSet(rentAllocs \cup L)
    BY <1>1, FS_Union
  <2> QED
    BY <1>1, <2>1 DEF InsertRent
<1>2. ASSUME NEW l \in RentRow, AddAllocation(l) PROVE TypeOK'
  <2>1. IsFiniteSet({l})
    BY FS_Singleton
  <2>2. {l} \in SUBSET RentRow /\ InsertRent({l})
    BY <1>2 DEF AddAllocation
  <2> QED
    BY <1>1, <2>1, <2>2
<1>3. ASSUME NEW l \in RentRow, RemoveAllocation(l) PROVE TypeOK'
  <2>1. IsFiniteSet(rentAllocs \ {l})
    BY FS_RemoveElement
  <2> QED
    BY <1>3, <2>1 DEF RemoveAllocation
<1>4. ASSUME NEW L \in Plans, ApplyPlan(L) PROVE TypeOK'
  <2>1. L \in SUBSET RentRow /\ IsFiniteSet(L)
    BY LedgerConstants
  <2> QED
    BY <1>1, <1>4, <2>1 DEF ApplyPlan
<1>5. ASSUME NEW l \in FeeRow, AddFeeAllocation(l) PROVE TypeOK'
  <2>1. IsFiniteSet(feeAllocs \cup {l})
    BY FS_AddElement
  <2> QED
    BY <1>5, <2>1 DEF AddFeeAllocation
<1>6. ASSUME NEW l \in FeeRow, RemoveFeeAllocation(l) PROVE TypeOK'
  <2>1. IsFiniteSet(feeAllocs \ {l})
    BY FS_RemoveElement
  <2> QED
    BY <1>6, <2>1 DEF RemoveFeeAllocation
<1> QED
  BY <1>2, <1>3, <1>4, <1>5, <1>6 DEF AllocationNext

LEMMA RebuildType == TypeOK /\ RebuildNext => TypeOK'
<1> SUFFICES ASSUME TypeOK, NEW s \in Sessions,
                    \/ RebuildStart(s, Emails)
                    \/ \E e \in Emails : RebuildStart(s, {e})
                    \/ \E src \in batch[s] :
                         \/ RebuildUpdate(s, src) \/ RebuildReject(s, src)
                         \/ RebuildAbort(s, src)
                    \/ RebuildStop(s)
             PROVE TypeOK'
  BY DEF RebuildNext
<1> USE DEF TypeOK, Active, manualVars, feeVars, allocVars
<1>0. batch[s] \subseteq Source
  OBVIOUS
<1>1. ASSUME NEW only \in SUBSET Emails, RebuildStart(s, only) PROVE TypeOK'
  <2>1. \A e \in only : payment[e].parsedAt \in Nat
    BY DEF Payments, PaymentType
  <2>2. {[payment |-> e, parsedAt |-> payment[e].parsedAt] :
           e \in {x \in only : NeedsUpdate(x)}} \in SUBSET Source
    BY <2>1 DEF Source
  <2> QED
    BY <1>1, <2>2 DEF RebuildStart
<1>2. ASSUME NEW src \in batch[s], RebuildUpdate(s, src) PROVE TypeOK'
  <2>1. src.payment \in Emails /\ src.payment \in Payments
    BY <1>0 DEF Source, Payments
  <2>2. payment[src.payment] \in PaymentType /\ ParsedFacts[src.payment] \in Facts
    BY <2>1, LedgerConstants
  <2> DEFINE row == [state |-> payment[src.payment].state,
                     facts |-> ParsedFacts[src.payment],
                     parsedAt |-> payment[src.payment].parsedAt + 1,
                     version |-> "current"]
  <2>5. row \in PaymentType /\ row.facts \in Facts
    BY <2>2 DEF PaymentType
  <2>6. payment' = [payment EXCEPT ![src.payment] = row]
    BY <1>2, <2>1 DEF RebuildUpdate
  <2> HIDE DEF row
  <2>3. /\ payment' \in [Payments -> PaymentType]
        /\ \A p \in Payments : payment'[p].state = "active" => payment'[p].facts \in Facts
    BY <2>1, <2>5, <2>6
  <2>4. batch' \in [Sessions -> SUBSET Source]
    BY <1>0, <1>2 DEF RebuildUpdate
  <2> QED
    BY <1>2, <2>3, <2>4 DEF RebuildUpdate
<1>3. ASSUME NEW src \in batch[s],
             RebuildReject(s, src) \/ RebuildAbort(s, src) PROVE TypeOK'
  <2>1. batch' \in [Sessions -> SUBSET Source]
    BY <1>0, <1>3 DEF RebuildReject, RebuildAbort
  <2> QED
    BY <1>3, <2>1 DEF RebuildReject, RebuildAbort
<1>4. CASE RebuildStop(s)
  BY <1>4 DEF RebuildStop
<1>5. Emails \in SUBSET Emails /\ \A e \in Emails : {e} \in SUBSET Emails
  OBVIOUS
<1> QED
  BY <1>1, <1>2, <1>3, <1>4, <1>5

LEMMA NextType == TypeOK /\ [Next]_vars => TypeOK'
<1>1. TypeOK /\ UNCHANGED vars => TypeOK'
  BY DEF TypeOK, vars, Active
<1> QED
  BY <1>1, ManualType, GmailType, ChargeType, AllocationType, RebuildType DEF Next

(***************************************************************************)
(* Every reachable database holds rows of its schema and finitely many     *)
(* allocations.                                                            *)
(***************************************************************************)
THEOREM LedgerTypeCorrect == Spec => []TypeOK
<1> QED
  BY InitType, NextType, PTL DEF Spec

-----------------------------------------------------------------------------
(* Capacities.  The three invariants carry each other: a payment that is   *)
(* stored anew has no rows yet because every row joins an active payment,  *)
(* and a voided one has none because its combined total was zero.          *)

Balanced == PaymentCapacity /\ TargetCapacity /\ LinksJoinActive

(***************************************************************************)
(* What is selected from an allocation table has a total.                  *)
(***************************************************************************)
LEMMA RowsPriced ==
    ASSUME TypeOK, NEW x
    PROVE  /\ Priced(RowsOf(x, rentAllocs), MaxAmount)
           /\ Priced(RowsOf(x, feeAllocs), MaxAmount)
           /\ Priced(RowsFor(x, rentAllocs), MaxAmount)
           /\ Priced(RowsFor(x, feeAllocs), MaxAmount)
<1>1. Priced(rentAllocs, MaxAmount) /\ Priced(feeAllocs, MaxAmount)
  BY LedgerConstants DEF TypeOK, Priced, RentRow, FeeRow, Amounts
<1>2. /\ RowsOf(x, rentAllocs) \in SUBSET rentAllocs
      /\ RowsOf(x, feeAllocs) \in SUBSET feeAllocs
      /\ RowsFor(x, rentAllocs) \in SUBSET rentAllocs
      /\ RowsFor(x, feeAllocs) \in SUBSET feeAllocs
  BY DEF RowsOf, RowsFor
<1> QED
  BY <1>1, <1>2, TotalMonotone

LEMMA TotalsNat ==
    ASSUME TypeOK, NEW x
    PROVE  /\ Total(RowsOf(x, rentAllocs)) \in Nat
           /\ Total(RowsOf(x, feeAllocs)) \in Nat
           /\ Total(RowsFor(x, rentAllocs)) \in Nat
           /\ Total(RowsFor(x, feeAllocs)) \in Nat
           /\ Combined(x) \in Nat
<1>1. /\ Total(RowsOf(x, rentAllocs)) \in Nat
      /\ Total(RowsOf(x, feeAllocs)) \in Nat
      /\ Total(RowsFor(x, rentAllocs)) \in Nat
      /\ Total(RowsFor(x, feeAllocs)) \in Nat
  BY RowsPriced, TotalType
<1> QED
  BY <1>1 DEF Combined

(***************************************************************************)
(* The combined total is zero exactly when no row of either table is left: *)
(* what the void commands conclude from "allocated_cents" being zero.      *)
(***************************************************************************)
LEMMA ZeroMeansNoRows ==
    ASSUME TypeOK, NEW p
    PROVE  Combined(p) = 0 <=> \A r \in rentAllocs \cup feeAllocs : r.payment # p
<1>1. ASSUME Combined(p) = 0 PROVE \A r \in rentAllocs \cup feeAllocs : r.payment # p
  <2>1. Total(RowsOf(p, rentAllocs)) = 0 /\ Total(RowsOf(p, feeAllocs)) = 0
    BY <1>1, TotalsNat DEF Combined
  <2>2. /\ \A r \in RowsOf(p, rentAllocs) : r.amount > 0
        /\ \A r \in RowsOf(p, feeAllocs) : r.amount > 0
    BY LedgerConstants DEF TypeOK, RowsOf, RentRow, FeeRow, Amounts
  <2>3. RowsOf(p, rentAllocs) = {} /\ RowsOf(p, feeAllocs) = {}
    BY <2>1, <2>2, RowsPriced, TotalZero
  <2> QED
    BY <2>3 DEF RowsOf
<1>2. ASSUME \A r \in rentAllocs \cup feeAllocs : r.payment # p PROVE Combined(p) = 0
  <2>1. RowsOf(p, rentAllocs) = {} /\ RowsOf(p, feeAllocs) = {}
    BY <1>2 DEF RowsOf
  <2> QED
    BY <2>1, TotalEmpty DEF Combined
<1> QED
  BY <1>1, <1>2

(***************************************************************************)
(* Rewriting one payment event keeps the balance when its new amount       *)
(* covers what is allocated, and nothing is unless it stays active.        *)
(***************************************************************************)
LEMMA PaymentStep ==
    ASSUME TypeOK, Balanced, NEW p \in Payments, NEW row,
           payment' = [payment EXCEPT ![p] = row],
           UNCHANGED <<obligation, fee, rentAllocs, feeAllocs>>,
           Combined(p) <= row.facts.amount,
           row.state = "active" \/ Combined(p) = 0
    PROVE  Balanced'
<1>1. \A q \in Payments : payment'[q] = IF q = p THEN row ELSE payment[q]
  BY DEF TypeOK
<1>2. PaymentCapacity'
  BY <1>1 DEF Balanced, PaymentCapacity, Combined, Amount
<1>3. TargetCapacity'
  BY DEF Balanced, TargetCapacity
<1>4. ASSUME NEW r \in rentAllocs \cup feeAllocs PROVE payment'[r.payment].state = "active"
  <2>1. r.payment \in Payments /\ payment[r.payment].state = "active"
    BY DEF TypeOK, Balanced, LinksJoinActive, RentRow, FeeRow, Active
  <2> QED
    BY <1>1, <2>1, ZeroMeansNoRows
<1>5. LinksJoinActive'
  BY <1>4 DEF Balanced, LinksJoinActive, Active
<1> QED
  BY <1>2, <1>3, <1>5 DEF Balanced

(***************************************************************************)
(* A payment that is not active has nothing allocated.                     *)
(***************************************************************************)
LEMMA InactiveHoldsNothing ==
    ASSUME TypeOK, Balanced, NEW p, ~Active(p)
    PROVE  Combined(p) = 0
BY ZeroMeansNoRows DEF Balanced, LinksJoinActive

LEMMA InitBalanced == Init => Balanced
<1> SUFFICES ASSUME Init PROVE Balanced
  OBVIOUS
<1>1. TypeOK /\ rentAllocs = {} /\ feeAllocs = {}
  BY InitType DEF Init
<1>2. \A p \in Payments : Combined(p) = 0 /\ Amount(p) \in Nat
  <2> TAKE p \in Payments
  <2>1. Combined(p) = 0
    BY <1>1, ZeroMeansNoRows
  <2>2. payment[p].facts \in Facts \cup {Blank}
    BY <1>1 DEF TypeOK, PaymentType
  <2> QED
    BY <2>1, <2>2, LedgerConstants DEF Amount, Facts, Blank
<1>3. \A t : RowsFor(t, rentAllocs) = {} /\ RowsFor(t, feeAllocs) = {}
  BY <1>1 DEF RowsFor
<1>4. TargetCapacity
  <2>1. /\ \A o \in Obligations : obligation[o] \in 0 .. MaxAmount
        /\ \A f \in Fees : fee[f].amount \in 0 .. MaxAmount
    BY <1>1 DEF TypeOK, FeeType
  <2>2. \A n \in 0 .. MaxAmount : 0 <= n
    BY LedgerConstants
  <2>3. \A t : Total(RowsFor(t, rentAllocs)) = 0 /\ Total(RowsFor(t, feeAllocs)) = 0
    BY <1>3, TotalEmpty
  <2> QED
    BY <2>1, <2>2, <2>3 DEF TargetCapacity
<1> QED
  BY <1>1, <1>2, <1>4 DEF Balanced, PaymentCapacity, LinksJoinActive

-----------------------------------------------------------------------------
(* Each group of commands keeps the balance. *)

LEMMA ManualBalanced == TypeOK /\ Balanced /\ ManualNext => Balanced'
<1> SUFFICES ASSUME TypeOK, Balanced, NEW m \in Manuals,
                    \/ VoidManual(m)
                    \/ \E facts \in Facts, confirm \in ConfirmFlags :
                         CreateManual(m, facts, confirm) \/ CorrectManual(m, facts, confirm)
             PROVE Balanced'
  BY DEF ManualNext
<1> USE DEF feeVars, allocVars
<1>0. m \in Payments /\ Combined(m) \in Nat /\ Combined(m) <= Amount(m)
  BY TotalsNat DEF Payments, Balanced, PaymentCapacity
<1>1. CASE VoidManual(m)
  <2> DEFINE row == [payment[m] EXCEPT !.state = "void"]
  <2>1. payment' = [payment EXCEPT ![m] = row] /\ row.facts = payment[m].facts
    BY <1>0, <1>1 DEF VoidManual, TypeOK, PaymentType
  <2> HIDE DEF row
  <2>2. Combined(m) = 0 /\ Combined(m) <= row.facts.amount
    BY <1>0, <1>1, <2>1 DEF VoidManual, Amount
  <2> QED
    BY <1>0, <1>1, <2>1, <2>2, PaymentStep DEF VoidManual
<1>2. ASSUME NEW facts \in Facts, NEW confirm, CreateManual(m, facts, confirm)
      PROVE Balanced'
  <2> DEFINE row == [state |-> "active", facts |-> facts,
                     parsedAt |-> 0, version |-> "manual"]
  <2>1. Combined(m) = 0
    BY <1>2, InactiveHoldsNothing DEF CreateManual, Stored, Active
  <2>2. payment' = [payment EXCEPT ![m] = row] /\ row.facts = facts
    BY <1>2 DEF CreateManual
  <2> HIDE DEF row
  <2>3. Combined(m) <= row.facts.amount
    BY <2>1, <2>2, LedgerConstants DEF Facts
  <2> QED
    BY <1>0, <1>2, <2>1, <2>2, <2>3, PaymentStep DEF CreateManual
<1>3. ASSUME NEW facts \in Facts, NEW confirm, CorrectManual(m, facts, confirm)
      PROVE Balanced'
  <2> DEFINE row == [state |-> "active", facts |-> facts,
                     parsedAt |-> payment[m].parsedAt + 1,
                     version |-> payment[m].version]
  <2>1. payment' = [payment EXCEPT ![m] = row] /\ row.state = "active" /\ row.facts = facts
    BY <1>0, <1>3 DEF CorrectManual, TypeOK
  <2> HIDE DEF row
  <2>2. Combined(m) <= row.facts.amount
    BY <1>0, <1>3, <2>1, LedgerConstants DEF CorrectManual, Facts
  <2> QED
    BY <1>0, <1>3, <2>1, <2>2, PaymentStep DEF CorrectManual
<1> QED
  BY <1>1, <1>2, <1>3

LEMMA GmailBalanced == TypeOK /\ Balanced /\ GmailNext => Balanced'
<1> SUFFICES ASSUME TypeOK, Balanced, NEW e \in Emails, ProcessEmail(e) \/ VoidGmail(e)
             PROVE Balanced'
  BY DEF GmailNext
<1> USE DEF manualVars, feeVars, allocVars
<1>0. e \in Payments /\ Combined(e) \in Nat /\ Combined(e) <= Amount(e)
  BY TotalsNat DEF Payments, Balanced, PaymentCapacity
<1>1. CASE ProcessEmail(e)
  <2> DEFINE row == [state |-> "active", facts |-> ParsedFacts[e],
                     parsedAt |-> 0, version |-> "current"]
  <2>1. Combined(e) = 0
    BY <1>1, InactiveHoldsNothing DEF ProcessEmail, Stored, Active
  <2>2. payment' = [payment EXCEPT ![e] = row] /\ row.facts = ParsedFacts[e]
    BY <1>1 DEF ProcessEmail
  <2> HIDE DEF row
  <2>3. ParsedFacts[e] \in Facts
    BY LedgerConstants
  <2>4. Combined(e) <= row.facts.amount
    BY <2>1, <2>2, <2>3, LedgerConstants DEF Facts
  <2> QED
    BY <1>0, <1>1, <2>1, <2>2, <2>4, PaymentStep DEF ProcessEmail
<1>2. CASE VoidGmail(e)
  <2> DEFINE row == [payment[e] EXCEPT !.state = "void"]
  <2>1. payment' = [payment EXCEPT ![e] = row] /\ row.facts = payment[e].facts
    BY <1>0, <1>2 DEF VoidGmail, TypeOK, PaymentType
  <2> HIDE DEF row
  <2>2. Combined(e) = 0 /\ Combined(e) <= row.facts.amount
    BY <1>0, <1>2, <2>1 DEF VoidGmail, Amount
  <2> QED
    BY <1>0, <1>2, <2>1, <2>2, PaymentStep DEF VoidGmail
<1> QED
  BY <1>1, <1>2

LEMMA ChargeBalanced == TypeOK /\ Balanced /\ ChargeNext => Balanced'
<1> SUFFICES ASSUME TypeOK, Balanced, ChargeNext PROVE Balanced'
  OBVIOUS
<1> USE DEF manualVars, feeVars, allocVars
<1>1. ASSUME NEW o \in Obligations, NEW amount \in Amounts, CreateObligation(o, amount)
      PROVE Balanced'
  <2>1. \A t \in Obligations : obligation'[t] = IF t = o THEN amount ELSE obligation[t]
    BY <1>1 DEF CreateObligation, TypeOK
  <2>2. obligation[o] = 0 /\ Total(RowsFor(o, rentAllocs)) \in Nat
    BY <1>1, TotalsNat DEF CreateObligation
  <2>3. amount \in Nat /\ amount > 0
    BY LedgerConstants DEF Amounts
  <2>4. PaymentCapacity'
    BY <1>1 DEF CreateObligation, Balanced, PaymentCapacity, Combined, Amount
  <2>5. TargetCapacity'
    BY <1>1, <2>1, <2>2, <2>3 DEF CreateObligation, Balanced, TargetCapacity
  <2>6. LinksJoinActive'
    BY <1>1, <2>1, <2>3
    DEF CreateObligation, Balanced, LinksJoinActive, Active, TypeOK, RentRow
  <2> QED
    BY <2>4, <2>5, <2>6 DEF Balanced
<1>2. ASSUME NEW f \in Fees, VoidFee(f) PROVE Balanced'
  <2>1. \A t \in Fees : /\ fee'[t].amount = fee[t].amount
                         /\ t # f => fee'[t] = fee[t]
    BY <1>2 DEF VoidFee, TypeOK, FeeType
  <2>2. PaymentCapacity'
    BY <1>2 DEF VoidFee, Balanced, PaymentCapacity, Combined, Amount
  <2>3. TargetCapacity'
    BY <1>2, <2>1 DEF VoidFee, Balanced, TargetCapacity
  <2>4. RowsFor(f, feeAllocs) = {}
    <3>1. \A r \in RowsFor(f, feeAllocs) : r.amount > 0
      BY LedgerConstants DEF TypeOK, RowsFor, FeeRow, Amounts
    <3> QED
      BY <1>2, <3>1, RowsPriced, TotalZero DEF VoidFee
  <2>5. LinksJoinActive'
    BY <1>2, <2>1, <2>4
    DEF VoidFee, Balanced, LinksJoinActive, Active, RowsFor, TypeOK, FeeRow
  <2> QED
    BY <2>2, <2>3, <2>5 DEF Balanced
<1>3. ASSUME NEW f \in Fees, NEW o \in Obligations, NEW amount \in Amounts,
             NEW day \in Days, NEW confirm, AssessFee(f, o, amount, day, confirm)
      PROVE Balanced'
  <2>1. \A t \in Fees : t # f => fee'[t] = fee[t]
    BY <1>3 DEF AssessFee, TypeOK
  <2>2. fee'[f].amount = amount /\ amount \in Nat /\ amount > 0
    BY <1>3, LedgerConstants DEF AssessFee, TypeOK, Amounts
  <2>3. RowsFor(f, feeAllocs) = {} /\ Total({}) = 0
    BY <1>3, TotalEmpty DEF AssessFee, Balanced, LinksJoinActive, RowsFor
  <2>4. PaymentCapacity'
    BY <1>3 DEF AssessFee, Balanced, PaymentCapacity, Combined, Amount
  <2>5. TargetCapacity'
    <3>1. \A t \in Fees : Total(RowsFor(t, feeAllocs)) <= fee'[t].amount
      <4> TAKE t \in Fees
      <4>1. CASE t = f
        BY <2>2, <2>3, <4>1
      <4>2. CASE t # f
        BY <2>1, <4>2 DEF Balanced, TargetCapacity
      <4> QED
        BY <4>1, <4>2
    <3> QED
      BY <1>3, <3>1 DEF AssessFee, Balanced, TargetCapacity
  <2>6. LinksJoinActive'
    BY <1>3, <2>1, <2>3
    DEF AssessFee, Balanced, LinksJoinActive, Active, RowsFor, TypeOK, FeeRow
  <2> QED
    BY <2>4, <2>5, <2>6 DEF Balanced
<1> QED
  BY <1>1, <1>2, <1>3 DEF ChargeNext

(***************************************************************************)
(* Links have totals.                                                      *)
(***************************************************************************)
LEMMA LinksPriced ==
    ASSUME NEW links \in SUBSET RentRow, IsFiniteSet(links), NEW q
    PROVE  /\ Priced(RowsOf(q, links), MaxAmount) /\ Total(RowsOf(q, links)) \in Nat
           /\ Priced(RowsFor(q, links), MaxAmount) /\ Total(RowsFor(q, links)) \in Nat
<1>1. Priced(links, MaxAmount)
  BY LedgerConstants DEF Amounts, RentRow, Priced
<1>2. RowsOf(q, links) \in SUBSET links /\ RowsFor(q, links) \in SUBSET links
  BY DEF RowsOf, RowsFor
<1> QED
  BY <1>1, <1>2, TotalMonotone, TotalType

(***************************************************************************)
(* A new link counts for its payment and for its obligation, and for       *)
(* nothing else.                                                           *)
(***************************************************************************)
OneMore(links, l) ==
    /\ links \cup {l} \in SUBSET RentRow /\ IsFiniteSet(links \cup {l})
    /\ \A q : /\ Total(RowsOf(q, links)) \in Nat /\ Total(RowsFor(q, links)) \in Nat
              /\ Total(RowsOf(q, links \cup {l}))
                   = IF q = l.payment THEN Total(RowsOf(q, links)) + l.amount
                                      ELSE Total(RowsOf(q, links))
              /\ Total(RowsFor(q, links \cup {l}))
                   = IF q = l.target THEN Total(RowsFor(q, links)) + l.amount
                                     ELSE Total(RowsFor(q, links))

(***************************************************************************)
(* That is what adding a link of a new pair does.                          *)
(***************************************************************************)
LEMMA LinkTotals ==
    ASSUME NEW links \in SUBSET RentRow, IsFiniteSet(links),
           NEW l \in RentRow, l \notin links
    PROVE  OneMore(links, l)
<1> SUFFICES ASSUME NEW q
             PROVE  /\ Total(RowsOf(q, links)) \in Nat /\ Total(RowsFor(q, links)) \in Nat
                    /\ Total(RowsOf(q, links \cup {l}))
                         = IF q = l.payment THEN Total(RowsOf(q, links)) + l.amount
                                            ELSE Total(RowsOf(q, links))
                    /\ Total(RowsFor(q, links \cup {l}))
                         = IF q = l.target THEN Total(RowsFor(q, links)) + l.amount
                                           ELSE Total(RowsFor(q, links))
  BY FS_AddElement DEF OneMore
<1>1. l.amount \in 0 .. MaxAmount
  BY LedgerConstants DEF Amounts, RentRow
<1>3. /\ Priced(RowsOf(q, links), MaxAmount) /\ Total(RowsOf(q, links)) \in Nat
      /\ Priced(RowsFor(q, links), MaxAmount) /\ Total(RowsFor(q, links)) \in Nat
  BY LinksPriced
<1>4. ASSUME q = l.payment
      PROVE  Total(RowsOf(q, links \cup {l})) = Total(RowsOf(q, links)) + l.amount
  <2>1. RowsOf(q, links \cup {l}) = RowsOf(q, links) \cup {l} /\ l \notin RowsOf(q, links)
    BY <1>4 DEF RowsOf
  <2> QED
    BY <1>1, <1>3, <2>1, TotalAdd
<1>5. ASSUME q # l.payment
      PROVE  RowsOf(q, links \cup {l}) = RowsOf(q, links)
  BY <1>5 DEF RowsOf
<1>6. ASSUME q = l.target
      PROVE  Total(RowsFor(q, links \cup {l})) = Total(RowsFor(q, links)) + l.amount
  <2>1. RowsFor(q, links \cup {l}) = RowsFor(q, links) \cup {l} /\ l \notin RowsFor(q, links)
    BY <1>6 DEF RowsFor
  <2> QED
    BY <1>1, <1>3, <2>1, TotalAdd
<1>7. ASSUME q # l.target
      PROVE  RowsFor(q, links \cup {l}) = RowsFor(q, links)
  BY <1>7 DEF RowsFor
<1> QED
  BY <1>3, <1>4, <1>5, <1>6, <1>7

(***************************************************************************)
(* The rows a plan adds are new, so its totals add up with those stored.   *)
(***************************************************************************)
LEMMA PlanTotals ==
    ASSUME TypeOK, NEW L \in SUBSET RentRow, IsFiniteSet(L), rentAllocs \cap L = {}, NEW x
    PROVE  /\ Total(RowsOf(x, rentAllocs \cup L))
                = Total(RowsOf(x, rentAllocs)) + Total(RowsOf(x, L))
           /\ Total(RowsFor(x, rentAllocs \cup L))
                = Total(RowsFor(x, rentAllocs)) + Total(RowsFor(x, L))
           /\ Total(RowsOf(x, L)) \in Nat /\ Total(RowsFor(x, L)) \in Nat
<1>2. Priced(L, MaxAmount)
  BY LedgerConstants DEF Priced, RentRow, Amounts
<1>3. RowsOf(x, L) \in SUBSET L /\ RowsFor(x, L) \in SUBSET L
  BY DEF RowsOf, RowsFor
<1>4. Priced(RowsOf(x, L), MaxAmount) /\ Priced(RowsFor(x, L), MaxAmount)
  BY <1>2, <1>3, TotalMonotone
<1>5. /\ RowsOf(x, rentAllocs \cup L) = RowsOf(x, rentAllocs) \cup RowsOf(x, L)
      /\ RowsFor(x, rentAllocs \cup L) = RowsFor(x, rentAllocs) \cup RowsFor(x, L)
      /\ RowsOf(x, rentAllocs) \cap RowsOf(x, L) = {}
      /\ RowsFor(x, rentAllocs) \cap RowsFor(x, L) = {}
  BY DEF RowsOf, RowsFor
<1>6. Total(RowsOf(x, rentAllocs \cup L))
        = Total(RowsOf(x, rentAllocs)) + Total(RowsOf(x, L))
  BY <1>4, <1>5, RowsPriced, TotalUnion
<1>7. Total(RowsFor(x, rentAllocs \cup L))
        = Total(RowsFor(x, rentAllocs)) + Total(RowsFor(x, L))
  BY <1>4, <1>5, RowsPriced, TotalUnion
<1> QED
  BY <1>4, <1>6, <1>7, TotalType

(***************************************************************************)
(* Only the payments and obligations a plan names get new rows.            *)
(***************************************************************************)
LEMMA InsertBalanced ==
    ASSUME TypeOK, Balanced, NEW L \in SUBSET RentRow, IsFiniteSet(L), InsertRent(L)
    PROVE  Balanced'
<1> USE DEF InsertRent, manualVars, feeVars
<1>1. CanInsert(L) /\ rentAllocs' = rentAllocs \cup L /\ rentAllocs \cap L = {}
  BY DEF CanInsert, HasPair
<1>2. ASSUME NEW p \in Payments PROVE Combined(p)' <= Amount(p)'
  <2> DEFINE old == Total(RowsOf(p, rentAllocs))
             new == Total(RowsOf(p, L))
             fees == Total(RowsOf(p, feeAllocs))
  <2>1. Combined(p)' = (old + new) + fees /\ Amount(p)' = Amount(p)
    BY <1>1, PlanTotals DEF Combined, Amount
  <2>2. old \in Nat /\ new \in Nat /\ fees \in Nat
    BY <1>1, PlanTotals, TotalsNat
  <2>3. CASE \E l \in L : l.payment = p
    <3>1. (old + fees) + new <= Amount(p)
      BY <1>1, <2>3 DEF CanInsert, Combined
    <3> HIDE DEF old, new, fees
    <3>2. (old + new) + fees = (old + fees) + new
      BY <2>2
    <3> QED
      BY <2>1, <3>1, <3>2
  <2>4. CASE \A l \in L : l.payment # p
    <3>1. RowsOf(p, L) = {}
      BY <2>4 DEF RowsOf
    <3>2. new = 0
      BY <3>1, TotalEmpty
    <3>3. old + fees <= Amount(p)
      BY DEF Balanced, PaymentCapacity, Combined
    <3> HIDE DEF old, new, fees
    <3> QED
      BY <2>1, <2>2, <3>2, <3>3
  <2> QED
    BY <2>3, <2>4
<1>3. ASSUME NEW o \in Obligations
      PROVE Total(RowsFor(o, rentAllocs')) <= obligation'[o]
  <2>1. Total(RowsFor(o, rentAllocs'))
          = Total(RowsFor(o, rentAllocs)) + Total(RowsFor(o, L))
    BY <1>1, PlanTotals
  <2>2. CASE \E l \in L : l.target = o
    BY <1>1, <2>1, <2>2 DEF CanInsert
  <2>3. CASE \A l \in L : l.target # o
    <3>1. RowsFor(o, L) = {}
      BY <2>3 DEF RowsFor
    <3>2. Total(RowsFor(o, L)) = 0
      BY <3>1, TotalEmpty
    <3>3. Total(RowsFor(o, rentAllocs)) \in Nat
      BY TotalsNat
    <3> QED
      BY <2>1, <3>2, <3>3 DEF Balanced, TargetCapacity
  <2> QED
    BY <2>2, <2>3
<1>4. LinksJoinActive'
  BY <1>1 DEF CanInsert, Balanced, LinksJoinActive, Active
<1>5. PaymentCapacity'
  BY <1>2 DEF PaymentCapacity
<1>6. TargetCapacity'
  BY <1>3 DEF Balanced, TargetCapacity
<1> QED
  BY <1>4, <1>5, <1>6 DEF Balanced

(***************************************************************************)
(* Taking rows away keeps every sum within its limit.                      *)
(***************************************************************************)
LEMMA RemoveBalanced ==
    ASSUME TypeOK, Balanced,
           NEW R \in SUBSET rentAllocs, NEW F \in SUBSET feeAllocs,
           rentAllocs' = R, feeAllocs' = F,
           UNCHANGED <<payment, obligation, fee>>
    PROVE  Balanced'
<1>1. ASSUME NEW x
      PROVE /\ Total(RowsOf(x, R)) <= Total(RowsOf(x, rentAllocs))
            /\ Total(RowsOf(x, F)) <= Total(RowsOf(x, feeAllocs))
            /\ Total(RowsFor(x, R)) <= Total(RowsFor(x, rentAllocs))
            /\ Total(RowsFor(x, F)) <= Total(RowsFor(x, feeAllocs))
            /\ {Total(RowsOf(x, R)), Total(RowsOf(x, F)),
                Total(RowsFor(x, R)), Total(RowsFor(x, F))} \subseteq Nat
  <2>1. /\ RowsOf(x, R) \in SUBSET RowsOf(x, rentAllocs)
        /\ RowsOf(x, F) \in SUBSET RowsOf(x, feeAllocs)
        /\ RowsFor(x, R) \in SUBSET RowsFor(x, rentAllocs)
        /\ RowsFor(x, F) \in SUBSET RowsFor(x, feeAllocs)
    BY DEF RowsOf, RowsFor
  <2>2. /\ Total(RowsOf(x, R)) <= Total(RowsOf(x, rentAllocs))
        /\ Priced(RowsOf(x, R), MaxAmount)
    BY <2>1, RowsPriced, TotalMonotone
  <2>3. /\ Total(RowsOf(x, F)) <= Total(RowsOf(x, feeAllocs))
        /\ Priced(RowsOf(x, F), MaxAmount)
    BY <2>1, RowsPriced, TotalMonotone
  <2>4. /\ Total(RowsFor(x, R)) <= Total(RowsFor(x, rentAllocs))
        /\ Priced(RowsFor(x, R), MaxAmount)
    BY <2>1, RowsPriced, TotalMonotone
  <2>5. /\ Total(RowsFor(x, F)) <= Total(RowsFor(x, feeAllocs))
        /\ Priced(RowsFor(x, F), MaxAmount)
    BY <2>1, RowsPriced, TotalMonotone
  <2> QED
    BY <2>2, <2>3, <2>4, <2>5, TotalType
<1>2. PaymentCapacity'
  <2> SUFFICES ASSUME NEW p \in Payments PROVE Combined(p)' <= Amount(p)'
    BY DEF PaymentCapacity
  <2>1. Combined(p) <= Amount(p) /\ Amount(p) \in Nat
    BY LedgerConstants DEF Balanced, PaymentCapacity, Amount, TypeOK, PaymentType, Facts, Blank
  <2>2. Combined(p)' = Total(RowsOf(p, R)) + Total(RowsOf(p, F)) /\ Amount(p)' = Amount(p)
    BY DEF Combined, Amount
  <2> QED
    BY <1>1, <2>1, <2>2, TotalsNat DEF Combined
<1>3. TargetCapacity'
  <2>1. /\ \A o \in Obligations : obligation[o] \in Nat
        /\ \A f \in Fees : fee[f].amount \in Nat
    BY LedgerConstants DEF TypeOK, FeeType
  <2> QED
    BY <1>1, <2>1, TotalsNat DEF Balanced, TargetCapacity
<1>4. LinksJoinActive'
  BY DEF Balanced, LinksJoinActive, Active
<1> QED
  BY <1>2, <1>3, <1>4 DEF Balanced

LEMMA FeeAddBalanced ==
    ASSUME TypeOK, Balanced, NEW l \in FeeRow, AddFeeAllocation(l)
    PROVE  Balanced'
<1> USE DEF AddFeeAllocation, manualVars, feeVars
<1>1. l \notin feeAllocs
  BY DEF HasPair
<1>2. l.amount \in 0 .. MaxAmount /\ l.amount \in Nat
  BY LedgerConstants DEF FeeRow, Amounts
<1>3. ASSUME NEW x
      PROVE /\ Total(RowsOf(x, feeAllocs')) =
                 IF x = l.payment THEN Total(RowsOf(x, feeAllocs)) + l.amount
                                  ELSE Total(RowsOf(x, feeAllocs))
            /\ Total(RowsFor(x, feeAllocs')) =
                 IF x = l.target THEN Total(RowsFor(x, feeAllocs)) + l.amount
                                 ELSE Total(RowsFor(x, feeAllocs))
  <2>1. /\ RowsOf(x, feeAllocs') = IF x = l.payment THEN RowsOf(x, feeAllocs) \cup {l}
                                                   ELSE RowsOf(x, feeAllocs)
        /\ RowsFor(x, feeAllocs') = IF x = l.target THEN RowsFor(x, feeAllocs) \cup {l}
                                                   ELSE RowsFor(x, feeAllocs)
    BY DEF RowsOf, RowsFor
  <2>2. l \notin RowsOf(x, feeAllocs) /\ l \notin RowsFor(x, feeAllocs)
    BY <1>1 DEF RowsOf, RowsFor
  <2>3. Total(RowsOf(x, feeAllocs) \cup {l}) = Total(RowsOf(x, feeAllocs)) + l.amount
    BY <1>2, <2>2, RowsPriced, TotalAdd
  <2>4. Total(RowsFor(x, feeAllocs) \cup {l}) = Total(RowsFor(x, feeAllocs)) + l.amount
    BY <1>2, <2>2, RowsPriced, TotalAdd
  <2> QED
    BY <2>1, <2>3, <2>4
<1>4. PaymentCapacity'
  <2> SUFFICES ASSUME NEW p \in Payments PROVE Combined(p)' <= Amount(p)'
    BY DEF PaymentCapacity
  <2>1. Combined(p) <= Amount(p) /\ Amount(p) \in Nat /\ Amount(p)' = Amount(p)
    BY LedgerConstants DEF Balanced, PaymentCapacity, Amount, TypeOK, PaymentType, Facts, Blank
  <2>2. Combined(p)' = Total(RowsOf(p, rentAllocs)) + Total(RowsOf(p, feeAllocs'))
    BY DEF Combined
  <2>3. CASE p = l.payment
    <3>1. Combined(p)' = Total(RowsOf(p, rentAllocs)) + (Total(RowsOf(p, feeAllocs)) + l.amount)
      BY <1>3, <2>2, <2>3
    <3>2. l.amount <= Amount(p) - Combined(p)
      BY <2>3
    <3> QED
      BY <1>2, <2>1, <3>1, <3>2, TotalsNat DEF Combined
  <2>4. CASE p # l.payment
    BY <1>3, <2>1, <2>2, <2>4 DEF Combined
  <2> QED
    BY <2>3, <2>4
<1>5. TargetCapacity'
  <2> SUFFICES ASSUME NEW f \in Fees PROVE Total(RowsFor(f, feeAllocs')) <= fee[f].amount
    BY DEF Balanced, TargetCapacity
  <2>1. Total(RowsFor(f, feeAllocs)) <= fee[f].amount /\ fee[f].amount \in Nat
    BY LedgerConstants DEF Balanced, TargetCapacity, TypeOK, FeeType
  <2>2. CASE f = l.target
    <3>1. l.amount <= fee[f].amount - Total(RowsFor(f, feeAllocs))
      BY <2>2
    <3>2. Total(RowsFor(f, feeAllocs')) = Total(RowsFor(f, feeAllocs)) + l.amount
      BY <1>3, <2>2
    <3> QED
      BY <1>2, <2>1, <3>1, <3>2, TotalsNat
  <2>3. CASE f # l.target
    BY <1>3, <2>1, <2>3
  <2> QED
    BY <2>2, <2>3
<1>6. LinksJoinActive'
  BY DEF Balanced, LinksJoinActive, Active
<1> QED
  BY <1>4, <1>5, <1>6 DEF Balanced

LEMMA AllocationBalanced == TypeOK /\ Balanced /\ AllocationNext => Balanced'
<1> SUFFICES ASSUME TypeOK, Balanced, AllocationNext PROVE Balanced'
  OBVIOUS
<1> USE DEF manualVars, feeVars
<1>1. ASSUME NEW l \in RentRow, AddAllocation(l) PROVE Balanced'
  <2>1. {l} \in SUBSET RentRow /\ IsFiniteSet({l})
    BY FS_Singleton
  <2> QED
    BY <1>1, <2>1, InsertBalanced DEF AddAllocation
<1>2. ASSUME NEW L \in Plans, ApplyPlan(L) PROVE Balanced'
  BY <1>2, InsertBalanced, LedgerConstants DEF ApplyPlan
<1>3. ASSUME NEW l \in RentRow, RemoveAllocation(l) PROVE Balanced'
  <2>1. /\ rentAllocs \ {l} \in SUBSET rentAllocs /\ feeAllocs \in SUBSET feeAllocs
        /\ rentAllocs' = rentAllocs \ {l} /\ feeAllocs' = feeAllocs
        /\ UNCHANGED <<payment, obligation, fee>>
    BY <1>3 DEF RemoveAllocation
  <2> QED
    BY <2>1, RemoveBalanced
<1>4. ASSUME NEW l \in FeeRow, RemoveFeeAllocation(l) PROVE Balanced'
  <2>1. /\ rentAllocs \in SUBSET rentAllocs /\ feeAllocs \ {l} \in SUBSET feeAllocs
        /\ rentAllocs' = rentAllocs /\ feeAllocs' = feeAllocs \ {l}
        /\ UNCHANGED <<payment, obligation, fee>>
    BY <1>4 DEF RemoveFeeAllocation
  <2> QED
    BY <2>1, RemoveBalanced
<1> QED
  BY <1>1, <1>2, <1>3, <1>4, FeeAddBalanced DEF AllocationNext

(***************************************************************************)
(* A rebuild checks the allocations again in its own transaction, so what  *)
(* its snapshot said does not matter.                                      *)
(***************************************************************************)
LEMMA RebuildBalanced == TypeOK /\ Balanced /\ RebuildNext => Balanced'
<1> SUFFICES ASSUME TypeOK, Balanced, NEW s \in Sessions,
                    \/ RebuildStart(s, Emails)
                    \/ \E e \in Emails : RebuildStart(s, {e})
                    \/ \E src \in batch[s] :
                         \/ RebuildUpdate(s, src) \/ RebuildReject(s, src)
                         \/ RebuildAbort(s, src)
                    \/ RebuildStop(s)
             PROVE Balanced'
  BY DEF RebuildNext
<1> USE DEF manualVars, feeVars, allocVars
<1>1. ASSUME UNCHANGED <<payment, obligation, fee, rentAllocs, feeAllocs>>
      PROVE Balanced'
  BY <1>1 DEF Balanced, PaymentCapacity, TargetCapacity, LinksJoinActive,
              Combined, Amount, Active
<1>2. ASSUME NEW src \in batch[s], RebuildUpdate(s, src) PROVE Balanced'
  <2> DEFINE p == src.payment
             row == [state |-> payment[p].state, facts |-> ParsedFacts[p],
                     parsedAt |-> payment[p].parsedAt + 1, version |-> "current"]
  <2>1. p \in Emails /\ p \in Payments
    BY DEF TypeOK, Source, Payments
  <2>2. ParsedFacts[p] \in Facts
    BY <2>1, LedgerConstants
  <2>3. /\ payment' = [payment EXCEPT ![p] = row]
        /\ row.facts = ParsedFacts[p] /\ row.state = payment[p].state
    BY <1>2, <2>1 DEF RebuildUpdate, TypeOK
  <2>4. Combined(p) \in Nat /\ ParsedFacts[p].amount \in Nat
    BY <2>2, TotalsNat, LedgerConstants DEF Facts
  <2> HIDE DEF row
  <2>5. Combined(p) <= row.facts.amount
    BY <1>2, <2>3, <2>4 DEF RebuildUpdate
  <2>6. row.state = "active" \/ Combined(p) = 0
    BY <2>3, InactiveHoldsNothing DEF Active
  <2>7. UNCHANGED <<obligation, fee, rentAllocs, feeAllocs>>
    BY <1>2 DEF RebuildUpdate
  <2> QED
    BY <2>1, <2>3, <2>5, <2>6, <2>7, PaymentStep
<1> QED
  BY <1>1, <1>2 DEF RebuildStart, RebuildReject, RebuildAbort, RebuildStop

LEMMA NextBalanced == TypeOK /\ Balanced /\ [Next]_vars => Balanced'
<1>1. TypeOK /\ Balanced /\ UNCHANGED vars => Balanced'
  BY DEF vars, Balanced, PaymentCapacity, TargetCapacity, LinksJoinActive,
         Combined, Amount, Active
<1> QED
  BY <1>1, ManualBalanced, GmailBalanced, ChargeBalanced, AllocationBalanced,
     RebuildBalanced DEF Next

THEOREM LedgerBalanced == Spec => []Balanced
<1> QED
  BY InitType, InitBalanced, NextType, NextBalanced, PTL DEF Spec

(***************************************************************************)
(* No payment is ever allocated beyond its amount, over rent and late fees *)
(* together, whichever commands and rebuilds run in whichever order.       *)
(***************************************************************************)
THEOREM PaymentNeverOverspent == Spec => []PaymentCapacity
<1>1. Balanced => PaymentCapacity
  BY DEF Balanced
<1> QED
  BY <1>1, LedgerBalanced, PTL

(***************************************************************************)
(* No obligation and no late fee ever receives more than it asks for.      *)
(***************************************************************************)
THEOREM TargetNeverOverpaid == Spec => []TargetCapacity
<1>1. Balanced => TargetCapacity
  BY DEF Balanced
<1> QED
  BY <1>1, LedgerBalanced, PTL

(***************************************************************************)
(* No voided payment or fee, and nothing that was never stored, ever holds *)
(* an allocation.                                                          *)
(***************************************************************************)
THEOREM VoidedHoldsNoMoney == Spec => []LinksJoinActive
<1>1. Balanced => LinksJoinActive
  BY DEF Balanced
<1> QED
  BY <1>1, LedgerBalanced, PTL

-----------------------------------------------------------------------------
(* What stays *)

(***************************************************************************)
(* A payment event is never deleted.                                       *)
(***************************************************************************)
LEMMA StoredStays ==
    ASSUME TypeOK, [Next]_vars, NEW p \in Payments, Stored(p)
    PROVE  Stored(p)'
<1> USE DEF Stored
<1>1. CASE UNCHANGED payment
  BY <1>1
<1>2. ASSUME NEW s \in Sessions, NEW src \in batch[s], RebuildUpdate(s, src)
      PROVE  Stored(p)'
  BY <1>2 DEF RebuildUpdate, TypeOK
<1>3. ASSUME NEW m \in Manuals, VoidManual(m) PROVE Stored(p)'
  BY <1>3 DEF VoidManual, TypeOK
<1>4. ASSUME NEW m \in Manuals, NEW facts, NEW confirm,
             CreateManual(m, facts, confirm) \/ CorrectManual(m, facts, confirm)
      PROVE  Stored(p)'
  <2>1. CASE CreateManual(m, facts, confirm)
    BY <2>1 DEF CreateManual, TypeOK, Payments
  <2>2. CASE CorrectManual(m, facts, confirm)
    BY <2>2 DEF CorrectManual, TypeOK, Payments
  <2> QED
    BY <1>4, <2>1, <2>2
<1>5. ASSUME NEW e \in Emails, ProcessEmail(e) \/ VoidGmail(e) PROVE Stored(p)'
  <2>1. CASE ProcessEmail(e)
    BY <2>1 DEF ProcessEmail, TypeOK, Payments
  <2>2. CASE VoidGmail(e)
    BY <2>2 DEF VoidGmail, TypeOK, Payments
  <2> QED
    BY <1>5, <2>1, <2>2
<1>6. ChargeNext \/ AllocationNext => UNCHANGED payment
  BY DEF ChargeNext, CreateObligation, VoidFee, AssessFee, AllocationNext, AddAllocation,
     ApplyPlan, InsertRent, AddFeeAllocation, RemoveAllocation, RemoveFeeAllocation
<1>7. ASSUME NEW s \in Sessions, NEW src,
             RebuildStart(s, Emails) \/ (\E e \in Emails : RebuildStart(s, {e}))
               \/ RebuildReject(s, src) \/ RebuildAbort(s, src) \/ RebuildStop(s)
      PROVE  UNCHANGED payment
  BY <1>7 DEF RebuildStart, RebuildReject, RebuildAbort, RebuildStop
<1> QED
  BY <1>1, <1>2, <1>3, <1>4, <1>5, <1>6, <1>7
     DEF Next, ManualNext, GmailNext, RebuildNext, vars

(***************************************************************************)
(* Neither is an obligation, and its amount never changes.                 *)
(***************************************************************************)
LEMMA ChargesStay ==
    ASSUME TypeOK, [Next]_vars, NEW o \in Obligations, obligation[o] > 0
    PROVE  obligation'[o] = obligation[o]
<1>1. CASE UNCHANGED obligation
  BY <1>1
<1>2. ASSUME NEW x \in Obligations, NEW amount, CreateObligation(x, amount)
      PROVE  obligation'[o] = obligation[o]
  BY <1>2 DEF CreateObligation, TypeOK
<1>3. ManualNext \/ GmailNext \/ AllocationNext \/ RebuildNext => UNCHANGED obligation
  BY DEF ManualNext, VoidManual, CreateManual, CorrectManual, GmailNext, ProcessEmail,
     VoidGmail, AllocationNext, AddAllocation, ApplyPlan, InsertRent, AddFeeAllocation,
     RemoveAllocation, RemoveFeeAllocation, RebuildNext, RebuildStart, RebuildUpdate,
     RebuildReject, RebuildAbort, RebuildStop
<1>4. ASSUME NEW f, NEW x, NEW amount, NEW day, NEW confirm,
             VoidFee(f) \/ AssessFee(f, x, amount, day, confirm)
      PROVE  UNCHANGED obligation
  BY <1>4 DEF VoidFee, AssessFee
<1> QED
  BY <1>1, <1>2, <1>3, <1>4 DEF Next, ChargeNext, vars

-----------------------------------------------------------------------------
(* The loop of a plan *)

(***************************************************************************)
(* What the checks of one link say of the table with that link in it.      *)
(***************************************************************************)
Fits(l, rows) ==
    /\ Active(l.payment) /\ obligation[l.target] > 0
    /\ Total(RowsOf(l.payment, rows)) + Total(RowsOf(l.payment, feeAllocs))
         <= Amount(l.payment)
    /\ Total(RowsFor(l.target, rows)) <= obligation[l.target]

LEMMA AcceptedFits ==
    ASSUME TypeOK, NEW rows \in SUBSET RentRow, IsFiniteSet(rows), NEW l \in RentRow
    PROVE  LinkAccepted(l, rows) <=> ~HasPair(l, rows) /\ Fits(l, rows \cup {l})
<1> DEFINE spent == Total(RowsOf(l.payment, rows))
           fees  == Total(RowsOf(l.payment, feeAllocs))
           paid  == Total(RowsFor(l.target, rows))
<1> SUFFICES ASSUME Active(l.payment), ~HasPair(l, rows)
             PROVE  /\ l.amount <= Amount(l.payment) - spent - fees
                         <=> Total(RowsOf(l.payment, rows \cup {l})) + fees
                               <= Amount(l.payment)
                    /\ l.amount <= obligation[l.target] - paid
                         <=> Total(RowsFor(l.target, rows \cup {l}))
                               <= obligation[l.target]
  BY DEF LinkAccepted, Fits
<1>1. l \notin rows
  BY DEF HasPair
<1>2. /\ spent \in Nat /\ paid \in Nat
      /\ Total(RowsOf(l.payment, rows \cup {l})) = spent + l.amount
      /\ Total(RowsFor(l.target, rows \cup {l})) = paid + l.amount
  BY <1>1, LinkTotals DEF OneMore
<1>3. fees \in Nat
  BY TotalsNat
<1>4. /\ l.payment \in Payments /\ l.target \in Obligations
      /\ l.amount \in Nat
  BY LedgerConstants DEF RentRow, Amounts
<1>5. Amount(l.payment) \in Nat /\ obligation[l.target] \in Nat
  BY <1>4, LedgerConstants DEF TypeOK, Facts, Amount
<1> HIDE DEF spent, fees, paid
<1> QED
  BY <1>2, <1>3, <1>4, <1>5

(***************************************************************************)
(* A set of links is accepted when each of them fits in the table with all *)
(* of them in it, and no pair is there twice.                              *)
(***************************************************************************)
LEMMA InsertFits ==
    ASSUME TypeOK, NEW L \in SUBSET RentRow, IsFiniteSet(L)
    PROVE  CanInsert(L) <=> \A l \in L : /\ ~HasPair(l, rentAllocs)
                                         /\ ~HasPair(l, L \ {l})
                                         /\ Fits(l, rentAllocs \cup L)
<1>1. SUFFICES ASSUME \A l \in L : ~HasPair(l, rentAllocs), NEW l \in L
      PROVE  /\ Combined(l.payment) + Total(RowsOf(l.payment, L))
                  = Total(RowsOf(l.payment, rentAllocs \cup L))
                      + Total(RowsOf(l.payment, feeAllocs))
             /\ Total(RowsFor(l.target, rentAllocs)) + Total(RowsFor(l.target, L))
                  = Total(RowsFor(l.target, rentAllocs \cup L))
  BY <1>1 DEF CanInsert, Fits
<1>2. rentAllocs \cap L = {}
  BY <1>1 DEF HasPair
<1>3. /\ Total(RowsOf(l.payment, rentAllocs \cup L))
           = Total(RowsOf(l.payment, rentAllocs)) + Total(RowsOf(l.payment, L))
      /\ Total(RowsFor(l.target, rentAllocs \cup L))
           = Total(RowsFor(l.target, rentAllocs)) + Total(RowsFor(l.target, L))
      /\ Total(RowsOf(l.payment, L)) \in Nat
  BY <1>2, PlanTotals
<1>4. /\ Combined(l.payment) = Total(RowsOf(l.payment, rentAllocs))
                                 + Total(RowsOf(l.payment, feeAllocs))
      /\ Total(RowsOf(l.payment, rentAllocs)) \in Nat
      /\ Total(RowsOf(l.payment, feeAllocs)) \in Nat
  BY TotalsNat DEF Combined
<1> QED
  BY <1>3, <1>4

(***************************************************************************)
(* With fewer rows a link fits all the more.                               *)
(***************************************************************************)
LEMMA FitsInLess ==
    ASSUME TypeOK, NEW rows \in SUBSET RentRow, IsFiniteSet(rows), NEW some \in SUBSET rows,
           NEW l \in RentRow, Fits(l, rows)
    PROVE  Fits(l, some)
<1> DEFINE a == Total(RowsOf(l.payment, rows))  x == Total(RowsOf(l.payment, some))
           b == Total(RowsFor(l.target, rows))  y == Total(RowsFor(l.target, some))
           f == Total(RowsOf(l.payment, feeAllocs))
           p == Amount(l.payment)               o == obligation[l.target]
<1>1. some \in SUBSET RentRow /\ IsFiniteSet(some)
  BY FS_Subset
<1>2. a \in Nat /\ x \in Nat /\ b \in Nat /\ y \in Nat /\ f \in Nat
  BY <1>1, LinksPriced, TotalsNat
<1>3. x <= a /\ y <= b
  <2>1. /\ RowsOf(l.payment, some) \in SUBSET RowsOf(l.payment, rows)
        /\ RowsFor(l.target, some) \in SUBSET RowsFor(l.target, rows)
    BY DEF RowsOf, RowsFor
  <2> QED
    BY <2>1, LinksPriced, TotalMonotone
<1>4. Active(l.payment) /\ o > 0 /\ a + f <= p /\ b <= o
  BY DEF Fits
<1>5. l.payment \in Payments /\ l.target \in Obligations
  BY DEF RentRow
<1>6. p \in Nat /\ o \in Nat
  BY <1>4, <1>5, LedgerConstants DEF TypeOK, Facts, Amount
<1> SUFFICES x + f <= p /\ y <= o
  BY <1>4 DEF Fits
<1> HIDE DEF a, b, x, y, f, p, o
<1> QED
  BY <1>2, <1>3, <1>4, <1>6

(***************************************************************************)
(* A set of list positions that is not empty has a last one.               *)
(***************************************************************************)
LEMMA LastNumber ==
    ASSUME NEW n \in Nat, NEW T \in SUBSET (1 .. n), T # {}
    PROVE  \E m \in T : \A k \in T : k <= m
<1> DEFINE U == {n - k : k \in T}
<1>1. U \in SUBSET Nat /\ U # {}
  <2>1. \A k \in T : n - k \in Nat
    OBVIOUS
  <2> QED
    BY <2>1
<1>2. PICK u \in U : \A v \in U : u <= v
  <2> HIDE DEF U
  <2> QED
    BY <1>1, LeastNumber
<1>3. PICK m \in T : u = n - m
  OBVIOUS
<1>4. ASSUME NEW k \in T
      PROVE  k <= m
  <2>1. n - m <= n - k
    BY <1>2, <1>3
  <2>2. k \in 1 .. n /\ m \in 1 .. n
    OBVIOUS
  <2> HIDE DEF U
  <2> QED
    BY <2>1, <2>2
<1> QED
  BY <1>4

(***************************************************************************)
(* The rows before the i-th link of a list, those stored included.         *)
(***************************************************************************)
RowsBefore(links, i) == rentAllocs \cup {links[j] : j \in 1 .. i - 1}

LEMMA RowsBeforeGrow ==
    ASSUME TypeOK, NEW L \in SUBSET RentRow, IsFiniteSet(L), NEW links \in Orders(L)
    PROVE  /\ Cardinality(L) \in Nat /\ DOMAIN links = 1 .. Cardinality(L)
           /\ \A i \in 1 .. Cardinality(L) :
                /\ links[i] \in L
                /\ \A j \in 1 .. Cardinality(L) : links[j] = links[i] => j = i
                /\ RowsBefore(links, i) \cup {links[i]} \in SUBSET (rentAllocs \cup L)
           /\ \A l \in L : \E i \in 1 .. Cardinality(L) : links[i] = l
           /\ rentAllocs \cup L \in SUBSET RentRow /\ IsFiniteSet(rentAllocs \cup L)
<1> DEFINE n == Cardinality(L)
<1>1. n \in Nat
  BY FS_CardinalityType
<1>2. links \in [1 .. n -> L] /\ DOMAIN links = 1 .. n
  BY DEF Orders
<1>3. \A l \in L : \E i \in 1 .. n : \A j \in 1 .. n : links[j] = l <=> j = i
  BY DEF Orders
<1>4. rentAllocs \cup L \in SUBSET RentRow /\ IsFiniteSet(rentAllocs \cup L)
  BY FS_Union DEF TypeOK
<1> HIDE DEF n
<1>5. ASSUME NEW i \in 1 .. n
      PROVE  /\ links[i] \in L
             /\ \A j \in 1 .. n : links[j] = links[i] => j = i
             /\ RowsBefore(links, i) \cup {links[i]} \in SUBSET (rentAllocs \cup L)
  <2>1. links[i] \in L /\ \A j \in 1 .. i - 1 : links[j] \in L
    BY <1>1, <1>2
  <2> QED
    BY <1>3, <2>1 DEF RowsBefore
<1> QED
  BY <1>1, <1>2, <1>3, <1>4, <1>5 DEF n

(***************************************************************************)
(* If the set is accepted, so is each link in its turn.                    *)
(***************************************************************************)
LEMMA SetImpliesLoop ==
    ASSUME TypeOK, NEW L \in SUBSET RentRow, IsFiniteSet(L), NEW links \in Orders(L),
           CanInsert(L)
    PROVE  LoopAccepts(links)
<1> DEFINE n == Cardinality(L)
<1> SUFFICES ASSUME NEW i \in 1 .. n
             PROVE  LinkAccepted(links[i], RowsBefore(links, i))
  <2>1. DOMAIN links = 1 .. n
    BY RowsBeforeGrow
  <2> QED
    BY <2>1 DEF LoopAccepts, RowsBefore
<1> DEFINE l == links[i]
           rows == RowsBefore(links, i)
<1>2. /\ n \in Nat /\ l \in L
      /\ \A j \in 1 .. n : links[j] \in L /\ (links[j] = l => j = i)
      /\ rows \cup {l} \in SUBSET (rentAllocs \cup L)
      /\ rentAllocs \cup L \in SUBSET RentRow /\ IsFiniteSet(rentAllocs \cup L)
  BY RowsBeforeGrow
<1>3. /\ ~HasPair(l, rentAllocs) /\ ~HasPair(l, L \ {l})
      /\ Fits(l, rentAllocs \cup L)
  BY <1>2, InsertFits
<1> HIDE DEF n
<1>4. ~HasPair(l, rows)
  <2>1. \A j \in 1 .. i - 1 : links[j] \in L \ {l}
    BY <1>2
  <2> QED
    BY <1>3, <2>1 DEF HasPair, RowsBefore
<1> HIDE DEF rows, l
<1>5. Fits(l, rows \cup {l})
  BY <1>2, <1>3, FitsInLess
<1>6. rows \in SUBSET RentRow /\ IsFiniteSet(rows)
  BY <1>2, FS_Subset
<1>7. LinkAccepted(l, rows)
  BY <1>2, <1>4, <1>5, <1>6, AcceptedFits
<1> QED
  BY <1>7 DEF rows, l

(***************************************************************************)
(* If each link is accepted in its turn, so is the set: the last link of a *)
(* payment was checked with all of that payment's in the table, and the    *)
(* last one of an obligation with all of that obligation's.                *)
(***************************************************************************)
LEMMA LoopImpliesSet ==
    ASSUME TypeOK, NEW L \in SUBSET RentRow, IsFiniteSet(L), NEW links \in Orders(L),
           LoopAccepts(links)
    PROVE  CanInsert(L)
<1> DEFINE n == Cardinality(L)
<1>1. /\ n \in Nat /\ DOMAIN links = 1 .. n
      /\ \A i \in 1 .. n :
           /\ links[i] \in L
           /\ \A j \in 1 .. n : links[j] = links[i] => j = i
           /\ RowsBefore(links, i) \cup {links[i]} \in SUBSET (rentAllocs \cup L)
      /\ \A l \in L : \E i \in 1 .. n : links[i] = l
      /\ rentAllocs \cup L \in SUBSET RentRow /\ IsFiniteSet(rentAllocs \cup L)
  BY RowsBeforeGrow
<1> HIDE DEF n
<1>2. ASSUME NEW i \in 1 .. n
      PROVE  /\ ~HasPair(links[i], RowsBefore(links, i))
             /\ Fits(links[i], RowsBefore(links, i) \cup {links[i]})
  <2>1. LinkAccepted(links[i], RowsBefore(links, i))
    BY <1>1 DEF LoopAccepts, RowsBefore
  <2>2. /\ RowsBefore(links, i) \in SUBSET RentRow /\ links[i] \in RentRow
        /\ IsFiniteSet(RowsBefore(links, i))
    BY <1>1, FS_Subset
  <2> QED
    BY <2>1, <2>2, AcceptedFits
<1>3. ASSUME NEW l \in L
      PROVE  ~HasPair(l, rentAllocs) /\ ~HasPair(l, L \ {l})
  <2>1. PICK i \in 1 .. n : links[i] = l
    BY <1>1
  <2>2. ~HasPair(l, rentAllocs)
    BY <1>2, <2>1 DEF HasPair, RowsBefore
  <2>3. ASSUME NEW j \in 1 .. n, j # i, HasPair(l, {links[j]})
        PROVE  FALSE
    <3>1. CASE j < i
      <4>1. j \in 1 .. i - 1
        BY <1>1, <3>1
      <4> QED
        BY <1>2, <2>1, <2>3, <4>1 DEF HasPair, RowsBefore
    <3>2. CASE i < j
      <4>1. i \in 1 .. j - 1
        BY <1>1, <3>2
      <4> QED
        BY <1>2, <2>1, <2>3, <4>1 DEF HasPair, RowsBefore
    <3> QED
      BY <1>1, <2>3, <3>1, <3>2
  <2>4. \A s \in L \ {l} : \E j \in 1 .. n : j # i /\ links[j] = s
    BY <1>1, <2>1
  <2> QED
    BY <2>2, <2>3, <2>4 DEF HasPair
<1>4. ASSUME NEW l \in L
      PROVE  Fits(l, rentAllocs \cup L)
  <2>1. PICK i \in 1 .. n : links[i] = l
    BY <1>1
  <2> DEFINE T == {j \in 1 .. n : links[j].payment = l.payment}
             U == {j \in 1 .. n : links[j].target = l.target}
  <2>2. PICK k \in T : \A j \in T : j <= k
    <3>1. T \in SUBSET (1 .. n) /\ T # {}
      BY <2>1
    <3> HIDE DEF T
    <3> QED
      BY <1>1, <3>1, LastNumber
  <2>3. PICK m \in U : \A j \in U : j <= m
    <3>1. U \in SUBSET (1 .. n) /\ U # {}
      BY <2>1
    <3> HIDE DEF U
    <3> QED
      BY <1>1, <3>1, LastNumber
  <2>4. RowsOf(l.payment, rentAllocs \cup L)
          = RowsOf(l.payment, RowsBefore(links, k) \cup {links[k]})
    <3>1. \A j \in 1 .. n : links[j].payment = l.payment => j = k \/ j \in 1 .. k - 1
      BY <1>1, <2>2
    <3>2. \A s \in L : s.payment = l.payment
            => s \in RowsBefore(links, k) \cup {links[k]}
      BY <1>1, <3>1 DEF RowsBefore
    <3>3. rentAllocs \subseteq RowsBefore(links, k)
      BY DEF RowsBefore
    <3>4. RowsBefore(links, k) \cup {links[k]} \in SUBSET (rentAllocs \cup L)
      BY <1>1, <2>2
    <3> QED
      BY <3>2, <3>3, <3>4 DEF RowsOf
  <2>5. RowsFor(l.target, rentAllocs \cup L)
          = RowsFor(l.target, RowsBefore(links, m) \cup {links[m]})
    <3>1. \A j \in 1 .. n : links[j].target = l.target => j = m \/ j \in 1 .. m - 1
      BY <1>1, <2>3
    <3>2. \A s \in L : s.target = l.target
            => s \in RowsBefore(links, m) \cup {links[m]}
      BY <1>1, <3>1 DEF RowsBefore
    <3>3. rentAllocs \subseteq RowsBefore(links, m)
      BY DEF RowsBefore
    <3>4. RowsBefore(links, m) \cup {links[m]} \in SUBSET (rentAllocs \cup L)
      BY <1>1, <2>3
    <3> QED
      BY <3>2, <3>3, <3>4 DEF RowsFor
  <2>6. links[k].payment = l.payment /\ links[m].target = l.target
    OBVIOUS
  <2>7. /\ Fits(links[k], RowsBefore(links, k) \cup {links[k]})
        /\ Fits(links[m], RowsBefore(links, m) \cup {links[m]})
    BY <1>2
  <2> QED
    BY <2>4, <2>5, <2>6, <2>7 DEF Fits
<1> QED
  BY <1>1, <1>3, <1>4, InsertFits

(***************************************************************************)
(* create_many_checked, link after link in any order, accepts a plan of    *)
(* any number of links exactly when CanInsert accepts their set.           *)
(***************************************************************************)
THEOREM PlanLoopDecidesSet == Spec => []PlanLoopAgrees
<1>1. TypeOK => PlanLoopAgrees
  BY SetImpliesLoop, LoopImpliesSet, LedgerConstants DEF PlanLoopAgrees
<1> QED
  BY <1>1, LedgerTypeCorrect, PTL

-----------------------------------------------------------------------------
(* Pairs *)

LEMMA InsertPairs ==
    ASSUME PairsUnique, NEW L, InsertRent(L)
    PROVE  PairsUnique'
<1>1. /\ rentAllocs' = rentAllocs \cup L /\ feeAllocs' = feeAllocs
      /\ \A l \in L : ~HasPair(l, rentAllocs) /\ ~HasPair(l, L \ {l})
  BY DEF InsertRent, CanInsert
<1>2. ASSUME NEW r \in rentAllocs \cup L, NEW q \in rentAllocs \cup L,
             q # r, q.payment = r.payment, q.target = r.target
      PROVE  FALSE
  BY <1>1, <1>2 DEF PairsUnique, HasPair
<1> QED
  BY <1>1, <1>2 DEF PairsUnique, HasPair

LEMMA FewerPairs ==
    ASSUME PairsUnique, rentAllocs' \subseteq rentAllocs, feeAllocs' \subseteq feeAllocs
    PROVE  PairsUnique'
BY DEF PairsUnique, HasPair

LEMMA NextPairs == PairsUnique /\ [Next]_vars => PairsUnique'
<1> SUFFICES ASSUME PairsUnique, [Next]_vars PROVE PairsUnique'
  OBVIOUS
<1>1. CASE UNCHANGED allocVars
  BY <1>1, FewerPairs DEF allocVars
<1>2. ASSUME NEW l \in FeeRow, AddFeeAllocation(l) PROVE PairsUnique'
  <2>1. ASSUME NEW r \in feeAllocs \cup {l}, NEW q \in feeAllocs \cup {l},
               q # r, q.payment = r.payment, q.target = r.target
        PROVE  FALSE
    BY <1>2, <2>1 DEF AddFeeAllocation, PairsUnique, HasPair
  <2> QED
    BY <1>2, <2>1 DEF AddFeeAllocation, PairsUnique, HasPair
<1>3. ASSUME NEW l, RemoveAllocation(l) \/ RemoveFeeAllocation(l) PROVE PairsUnique'
  BY <1>3, FewerPairs DEF RemoveAllocation, RemoveFeeAllocation
<1>4. CASE AllocationNext
  BY <1>2, <1>3, <1>4, InsertPairs DEF AllocationNext, AddAllocation, ApplyPlan
<1>5. ManualNext \/ GmailNext \/ ChargeNext \/ RebuildNext => UNCHANGED allocVars
  BY DEF ManualNext, VoidManual, CreateManual, CorrectManual,
         GmailNext, ProcessEmail, VoidGmail,
         ChargeNext, CreateObligation, VoidFee, AssessFee,
         RebuildNext, RebuildStart, RebuildUpdate, RebuildReject, RebuildAbort, RebuildStop
<1> QED
  BY <1>1, <1>4, <1>5 DEF Next, vars, allocVars

(***************************************************************************)
(* However plans, single allocations and removals interleave, a payment is *)
(* linked to an obligation, or to a late fee, at most once.                *)
(***************************************************************************)
THEOREM NoPairTwice == Spec => []PairsUnique
<1>1. Init => PairsUnique
  BY DEF Init, PairsUnique
<1> QED
  BY <1>1, NextPairs, PTL DEF Spec

-----------------------------------------------------------------------------
(* What a group of commands leaves alone *)

(***************************************************************************)
(* A command on manual payments writes one row of each table it writes.    *)
(***************************************************************************)
LEMMA OneManualRow ==
    ASSUME TypeOK, NEW m \in Manuals,
           \/ VoidManual(m)
           \/ \E facts \in Facts, confirm \in ConfirmFlags :
                CreateManual(m, facts, confirm) \/ CorrectManual(m, facts, confirm)
    PROVE  /\ \A p \in Payments \ {m} : payment'[p] = payment[p]
           /\ \A n \in Manuals \ {m} : /\ evidence'[n] = evidence[n]
                                       /\ revisions'[n] = revisions[n]
           /\ UNCHANGED <<gmailVoids, obligation, feeVars, allocVars, batch>>
<1>0. DOMAIN payment = Payments /\ DOMAIN evidence = Manuals /\ DOMAIN revisions = Manuals
  BY DEF TypeOK
<1>1. CASE VoidManual(m)
  <2> DEFINE row == [payment[m] EXCEPT !.state = "void"]
  <2>1. payment' = [payment EXCEPT ![m] = row]
    BY <1>1 DEF VoidManual
  <2> HIDE DEF row
  <2> QED
    BY <1>0, <1>1, <2>1 DEF VoidManual
<1>2. ASSUME NEW facts \in Facts, NEW confirm, CreateManual(m, facts, confirm)
      PROVE /\ \A p \in Payments \ {m} : payment'[p] = payment[p]
            /\ \A n \in Manuals \ {m} : /\ evidence'[n] = evidence[n]
                                        /\ revisions'[n] = revisions[n]
            /\ UNCHANGED <<gmailVoids, obligation, feeVars, allocVars, batch>>
  BY <1>0, <1>2 DEF CreateManual
<1>3. ASSUME NEW facts \in Facts, NEW confirm, CorrectManual(m, facts, confirm)
      PROVE /\ \A p \in Payments \ {m} : payment'[p] = payment[p]
            /\ \A n \in Manuals \ {m} : /\ evidence'[n] = evidence[n]
                                        /\ revisions'[n] = revisions[n]
            /\ UNCHANGED <<gmailVoids, obligation, feeVars, allocVars, batch>>
  BY <1>0, <1>3 DEF CorrectManual
<1> QED
  BY <1>1, <1>2, <1>3

LEMMA ManualElsewhere ==
    ASSUME TypeOK, ManualNext
    PROVE  \A e \in Emails : payment'[e] = payment[e]
BY OneManualRow, LedgerConstants DEF ManualNext, Payments

-----------------------------------------------------------------------------
(* Rebuilds *)

(***************************************************************************)
(* An event that was rebuilt is as the current parser reads it, so that no *)
(* later rebuild selects it; and what any session has selected was not     *)
(* rebuilt when it was.                                                    *)
(***************************************************************************)
Rebuilt ==
    /\ \A e \in Emails :
         \/ payment[e].parsedAt = 0
         \/ /\ payment[e].parsedAt = 1
            /\ payment[e].facts = ParsedFacts[e] /\ payment[e].version = "current"
    /\ \A s \in Sessions : \A src \in batch[s] : src.parsedAt = 0

LEMMA InitRebuilt == Init => Rebuilt
<1> SUFFICES ASSUME Init PROVE Rebuilt
  OBVIOUS
<1>1. \A e \in Emails : payment[e].parsedAt = 0
  BY DEF Init, NoPayment, Payments
<1> QED
  BY <1>1 DEF Init, Rebuilt

(***************************************************************************)
(* Commands that leave emails as they are, or write one anew.              *)
(***************************************************************************)
LEMMA KeptRebuilt ==
    ASSUME Rebuilt,
           \A s \in Sessions : batch'[s] \subseteq batch[s],
           \A e \in Emails :
             \/ payment'[e].parsedAt = 0
             \/ /\ payment'[e].parsedAt = payment[e].parsedAt
                /\ payment'[e].facts = payment[e].facts
                /\ payment'[e].version = payment[e].version
    PROVE  Rebuilt'
BY DEF Rebuilt

LEMMA NextRebuilt == TypeOK /\ Rebuilt /\ [Next]_vars => Rebuilt'
<1> SUFFICES ASSUME TypeOK, Rebuilt, [Next]_vars PROVE Rebuilt'
  OBVIOUS
<1>0. DOMAIN payment = Payments /\ DOMAIN batch = Sessions
  BY DEF TypeOK
<1>1. CASE ManualNext
  <2>1. \A e \in Emails : payment'[e] = payment[e]
    BY <1>1, ManualElsewhere
  <2>2. batch' = batch
    BY <1>1 DEF ManualNext, VoidManual, CreateManual, CorrectManual
  <2> QED
    BY <2>1, <2>2, KeptRebuilt
<1>2. CASE GmailNext
  <2>1. batch' = batch
    BY <1>2 DEF GmailNext, ProcessEmail, VoidGmail
  <2>2. PICK e \in Emails : ProcessEmail(e) \/ VoidGmail(e)
    BY <1>2 DEF GmailNext
  <2>3. \A x \in Emails : x # e => payment'[x] = payment[x]
    BY <2>2 DEF ProcessEmail, VoidGmail, TypeOK, Payments
  <2>4. payment[e] \in PaymentType
    BY DEF TypeOK, Payments
  <2>5. \/ payment'[e].parsedAt = 0
        \/ /\ payment'[e].parsedAt = payment[e].parsedAt
           /\ payment'[e].facts = payment[e].facts
           /\ payment'[e].version = payment[e].version
    BY <1>0, <2>2, <2>4 DEF ProcessEmail, VoidGmail, Payments, PaymentType
  <2> QED
    BY <2>1, <2>3, <2>5, KeptRebuilt
<1>3. CASE ChargeNext \/ AllocationNext \/ UNCHANGED vars
  <2>1. UNCHANGED <<payment, batch>>
    BY <1>3 DEF ChargeNext, CreateObligation, VoidFee, AssessFee, AllocationNext,
                AddAllocation, ApplyPlan, InsertRent, RemoveAllocation,
                AddFeeAllocation, RemoveFeeAllocation, vars
  <2> QED
    BY <2>1, KeptRebuilt
<1>4. ASSUME NEW s \in Sessions, NEW only \in SUBSET Emails, RebuildStart(s, only)
      PROVE Rebuilt'
  <2>1. \A e \in Emails : NeedsUpdate(e) => payment[e].parsedAt = 0
    BY DEF NeedsUpdate, Rebuilt
  <2>2. \A t \in Sessions : \A src \in batch'[t] : src.parsedAt = 0
    BY <1>0, <1>4, <2>1 DEF RebuildStart, Rebuilt
  <2> QED
    BY <1>4, <2>2 DEF RebuildStart, Rebuilt
<1>5. ASSUME NEW s \in Sessions, NEW src \in batch[s], RebuildUpdate(s, src)
      PROVE Rebuilt'
  <2>1. src.payment \in Emails /\ src.payment \in Payments /\ src.parsedAt = 0
    BY DEF TypeOK, Source, Payments, Rebuilt
  <2>2. /\ payment'[src.payment].parsedAt = 1
        /\ payment'[src.payment].facts = ParsedFacts[src.payment]
        /\ payment'[src.payment].version = "current"
    BY <1>0, <1>5, <2>1 DEF RebuildUpdate
  <2>3. \A e \in Emails : e # src.payment => payment'[e] = payment[e]
    BY <1>0, <1>5 DEF RebuildUpdate, Payments
  <2>4. \A t \in Sessions : batch'[t] \subseteq batch[t]
    BY <1>0, <1>5 DEF RebuildUpdate
  <2> QED
    BY <2>2, <2>3, <2>4 DEF Rebuilt
<1>6. ASSUME NEW s \in Sessions, NEW src,
             RebuildReject(s, src) \/ RebuildAbort(s, src) \/ RebuildStop(s)
      PROVE Rebuilt'
  <2>1. payment' = payment /\ \A t \in Sessions : batch'[t] \subseteq batch[t]
    BY <1>0, <1>6 DEF RebuildReject, RebuildAbort, RebuildStop
  <2> QED
    BY <2>1, KeptRebuilt
<1>7. CASE RebuildNext
  <2>1. Emails \in SUBSET Emails /\ \A e \in Emails : {e} \in SUBSET Emails
    OBVIOUS
  <2> QED
    BY <1>4, <1>5, <1>6, <1>7, <2>1 DEF RebuildNext
<1> QED
  BY <1>1, <1>2, <1>3, <1>7 DEF Next

(***************************************************************************)
(* However many rebuilds overlap, each event is rewritten at most once.    *)
(***************************************************************************)
THEOREM EventRebuiltOnce == Spec => []RebuiltOnce
<1>1. Rebuilt => RebuiltOnce
  BY DEF Rebuilt, RebuiltOnce
<1> QED
  BY <1>1, InitType, NextType, InitRebuilt, NextRebuilt, PTL DEF Spec

-----------------------------------------------------------------------------
(* The audit trail *)

(***************************************************************************)
(* The audit tables hold nothing of a manual payment that is not stored,   *)
(* so the row, when it comes, is explained by its evidence alone.          *)
(***************************************************************************)
NothingBeforeStored ==
    \A m \in Manuals : ~Stored(m) => evidence[m] = Blank /\ revisions[m] = <<>>

Audited == AuditConsistent /\ ManualProjection /\ NothingBeforeStored

LEMMA InitAudited == Init => Audited
<1> SUFFICES ASSUME Init PROVE Audited
  OBVIOUS
<1>1. /\ \A p \in Payments : payment[p].state # "void"
      /\ \A m \in Manuals : payment[m] = NoPayment
  BY LedgerConstants DEF Init, NoPayment, Payments
<1>2. \A m \in Manuals : evidence[m] = Blank /\ revisions[m] = <<>>
  BY DEF Init
<1>3. ManualProjection /\ NothingBeforeStored
  BY <1>1, <1>2 DEF ManualProjection, NothingBeforeStored, LatestFacts, NoPayment
<1>4. /\ \A e \in Emails : payment[e].state = "void" <=> e \in gmailVoids
      /\ \A f \in Fees : fee[f].state = "void" <=> f \in feeVoids
  BY <1>1 DEF Init, Payments
<1>5. \A m \in Manuals : \A i \in 1 .. Len(revisions[m]) : FALSE
  BY <1>2
<1> QED
  BY <1>3, <1>4, <1>5 DEF Audited, AuditConsistent

(***************************************************************************)
(* The part of the audit that is about one manual payment.                 *)
(***************************************************************************)
ManualAudit(m) ==
    /\ \A i \in 1 .. Len(revisions[m]) :
         revisions[m][i].type = "void"
           <=> payment[m].state = "void" /\ i = Len(revisions[m])
    /\ payment[m].facts = LatestFacts(m)
    /\ ~Stored(m) => evidence[m] = Blank /\ revisions[m] = <<>>

LEMMA ManualParts ==
    /\ Audited <=> /\ \A e \in Emails : payment[e].state = "void" <=> e \in gmailVoids
                   /\ \A f \in Fees : fee[f].state = "void" <=> f \in feeVoids
                   /\ \A m \in Manuals : ManualAudit(m)
BY DEF Audited, AuditConsistent, ManualProjection, NothingBeforeStored, ManualAudit

(***************************************************************************)
(* A revision that is appended becomes the last, and the others keep their *)
(* places.                                                                 *)
(***************************************************************************)
LEMMA AppendedRevision ==
    ASSUME NEW seq \in Seq(Revision), NEW rev \in Revision
    PROVE  /\ Len(Append(seq, rev)) = Len(seq) + 1
           /\ Append(seq, rev)[Len(seq) + 1] = rev
           /\ \A i \in 1 .. Len(seq) : Append(seq, rev)[i] = seq[i]
           /\ Append(seq, rev) # <<>>
           /\ Len(seq) \in Nat
OBVIOUS

(***************************************************************************)
(* The rest of the audit does not look at the payment a command wrote.     *)
(***************************************************************************)
LEMMA ManualRest ==
    ASSUME Audited, NEW m \in Manuals, ManualAudit(m)',
           \A p \in Payments \ {m} : payment'[p] = payment[p],
           \A n \in Manuals \ {m} : /\ evidence'[n] = evidence[n]
                                    /\ revisions'[n] = revisions[n],
           UNCHANGED <<gmailVoids, obligation, feeVars, allocVars, batch>>
    PROVE  Audited'
<1>1. \A n \in Manuals \ {m} : ManualAudit(n)'
  BY ManualParts DEF ManualAudit, LatestFacts, Stored, Payments
<1>2. \A e \in Emails : payment'[e] = payment[e]
  BY LedgerConstants DEF Payments
<1> QED
  BY <1>1, <1>2, ManualParts DEF Audited, AuditConsistent, ManualProjection,
     NothingBeforeStored, ManualAudit, feeVars

LEMMA ManualStepAudited ==
    ASSUME TypeOK, Audited, ManualNext
    PROVE  Audited'
<1>1. PICK m \in Manuals :
        \/ VoidManual(m)
        \/ \E facts \in Facts, confirm \in ConfirmFlags :
             CreateManual(m, facts, confirm) \/ CorrectManual(m, facts, confirm)
  BY DEF ManualNext
<1>2. /\ \A p \in Payments \ {m} : payment'[p] = payment[p]
      /\ \A n \in Manuals \ {m} : /\ evidence'[n] = evidence[n]
                                  /\ revisions'[n] = revisions[n]
      /\ UNCHANGED <<gmailVoids, obligation, feeVars, allocVars, batch>>
  BY <1>1, OneManualRow
<1>3. ManualAudit(m)
  BY ManualParts
<1>4. /\ m \in Payments /\ payment[m] \in PaymentType
      /\ revisions[m] \in Seq(Revision) /\ DOMAIN payment = Payments
      /\ DOMAIN evidence = Manuals /\ DOMAIN revisions = Manuals
  BY DEF TypeOK, Payments
<1>5. CASE VoidManual(m)
  <2> DEFINE rev == [type |-> "void", facts |-> payment[m].facts]
             row == [payment[m] EXCEPT !.state = "void"]
  <2>1. payment'[m] = row /\ row.state = "void" /\ row.facts = payment[m].facts
    BY <1>4, <1>5 DEF VoidManual, PaymentType
  <2>2. payment[m].state = "active" /\ payment[m].facts \in Facts
    BY <1>4, <1>5 DEF VoidManual, Active, TypeOK
  <2>3. rev \in Revision /\ rev.type = "void" /\ rev.facts = payment[m].facts
    BY <2>2 DEF Revision
  <2>4. revisions'[m] = Append(revisions[m], rev)
    BY <1>4, <1>5 DEF VoidManual
  <2> HIDE DEF rev, row
  <2>5. ManualAudit(m)'
    BY <1>3, <1>4, <2>1, <2>2, <2>3, <2>4, AppendedRevision
    DEF ManualAudit, LatestFacts, Stored
  <2> QED
    BY <1>2, <2>5, ManualRest
<1>6. ASSUME NEW facts \in Facts, NEW confirm, CreateManual(m, facts, confirm)
      PROVE Audited'
  <2>1. /\ payment'[m].state = "active" /\ payment'[m].facts = facts
        /\ evidence'[m] = facts
        /\ revisions'[m] = <<>>
    BY <1>3, <1>4, <1>6 DEF CreateManual, ManualAudit
  <2>2. ManualAudit(m)'
    BY <2>1 DEF ManualAudit, LatestFacts, Stored
  <2> QED
    BY <1>2, <2>2, ManualRest
<1>7. ASSUME NEW facts \in Facts, NEW confirm, CorrectManual(m, facts, confirm)
      PROVE Audited'
  <2> DEFINE rev == [type |-> "correction", facts |-> facts]
  <2>1. payment'[m].state = "active" /\ payment'[m].facts = facts
    BY <1>4, <1>7 DEF CorrectManual
  <2>2. payment[m].state = "active"
    BY <1>7 DEF CorrectManual, Active
  <2>3. rev \in Revision /\ rev.type = "correction" /\ rev.facts = facts
    BY DEF Revision
  <2>4. revisions'[m] = Append(revisions[m], rev)
    BY <1>4, <1>7 DEF CorrectManual
  <2> HIDE DEF rev
  <2>5. ManualAudit(m)'
    BY <1>3, <1>4, <2>1, <2>2, <2>3, <2>4, AppendedRevision
    DEF ManualAudit, LatestFacts, Stored
  <2> QED
    BY <1>2, <2>5, ManualRest
<1> QED
  BY <1>1, <1>5, <1>6, <1>7

(***************************************************************************)
(* Other commands: an event keeps its state unless it is stored anew or    *)
(* voided together with its audit row, and so does a fee.                  *)
(***************************************************************************)
LEMMA OthersAudited ==
    ASSUME Audited, UNCHANGED manualVars,
           \A m \in Manuals : payment'[m] = payment[m],
           \A e \in Emails : (payment'[e].state = "void" <=> e \in gmailVoids'),
           \A f \in Fees : (fee'[f].state = "void" <=> f \in feeVoids')
    PROVE  Audited'
<1>1. \A m \in Manuals : ManualAudit(m)'
  BY ManualParts DEF ManualAudit, LatestFacts, Stored, manualVars
<1> QED
  BY <1>1 DEF Audited, AuditConsistent, ManualProjection, NothingBeforeStored, ManualAudit

LEMMA GmailStepAudited ==
    ASSUME TypeOK, Audited, GmailNext
    PROVE  Audited'
<1>1. PICK e \in Emails : ProcessEmail(e) \/ VoidGmail(e)
  BY DEF GmailNext
<1>2. UNCHANGED manualVars /\ UNCHANGED feeVars
  BY <1>1 DEF ProcessEmail, VoidGmail
<1>3. \A p \in Payments \ {e} : payment'[p] = payment[p]
  BY <1>1 DEF ProcessEmail, VoidGmail, TypeOK
<1>4. \A m \in Manuals : payment'[m] = payment[m]
  BY <1>3, LedgerConstants DEF Payments
<1>5. \A x \in Emails : (payment[x].state = "void" <=> x \in gmailVoids)
  BY DEF Audited, AuditConsistent
<1>6. e \in Payments /\ payment[e] \in PaymentType /\ DOMAIN payment = Payments
  BY DEF TypeOK, Payments
<1>7. CASE ProcessEmail(e)
  <2>1. payment'[e].state = "active" /\ gmailVoids' = gmailVoids /\ payment[e].state = "none"
    BY <1>6, <1>7 DEF ProcessEmail, Stored
  <2> QED
    BY <1>2, <1>3, <1>4, <1>5, <2>1, OthersAudited
    DEF Audited, AuditConsistent, feeVars, Payments
<1>8. CASE VoidGmail(e)
  <2>1. payment'[e].state = "void" /\ gmailVoids' = gmailVoids \cup {e}
    BY <1>6, <1>8 DEF VoidGmail, PaymentType
  <2> QED
    BY <1>2, <1>3, <1>4, <1>5, <2>1, OthersAudited
    DEF Audited, AuditConsistent, feeVars, Payments
<1> QED
  BY <1>1, <1>7, <1>8

LEMMA ChargeStepAudited ==
    ASSUME TypeOK, Audited, ChargeNext
    PROVE  Audited'
<1>1. UNCHANGED <<payment, manualVars, gmailVoids>>
  BY DEF ChargeNext, CreateObligation, VoidFee, AssessFee
<1>2. \A f \in Fees : (fee[f].state = "void" <=> f \in feeVoids)
  BY DEF Audited, AuditConsistent
<1>3. \A f \in Fees : (fee'[f].state = "void" <=> f \in feeVoids')
  <2>1. CASE \E o \in Obligations, amount \in Amounts : CreateObligation(o, amount)
    BY <1>2, <2>1 DEF CreateObligation, feeVars
  <2>2. ASSUME NEW g \in Fees, VoidFee(g)
        PROVE \A f \in Fees : (fee'[f].state = "void" <=> f \in feeVoids')
    BY <1>2, <2>2 DEF VoidFee, TypeOK, FeeType
  <2>3. ASSUME NEW g \in Fees, NEW o, NEW amount, NEW day, NEW confirm,
               AssessFee(g, o, amount, day, confirm)
        PROVE \A f \in Fees : (fee'[f].state = "void" <=> f \in feeVoids')
    BY <1>2, <2>3 DEF AssessFee, TypeOK
  <2> QED
    BY <2>1, <2>2, <2>3 DEF ChargeNext
<1> QED
  BY <1>1, <1>3, OthersAudited DEF Audited, AuditConsistent

LEMMA RebuildStepAudited ==
    ASSUME TypeOK, Audited, RebuildNext
    PROVE  Audited'
<1>1. UNCHANGED <<manualVars, gmailVoids, feeVars>>
  BY DEF RebuildNext, RebuildStart, RebuildUpdate, RebuildReject, RebuildAbort, RebuildStop
<1>2. CASE UNCHANGED payment
  BY <1>1, <1>2, OthersAudited DEF Audited, AuditConsistent, feeVars
<1>3. ASSUME NEW s \in Sessions, NEW src \in batch[s], RebuildUpdate(s, src)
      PROVE Audited'
  <2>1. src.payment \in Emails
    BY DEF TypeOK, Source
  <2>2. /\ \A p \in Payments : payment'[p].state = payment[p].state
        /\ \A p \in Payments \ {src.payment} : payment'[p] = payment[p]
    BY <1>3 DEF RebuildUpdate, TypeOK
  <2>3. \A m \in Manuals : payment'[m] = payment[m]
    BY <2>1, <2>2, LedgerConstants DEF Payments
  <2> QED
    BY <1>1, <2>2, <2>3, OthersAudited DEF Audited, AuditConsistent, feeVars, Payments
<1> QED
  BY <1>2, <1>3
  DEF RebuildNext, RebuildStart, RebuildReject, RebuildAbort, RebuildStop

LEMMA NextAudited == TypeOK /\ Audited /\ [Next]_vars => Audited'
<1> SUFFICES ASSUME TypeOK, Audited, [Next]_vars PROVE Audited'
  OBVIOUS
<1>1. CASE AllocationNext \/ UNCHANGED vars
  <2>1. UNCHANGED <<payment, manualVars, gmailVoids, feeVars>>
    BY <1>1 DEF AllocationNext, AddAllocation, ApplyPlan, InsertRent, RemoveAllocation,
                AddFeeAllocation, RemoveFeeAllocation, vars, manualVars, feeVars
  <2> QED
    BY <2>1, OthersAudited DEF Audited, AuditConsistent, feeVars
<1> QED
  BY <1>1, ManualStepAudited, GmailStepAudited, ChargeStepAudited, RebuildStepAudited
  DEF Next

LEMMA LedgerAudited == Spec => []Audited
<1> QED
  BY InitType, NextType, InitAudited, NextAudited, PTL DEF Spec

(***************************************************************************)
(* get_history of payments and late fees never meets a state it raises an  *)
(* invariant error for: voids and their audit rows always agree, and a     *)
(* void is the last revision.                                              *)
(***************************************************************************)
THEOREM AuditAlwaysConsistent == Spec => []AuditConsistent
<1>1. Audited => AuditConsistent
  BY DEF Audited
<1> QED
  BY <1>1, LedgerAudited, PTL

(***************************************************************************)
(* A manual payment shows what its audit trail says last.                  *)
(***************************************************************************)
THEOREM ManualIsProjection == Spec => []ManualProjection
<1>1. Audited => ManualProjection
  BY DEF Audited
<1> QED
  BY <1>1, LedgerAudited, PTL

-----------------------------------------------------------------------------
(* The audit trail only grows *)

Appends ==
    /\ \A m \in Manuals :
         /\ evidence[m] # Blank => evidence'[m] = evidence[m]
         /\ Len(revisions'[m]) >= Len(revisions[m])
         /\ \A i \in 1 .. Len(revisions[m]) : revisions'[m][i] = revisions[m][i]
    /\ \A p \in Payments : payment[p].state = "void" => payment'[p].state = "void"
    /\ \A f \in Fees : fee[f].state = "void" => fee'[f] = fee[f]

LEMMA ManualAppends ==
    ASSUME TypeOK, Audited, ManualNext
    PROVE  Appends
<1>1. PICK m \in Manuals :
        \/ VoidManual(m)
        \/ \E facts \in Facts, confirm \in ConfirmFlags :
             CreateManual(m, facts, confirm) \/ CorrectManual(m, facts, confirm)
  BY DEF ManualNext
<1>2. /\ \A p \in Payments \ {m} : payment'[p] = payment[p]
      /\ \A n \in Manuals \ {m} : /\ evidence'[n] = evidence[n]
                                  /\ revisions'[n] = revisions[n]
      /\ fee' = fee
  BY <1>1, OneManualRow DEF feeVars
<1>3. \A n \in Manuals : Len(revisions[n]) \in Nat
  BY DEF TypeOK
<1>4. payment[m].state # "void"
  BY <1>1 DEF VoidManual, CreateManual, CorrectManual, Active, Stored
<1>5. evidence[m] # Blank => evidence'[m] = evidence[m]
  <2>1. CASE evidence' = evidence
    BY <2>1
  <2>2. CASE ~Stored(m)
    BY <2>2 DEF Audited, NothingBeforeStored
  <2> QED
    BY <1>1, <2>1, <2>2 DEF VoidManual, CorrectManual, CreateManual
<1>6. /\ Len(revisions'[m]) >= Len(revisions[m])
      /\ \A i \in 1 .. Len(revisions[m]) : revisions'[m][i] = revisions[m][i]
  <2>1. ASSUME NEW rev \in Revision, revisions' = [revisions EXCEPT ![m] = Append(@, rev)]
        PROVE <1>6!:
    BY <2>1, AppendedRevision DEF TypeOK
  <2>2. CASE revisions' = revisions
    BY <1>3, <2>2
  <2>3. CASE VoidManual(m)
    <3>1. [type |-> "void", facts |-> payment[m].facts] \in Revision
      BY <2>3 DEF VoidManual, TypeOK, Active, Payments, Revision
    <3> QED
      BY <2>1, <2>3, <3>1 DEF VoidManual
  <2>4. ASSUME NEW facts \in Facts, NEW confirm, CorrectManual(m, facts, confirm)
        PROVE <1>6!:
    <3>1. [type |-> "correction", facts |-> facts] \in Revision
      BY DEF Revision
    <3> QED
      BY <2>1, <2>4, <3>1 DEF CorrectManual
  <2> QED
    BY <1>1, <2>2, <2>3, <2>4 DEF CreateManual
<1> QED
  BY <1>2, <1>3, <1>4, <1>5, <1>6 DEF Appends, Payments

LEMMA NextAppends == TypeOK /\ Audited /\ [Next]_vars => Appends
<1> SUFFICES ASSUME TypeOK, Audited, [Next]_vars PROVE Appends
  OBVIOUS
<1>1. ASSUME UNCHANGED manualVars,
             \A p \in Payments : payment[p].state = "void" => payment'[p].state = "void",
             \A f \in Fees : fee[f].state = "void" => fee'[f] = fee[f]
      PROVE Appends
  <2>1. \A m \in Manuals : Len(revisions[m]) \in Nat
    BY DEF TypeOK
  <2> QED
    BY <1>1, <2>1 DEF Appends, manualVars
<1>2. CASE GmailNext
  <2>1. PICK e \in Emails : ProcessEmail(e) \/ VoidGmail(e)
    BY <1>2 DEF GmailNext
  <2>2. /\ \A p \in Payments \ {e} : payment'[p] = payment[p]
        /\ payment[e].state # "void"
    BY <2>1 DEF ProcessEmail, VoidGmail, TypeOK, Active, Stored
  <2> QED
    BY <1>1, <2>1, <2>2 DEF ProcessEmail, VoidGmail, feeVars
<1>3. CASE ChargeNext
  <2>1. \A f \in Fees : fee[f].state = "void" => fee'[f] = fee[f]
    BY <1>3 DEF ChargeNext, CreateObligation, VoidFee, AssessFee, TypeOK, feeVars
  <2> QED
    BY <1>1, <1>3, <2>1 DEF ChargeNext, CreateObligation, VoidFee, AssessFee
<1>4. CASE RebuildNext
  <2>1. \A p \in Payments : payment'[p].state = payment[p].state
    <3>1. ASSUME NEW s \in Sessions, NEW src, RebuildUpdate(s, src)
          PROVE \A p \in Payments : payment'[p].state = payment[p].state
      BY <3>1 DEF RebuildUpdate, TypeOK
    <3> QED
      BY <1>4, <3>1 DEF RebuildNext, RebuildStart, RebuildReject, RebuildAbort, RebuildStop
  <2> QED
    BY <1>1, <1>4, <2>1 DEF RebuildNext, RebuildStart, RebuildUpdate, RebuildReject,
                            RebuildAbort, RebuildStop, feeVars
<1>5. CASE AllocationNext \/ UNCHANGED vars
  BY <1>1, <1>5 DEF AllocationNext, AddAllocation, ApplyPlan, InsertRent, RemoveAllocation,
                    AddFeeAllocation, RemoveFeeAllocation, vars, manualVars, feeVars
<1> QED
  BY <1>2, <1>3, <1>4, <1>5, ManualAppends DEF Next

(***************************************************************************)
(* Evidence is never rewritten, revisions only grow, and nothing voided    *)
(* becomes active again, by any command.                                   *)
(***************************************************************************)
THEOREM AuditOnlyAppended == Spec => AuditAppendOnly
<1>1. TypeOK /\ Audited /\ [Next]_vars
        => [/\ \A m \in Manuals :
                 /\ evidence[m] # Blank => evidence'[m] = evidence[m]
                 /\ Len(revisions'[m]) >= Len(revisions[m])
                 /\ \A i \in 1 .. Len(revisions[m]) : revisions'[m][i] = revisions[m][i]
            /\ \A p \in Payments : payment[p].state = "void" => payment'[p].state = "void"
            /\ \A f \in Fees : fee[f].state = "void" => fee'[f] = fee[f]]_vars
  BY NextAppends DEF Appends
<1> QED
  BY <1>1, LedgerTypeCorrect, LedgerAudited, PTL DEF Spec, AuditAppendOnly

-----------------------------------------------------------------------------
(* Duplicates *)

(***************************************************************************)
(* The parts of NoUnconfirmedDuplicate.                                    *)
(***************************************************************************)
SameManual(m, n) ==
    /\ Active(m) /\ Active(n)
    /\ payment[m].facts.amount = payment[n].facts.amount
    /\ payment[m].facts.key = payment[n].facts.key

Distinct ==
    /\ \A m, n \in Manuals : SameManual(m, n) => m = n
    /\ \A f, g \in Fees : fee[f].state = "active" /\ fee[f] = fee[g] => f = g

LEMMA DistinctIsNoDuplicate ==
    ConfirmFlags = {FALSE} => (NoUnconfirmedDuplicate <=> Distinct)
BY DEF NoUnconfirmedDuplicate, Distinct, SameManual

LEMMA ManualDistinct ==
    ASSUME TypeOK, Distinct, ConfirmFlags = {FALSE}, ManualNext
    PROVE  Distinct'
<1>1. PICK m \in Manuals :
        \/ VoidManual(m)
        \/ \E facts \in Facts, confirm \in ConfirmFlags :
             CreateManual(m, facts, confirm) \/ CorrectManual(m, facts, confirm)
  BY DEF ManualNext
<1>2. /\ \A n \in Manuals \ {m} : payment'[n] = payment[n]
      /\ fee' = fee
  BY <1>1, OneManualRow DEF feeVars, Payments
<1>3. m \in Payments /\ payment[m] \in PaymentType /\ DOMAIN payment = Payments
  BY DEF TypeOK, Payments
<1>4. \A n \in Manuals \ {m} : ~SameManual(m, n)' /\ ~SameManual(n, m)'
  <2>1. CASE VoidManual(m)
    <3>1. payment'[m].state = "void"
      BY <1>3, <2>1 DEF VoidManual, PaymentType
    <3> QED
      BY <3>1 DEF SameManual, Active
  <2>2. ASSUME NEW facts \in Facts, NEW confirm \in ConfirmFlags,
               CreateManual(m, facts, confirm) \/ CorrectManual(m, facts, confirm)
        PROVE <1>4!:
    <3>1. payment'[m].facts = facts /\ Duplicates(m, facts) = {}
      BY <1>3, <2>2 DEF CreateManual, CorrectManual
    <3> QED
      BY <1>2, <3>1 DEF SameManual, Active, Duplicates
  <2> QED
    BY <1>1, <2>1, <2>2
<1>5. \A n, k \in Manuals \ {m} : SameManual(n, k)' => SameManual(n, k)
  BY <1>2 DEF SameManual, Active
<1> QED
  BY <1>2, <1>4, <1>5 DEF Distinct

LEMMA FeesDistinct ==
    ASSUME TypeOK, Distinct, ConfirmFlags = {FALSE}, ChargeNext
    PROVE  Distinct'
<1>1. payment' = payment
  BY DEF ChargeNext, CreateObligation, VoidFee, AssessFee
<1>2. \A f, g \in Fees : fee'[f].state = "active" /\ fee'[f] = fee'[g] => f = g
  <2>1. CASE fee' = fee
    BY <2>1 DEF Distinct
  <2>2. ASSUME NEW h \in Fees, VoidFee(h) PROVE <1>2!:
    <3>1. fee'[h].state = "void" /\ \A f \in Fees \ {h} : fee'[f] = fee[f]
      BY <2>2 DEF VoidFee, TypeOK, FeeType
    <3> QED
      BY <3>1 DEF Distinct
  <2>3. ASSUME NEW h \in Fees, NEW o, NEW amount, NEW day, NEW confirm \in ConfirmFlags,
               AssessFee(h, o, amount, day, confirm)
        PROVE <1>2!:
    <3>1. /\ \A f \in Fees \ {h} : fee'[f] = fee[f]
          /\ \A f \in Fees : fee[f] # fee'[h]
      BY <2>3 DEF AssessFee, TypeOK
    <3> QED
      BY <3>1 DEF Distinct
  <2> QED
    BY <2>1, <2>2, <2>3 DEF ChargeNext, CreateObligation, feeVars
<1> QED
  BY <1>1, <1>2 DEF Distinct, SameManual, Active

LEMMA NextDistinct ==
    TypeOK /\ Distinct /\ ConfirmFlags = {FALSE} /\ [Next]_vars => Distinct'
<1> SUFFICES ASSUME TypeOK, Distinct, ConfirmFlags = {FALSE}, [Next]_vars PROVE Distinct'
  OBVIOUS
<1>1. ASSUME fee' = fee, \A m \in Manuals : payment'[m] = payment[m] PROVE Distinct'
  BY <1>1 DEF Distinct, SameManual, Active
<1>2. CASE GmailNext
  <2>1. PICK e \in Emails : ProcessEmail(e) \/ VoidGmail(e)
    BY <1>2 DEF GmailNext
  <2>2. \A p \in Payments \ {e} : payment'[p] = payment[p]
    BY <2>1 DEF ProcessEmail, VoidGmail, TypeOK
  <2> QED
    BY <1>1, <2>1, <2>2, LedgerConstants DEF ProcessEmail, VoidGmail, feeVars, Payments
<1>3. CASE RebuildNext
  <2>1. CASE UNCHANGED <<payment, fee>>
    BY <1>1, <2>1
  <2>2. ASSUME NEW s \in Sessions, NEW src \in batch[s], RebuildUpdate(s, src)
        PROVE Distinct'
    <3>1. src.payment \in Emails
      BY DEF TypeOK, Source
    <3>2. \A p \in Payments \ {src.payment} : payment'[p] = payment[p]
      BY <2>2 DEF RebuildUpdate, TypeOK
    <3> QED
      BY <1>1, <2>2, <3>1, <3>2, LedgerConstants DEF RebuildUpdate, feeVars, Payments
  <2> QED
    BY <1>3, <2>1, <2>2 DEF RebuildNext, RebuildStart, RebuildReject, RebuildAbort,
                            RebuildStop, feeVars
<1>4. CASE AllocationNext \/ UNCHANGED vars
  BY <1>1, <1>4 DEF AllocationNext, AddAllocation, ApplyPlan, InsertRent, RemoveAllocation,
                    AddFeeAllocation, RemoveFeeAllocation, vars, feeVars
<1> QED
  BY <1>2, <1>3, <1>4, ManualDistinct, FeesDistinct DEF Next

(***************************************************************************)
(* Without --confirm-duplicate no two active manual payments, and no two   *)
(* active late fees, are the same, through any corrections and voids.      *)
(***************************************************************************)
THEOREM DuplicatesStayOut == Spec => []NoUnconfirmedDuplicate
<1>1. CASE ConfirmFlags = {FALSE}
  <2>1. Init => Distinct
    BY LedgerConstants DEF Init, Distinct, SameManual, Active, NoPayment, Payments
  <2>2. TypeOK /\ Distinct /\ [Next]_vars => Distinct'
    BY <1>1, NextDistinct
  <2>3. Distinct => NoUnconfirmedDuplicate
    BY <1>1, DistinctIsNoDuplicate
  <2> QED
    BY <2>1, <2>2, <2>3, InitType, NextType, PTL DEF Spec
<1>2. CASE ConfirmFlags # {FALSE}
  <2>1. NoUnconfirmedDuplicate
    BY <1>2 DEF NoUnconfirmedDuplicate
  <2> QED
    BY <2>1, PTL
<1> QED
  BY <1>1, <1>2
=============================================================================
