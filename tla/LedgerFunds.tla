----------------------------- MODULE LedgerFunds ----------------------------
(***************************************************************************)
(* The ledger implements Funds: a payment is a source, an obligation or a  *)
(* late fee a use, and the two allocation tables are the money moved.  A   *)
(* rebuild of an active payment sets its limit; a rebuild of a voided one, *)
(* snapshots, revisions and audit rows are steps that change nothing.      *)
(***************************************************************************)
EXTENDS Ledger

ASSUME ChargeIds == Obligations \cap Fees = {}

Opened(n)  == [state |-> "open", limit |-> n]
Unopened   == [state |-> "new", limit |-> 0]
ClosedDown == [state |-> "closed", limit |-> 0]

SupplyOf(row) ==
    CASE row.state = "none"   -> Unopened
      [] row.state = "active" -> Opened(row.facts.amount)
      [] OTHER                -> ClosedDown

RentDemand(amount) == IF amount = 0 THEN Unopened ELSE Opened(amount)

FeeDemand(row) ==
    CASE row.state = "none"   -> Unopened
      [] row.state = "active" -> Opened(row.amount)
      [] OTHER                -> ClosedDown

Supply == [p \in Payments |-> SupplyOf(payment[p])]
Demand == [t \in Obligations \cup Fees |->
             IF t \in Obligations THEN RentDemand(obligation[t]) ELSE FeeDemand(fee[t])]
Moved == rentAllocs \cup feeAllocs

F == INSTANCE Funds WITH
       Sources <- Payments, Uses <- Obligations \cup Fees, Limits <- 0 .. MaxAmount,
       supply <- Supply, demand <- Demand, moved <- Moved

(***************************************************************************)
(* Every write of the ledger is one movement of money, one opening or      *)
(* closing, or nothing at all as far as money goes.                        *)
(***************************************************************************)
ImplementsFunds == F!Spec
=============================================================================
