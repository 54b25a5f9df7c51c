----------------------------- MODULE MCMatching -----------------------------
(***************************************************************************)
(* Instances of Matching for TLC: two Gmail payments of one payer, two     *)
(* obligations.                                                            *)
(***************************************************************************)
EXTENDS MonthClose

CONSTANTS e1, e2, o1, o2, c1, c2, n1, n2, k0, k1, k2

(* The earlier parser read no date in e2, and the sender's other name.     *)
MCLegacyFacts ==
    [e \in Emails |-> IF e = e1 THEN [amount |-> 2, key |-> k1, text |-> "x"]
                                ELSE [amount |-> 1, key |-> k0, text |-> "x"]]
MCParsedFacts ==
    [e \in Emails |-> [amount |-> IF e = e1 THEN 2 ELSE 1,
                       key |-> IF e = e1 THEN k1 ELSE k2, text |-> "x"]]
MCSenderOf == [k \in Keys |-> IF k = k0 THEN n2 ELSE n1]
MCPaidOn   == [k \in Keys |-> IF k = k0 THEN 0 ELSE IF k = k1 THEN 2 ELSE 1]

MCPaymentId    == [p \in Payments |-> IF p = e1 THEN 1 ELSE 2]
MCObligationId == [o \in Obligations |-> IF o = o1 THEN 1 ELSE 2]

(* Two months of one account, entered in reverse; one month of two.         *)
Reversed == [o \in Obligations |->
               IF o = o1 THEN [account |-> c1, period |-> 2, due |-> 2]
                         ELSE [account |-> c1, period |-> 1, due |-> 1]]
TwoAccounts == [o \in Obligations |->
               [account |-> IF o = o1 THEN c1 ELSE c2, period |-> 1, due |-> 1]]
MCTerms    == {Reversed, TwoAccounts}
OneAccount == {Reversed}

MCRanges  == {[from |-> 1, to |-> 2], [from |-> 2, to |-> 2]}
FullRange == {[from |-> 1, to |-> 2]}
NoPlans == {}

(* Recurring rent of both accounts in the first month.  None in the second: *)
(* it can be CLEAR without a payment.                                       *)
MCExpected == {[account |-> c1, period |-> 1], [account |-> c2, period |-> 1]}
NoneExpected == {}
=============================================================================
