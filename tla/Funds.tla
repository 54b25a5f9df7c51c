-------------------------------- MODULE Funds -------------------------------
(***************************************************************************)
(* What the ledger promises about money, without tables, audit rows,       *)
(* parsers or rebuilds: sources of money (payments) and uses of it (rent   *)
(* and late-fee charges) are opened with a limit and closed for good, and  *)
(* money is moved from open sources to open uses, and back, within both    *)
(* limits.  Nothing else ever moves money.                                 *)
(***************************************************************************)
EXTENDS Money

CONSTANTS
    Sources,       \* payments
    Uses,          \* charges
    Limits         \* amounts a source or use may be opened with

VARIABLES
    supply,        \* state and limit of each source
    demand,        \* state and limit of each use
    moved          \* rows of money moved: payment, target and amount

vars == <<supply, demand, moved>>

Unopened  == [state |-> "new", limit |-> 0]
Open(n)   == [state |-> "open", limit |-> n]
Closed    == [state |-> "closed", limit |-> 0]

Taken(p, R) == Total({r \in R : r.payment = p})
Given(t, R) == Total({r \in R : r.target = t})

Within(R) ==
    /\ \A p \in Sources : Taken(p, R) <= supply[p].limit
    /\ \A t \in Uses : Given(t, R) <= demand[t].limit

SamePair(r, s) == r.payment = s.payment /\ r.target = s.target

Init ==
    /\ \E open \in SUBSET Sources, size \in [Sources -> Limits] :
         supply = [p \in Sources |-> IF p \in open THEN Open(size[p]) ELSE Unopened]
    /\ demand = [t \in Uses |-> Unopened]
    /\ moved = {}

(***************************************************************************)
(* A source is opened, or an open one is given another limit, which must   *)
(* cover what was taken from it.                                           *)
(***************************************************************************)
SetSupply(p, n) ==
    /\ supply[p].state # "closed"
    /\ Taken(p, moved) <= n
    /\ supply' = [supply EXCEPT ![p] = Open(n)]
    /\ UNCHANGED <<demand, moved>>

(***************************************************************************)
(* A use is opened once and keeps its limit.                               *)
(***************************************************************************)
OpenDemand(t, n) ==
    /\ demand[t].state = "new"
    /\ demand' = [demand EXCEPT ![t] = Open(n)]
    /\ UNCHANGED <<supply, moved>>

CloseSupply(p) ==
    /\ supply[p].state = "open"
    /\ \A r \in moved : r.payment # p
    /\ supply' = [supply EXCEPT ![p] = Closed]
    /\ UNCHANGED <<demand, moved>>

CloseDemand(t) ==
    /\ demand[t].state = "open"
    /\ \A r \in moved : r.target # t
    /\ demand' = [demand EXCEPT ![t] = Closed]
    /\ UNCHANGED <<supply, moved>>

(***************************************************************************)
(* Any number of rows at once, all of them or none.                        *)
(***************************************************************************)
Move ==
    /\ moved \subseteq moved' /\ moved' # moved
    /\ \A r \in moved' \ moved :
         /\ r.payment \in Sources /\ supply[r.payment].state = "open"
         /\ r.target \in Uses /\ demand[r.target].state = "open"
         /\ \A s \in moved' \ {r} : ~SamePair(r, s)
    /\ Within(moved')
    /\ UNCHANGED <<supply, demand>>

Return ==
    /\ moved' \subseteq moved /\ moved' # moved
    /\ UNCHANGED <<supply, demand>>

Next ==
    \/ \E p \in Sources : CloseSupply(p) \/ \E n \in Limits : SetSupply(p, n)
    \/ \E t \in Uses : CloseDemand(t) \/ \E n \in Limits : OpenDemand(t, n)
    \/ Move
    \/ Return

Spec == Init /\ [][Next]_vars
=============================================================================
