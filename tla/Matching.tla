------------------------------ MODULE Matching ------------------------------
(***************************************************************************)
(* From payments to allocations: who a payment is from (aliases), which    *)
(* rent accounts that payer pays for, the suggestions derived from both,   *)
(* and the allocation plan, which is built from five reads and applied in  *)
(* one transaction.                                                        *)
(*                                                                         *)
(* The plan command holds no lock while it reads.  Each read is a          *)
(* connection of its own, so other commands may commit between any two of  *)
(* them and before the plan is applied: a planner is a process that keeps  *)
(* what it has read so far.  Applying checks again what an allocation must *)
(* fit in, and nothing else of what was read.                              *)
(***************************************************************************)
EXTENDS Ledger
LOCAL INSTANCE Integers

CONSTANTS
    Senders,       \* normalized sender names
    Payers,        \* ids of payers
    Accounts,      \* ids of rent accounts
    SenderOf,      \* the sender in each duplicate key
    PaidOn,        \* the date in each duplicate key, 0 if it is NULL
    PaymentId,     \* the order of payment ids
    ObligationId,  \* the order of obligation ids
    Terms,         \* columns the obligation rows may have: account, period, due
    Ranges,        \* the periods a plan may be asked for: from, to
    Planners,      \* plan commands that may overlap
    MaxMeanwhile   \* bound on the commands that commit while a plan is made

VARIABLES
    alias,   \* payer_aliases: the payer of each sender
    member,  \* rent_account_payers
    terms,   \* account_id, period and due_date of rent_obligations
    plan     \* each plan command: its range, what it has read, a counter

identityVars == <<alias, member, terms>>
matchingVars == <<vars, identityVars, plan>>

Term == [account : Accounts, period : Nat, due : Nat]
PeriodRange == [from : Nat, to : Nat]

ASSUME MatchingConstants ==
    /\ IsFiniteSet(Payments) /\ IsFiniteSet(Obligations)
    /\ SenderOf \in [Keys -> Senders] /\ PaidOn \in [Keys -> Nat]
    /\ PaymentId \in [Payments -> Nat] /\ ObligationId \in [Obligations -> Nat]
    /\ \A p, q \in Payments : PaymentId[p] = PaymentId[q] => p = q
    /\ \A o, x \in Obligations : ObligationId[o] = ObligationId[x] => o = x
    /\ Terms \subseteq [Obligations -> Term]
    /\ \A t \in Terms : \A o, x \in Obligations :
         t[o].account = t[x].account /\ t[o].period = t[x].period => o = x
    /\ Ranges \subseteq PeriodRange
    /\ \A R \in Ranges : R.from <= R.to
    /\ "none" \notin Payers
    /\ MaxMeanwhile \in Nat

-----------------------------------------------------------------------------
(* The five reads of the planner *)

Outstanding(o) == obligation[o] - Total(RowsFor(o, rentAllocs))

MoneyLeft(p) == Amount(p) - Combined(p)

(***************************************************************************)
(* Mutant of PaymentSources: late fees taken from the payment are          *)
(* forgotten.                                                              *)
(***************************************************************************)
PaymentSourcesRentOnly ==
    [p \in {q \in Payments : Active(q)} |->
       [left |-> Amount(p) - Total(RowsOf(p, rentAllocs)),
        key |-> payment[p].facts.key]]

(***************************************************************************)
(* list_payment_sources and list_obligation_sources of a range.            *)
(***************************************************************************)
PaymentSources ==
    [p \in {q \in Payments : Active(q)} |->
       [left |-> MoneyLeft(p), key |-> payment[p].facts.key]]

ObligationSources(R) ==
    [o \in {x \in Obligations : /\ obligation[x] > 0
                                /\ R.from <= terms[x].period
                                /\ terms[x].period <= R.to} |-> Outstanding(o)]

ExistingPairs == {<<r.payment, r.target>> : r \in rentAllocs}

(***************************************************************************)
(* In the order in which build_allocation_plan asks for them.              *)
(***************************************************************************)
Reads(R) ==
    <<PaymentSources, ObligationSources(R), alias, member, ExistingPairs>>

-----------------------------------------------------------------------------
(* build_allocation_plan, as a function of what was read *)

(***************************************************************************)
(* The accounts a payer is associated with that have an obligation in      *)
(* range, paid or not.                                                     *)
(***************************************************************************)
RelevantAccounts(p, got) ==
    {c \in Accounts : /\ <<c, got[3][SenderOf[got[1][p].key]]>> \in got[4]
                      /\ \E o \in DOMAIN got[2] : terms[o].account = c}

(***************************************************************************)
(* A payment with money left that raises no issue of its own: its sender   *)
(* is known, exactly one account is relevant, and it has a date.           *)
(***************************************************************************)
Unspent(got) == {p \in DOMAIN got[1] : got[1][p].left # 0}

Eligible(p, got) ==
    /\ got[1][p].left > 0
    /\ got[3][SenderOf[got[1][p].key]] # "none"
    /\ Cardinality(RelevantAccounts(p, got)) = 1
    /\ PaidOn[got[1][p].key] # 0

(***************************************************************************)
(* Lexicographic order of tuples of numbers of one length.                 *)
(***************************************************************************)
Precedes(s, t) ==
    \E i \in DOMAIN s : s[i] < t[i] /\ \A j \in 1 .. i - 1 : s[j] = t[j]

(***************************************************************************)
(* Mutant of Turn: obligations are filled in the order of their ids.       *)
(***************************************************************************)
TurnById(c, got) ==
    <<PaidOn[got[1][c[1]].key], PaymentId[c[1]], ObligationId[c[2]]>>

(***************************************************************************)
(* When a payment's turn at an obligation comes: payments by date and id,  *)
(* and for each of them the obligations by due date and id.                *)
(***************************************************************************)
Turn(c, got) ==
    <<PaidOn[got[1][c[1]].key], PaymentId[c[1]],
      terms[c[2]].due, ObligationId[c[2]]>>

Turns(got) ==
    LET cs == {c \in {p \in Unspent(got) : Eligible(p, got)} \X DOMAIN got[2] :
                 terms[c[2]].account \in RelevantAccounts(c[1], got)}
        Before(c) == {d \in cs : Precedes(Turn(d, got), Turn(c, got))}
    IN  [i \in 1 .. Cardinality(cs) |->
           CHOOSE c \in cs : Cardinality(Before(c)) = i - 1]

(***************************************************************************)
(* Mutant of Pass: obligations without room are not passed over, so that a *)
(* link of no money is planned.                                            *)
(***************************************************************************)
PassEmpty(got, s, c) ==
    LET amount == IF s.left[c[1]] < s.room[c[2]] THEN s.left[c[1]] ELSE s.room[c[2]]
    IN  IF s.left[c[1]] = 0 \/ c \in got[5]
        THEN s
        ELSE [s EXCEPT !.left[c[1]] = @ - amount,
                       !.room[c[2]] = @ - amount,
                       !.links = @ \cup {[payment |-> c[1], target |-> c[2],
                                          amount |-> amount]}]

(***************************************************************************)
(* One pass of the loop of _build_account_plan: as much of the payment as  *)
(* fits goes to the obligation; a pair that is allocated already blocks    *)
(* the rest of the payment.                                                *)
(***************************************************************************)
Pass(got, s, c) ==
    LET amount == IF s.left[c[1]] < s.room[c[2]] THEN s.left[c[1]] ELSE s.room[c[2]]
    IN  IF s.left[c[1]] = 0 \/ s.room[c[2]] <= 0 \/ c[1] \in s.blocked
        THEN s
        ELSE IF c \in got[5]
        THEN [s EXCEPT !.blocked = @ \cup {c[1]}]
        ELSE [s EXCEPT !.left[c[1]] = @ - amount,
                       !.room[c[2]] = @ - amount,
                       !.links = @ \cup {[payment |-> c[1], target |-> c[2],
                                          amount |-> amount]}]

(***************************************************************************)
(* What the loop has planned before the first and after each pass.         *)
(***************************************************************************)
Passes(got) ==
    LET turns == Turns(got)
        after[i \in 0 .. Len(turns)] ==
          IF i = 0
          THEN [left |-> [p \in DOMAIN got[1] |-> got[1][p].left],
                room |-> got[2], blocked |-> {}, links |-> {}]
          ELSE Pass(got, after[i - 1], turns[i])
    IN  after

Fill(got) == Passes(got)[Len(Turns(got))]

Links(got) == Fill(got).links

(***************************************************************************)
(* AllocationPlan.actionable: no payment and no account raises an issue.   *)
(***************************************************************************)
Actionable(got) ==
    /\ \A p \in Unspent(got) : Eligible(p, got) /\ Fill(got).left[p] = 0
    /\ \A o \in DOMAIN got[2] : got[2][o] >= 0

-----------------------------------------------------------------------------
(* allocation suggest *)

(***************************************************************************)
(* Mutants of Suggestions: the payment's money without what the obligation *)
(* has room for, and the first of several outstanding obligations.         *)
(***************************************************************************)
SuggestionsUncapped(p) ==
    {[payment |-> p, target |-> o, amount |-> MoneyLeft(p)] :
       o \in {x \in Obligations :
                /\ Active(p) /\ MoneyLeft(p) > 0
                /\ {c \in Accounts : <<c, alias[SenderOf[payment[p].facts.key]]>>
                                       \in member} = {terms[x].account}
                /\ {y \in Obligations : /\ terms[y].account = terms[x].account
                                        /\ Outstanding(y) > 0} = {x}}}

SuggestionsFirst(p) ==
    {[payment |-> p, target |-> o,
      amount |-> IF MoneyLeft(p) < Outstanding(o) THEN MoneyLeft(p)
                                                  ELSE Outstanding(o)] :
       o \in {x \in Obligations :
                /\ Active(p) /\ MoneyLeft(p) > 0 /\ Outstanding(x) > 0
                /\ {c \in Accounts : <<c, alias[SenderOf[payment[p].facts.key]]>>
                                       \in member} = {terms[x].account}
                /\ \A y \in Obligations :
                     /\ terms[y].account = terms[x].account
                     /\ Outstanding(y) > 0
                     => ObligationId[x] <= ObligationId[y]}}

(***************************************************************************)
(* The suggestion for a payment, if there is one: its payer is associated  *)
(* with one account only, and that account has one obligation with money   *)
(* outstanding, of whatever period.                                        *)
(***************************************************************************)
Suggestions(p) ==
    {[payment |-> p, target |-> o,
      amount |-> IF MoneyLeft(p) < Outstanding(o) THEN MoneyLeft(p)
                                                  ELSE Outstanding(o)] :
       o \in {x \in Obligations :
                /\ Active(p) /\ MoneyLeft(p) > 0
                /\ {c \in Accounts : <<c, alias[SenderOf[payment[p].facts.key]]>>
                                       \in member} = {terms[x].account}
                /\ {y \in Obligations : /\ terms[y].account = terms[x].account
                                        /\ Outstanding(y) > 0} = {x}}}

-----------------------------------------------------------------------------
(* Identity commands.  Payers and accounts are never deleted. *)

AddAlias(n, y) ==
    /\ alias[n] = "none"
    /\ alias' = [alias EXCEPT ![n] = y]
    /\ UNCHANGED <<vars, member, terms>>

RemoveAlias(n, y) ==
    /\ alias[n] = y
    /\ alias' = [alias EXCEPT ![n] = "none"]
    /\ UNCHANGED <<vars, member, terms>>

AddPayer(c, y) ==
    /\ <<c, y>> \notin member
    /\ member' = member \cup {<<c, y>>}
    /\ UNCHANGED <<vars, alias, terms>>

RemovePayer(c, y) ==
    /\ <<c, y>> \in member
    /\ member' = member \ {<<c, y>>}
    /\ UNCHANGED <<vars, alias, terms>>

-----------------------------------------------------------------------------
(* allocation plan *)

Idle    == [range |-> "none", got |-> <<>>, meanwhile |-> 0]
Busy(a) == plan[a].got # <<>>

(***************************************************************************)
(* A command of anybody else commits, also while plans are being made.     *)
(***************************************************************************)
Commit ==
    /\ \/ Next /\ UNCHANGED identityVars
       \/ \E n \in Senders, y \in Payers : AddAlias(n, y) \/ RemoveAlias(n, y)
       \/ \E c \in Accounts, y \in Payers : AddPayer(c, y) \/ RemovePayer(c, y)
    /\ \A a \in Planners : plan[a].meanwhile < MaxMeanwhile
    /\ plan' = [a \in Planners |->
                  IF Busy(a) THEN [plan[a] EXCEPT !.meanwhile = @ + 1]
                             ELSE plan[a]]

PlanStart(a, R) ==
    /\ ~Busy(a)
    /\ plan' = [plan EXCEPT ![a] = [range |-> R, got |-> <<Reads(R)[1]>>,
                                    meanwhile |-> 0]]
    /\ UNCHANGED <<vars, identityVars>>

PlanRead(a) ==
    /\ Busy(a) /\ Len(plan[a].got) < 5
    /\ plan' = [plan EXCEPT ![a].got =
                  Append(@, Reads(plan[a].range)[Len(@) + 1])]
    /\ UNCHANGED <<vars, identityVars>>

(***************************************************************************)
(* Mutant of PlanApply: links that no longer fit are left out.             *)
(***************************************************************************)
PlanApplyPartly(a) ==
    /\ Len(plan[a].got) = 5
    /\ Actionable(plan[a].got)
    /\ InsertRent({l \in Links(plan[a].got) : CanInsert({l})})
    /\ plan' = [plan EXCEPT ![a] = Idle]
    /\ UNCHANGED identityVars

(***************************************************************************)
(* apply_allocation_plan of an actionable plan: create_many_checked.       *)
(***************************************************************************)
PlanApply(a) ==
    /\ Len(plan[a].got) = 5
    /\ Actionable(plan[a].got)
    /\ InsertRent(Links(plan[a].got))
    /\ plan' = [plan EXCEPT ![a] = Idle]
    /\ UNCHANGED identityVars

(***************************************************************************)
(* The plan is only shown, it is not actionable, or a link no longer fits. *)
(***************************************************************************)
PlanEnd(a) ==
    /\ Len(plan[a].got) = 5
    /\ plan' = [plan EXCEPT ![a] = Idle]
    /\ UNCHANGED <<vars, identityVars>>

MatchingInit ==
    /\ Init
    /\ alias = [n \in Senders |-> "none"]
    /\ member = {}
    /\ terms \in Terms
    /\ plan = [a \in Planners |-> Idle]

MatchingNext ==
    \/ Commit
    \/ \E a \in Planners : \/ \E R \in Ranges : PlanStart(a, R)
                           \/ PlanRead(a) \/ PlanApply(a) \/ PlanEnd(a)

MatchingSpec == MatchingInit /\ [][MatchingNext]_matchingVars

-----------------------------------------------------------------------------
(* Properties *)

(***************************************************************************)
(* Every alias names a payer, and plans hold at most the five reads.       *)
(***************************************************************************)
MatchingTypeOK ==
    /\ TypeOK
    /\ alias \in [Senders -> Payers \cup {"none"}]
    /\ member \subseteq Accounts \X Payers
    /\ terms \in Terms
    /\ \A a \in Planners : Busy(a) => /\ plan[a].range \in Ranges
                                        /\ Len(plan[a].got) <= 5

(***************************************************************************)
(* A plan built of the state as it is passes the checks that apply it: the *)
(* planner's arithmetic, across payments that share an obligation and with *)
(* late fees taken from the same payment, agrees with the allocation       *)
(* command's.                                                              *)
(***************************************************************************)
FreshPlanAccepted ==
    \A R \in Ranges : Actionable(Reads(R)) => CanInsert(Links(Reads(R)))

(***************************************************************************)
(* An actionable plan leaves no payment unspent, and pays the oldest       *)
(* debts first: no obligation receives money while one of the same account *)
(* that is due earlier in the range stays short of its amount.             *)
(***************************************************************************)
FreshPlanSettles ==
    \A R \in Ranges : Actionable(Reads(R)) =>
      LET links == Links(Reads(R))
          Short(o) == Total(RowsFor(o, links)) < Outstanding(o)
      IN  /\ \A p \in Payments : Active(p) =>
               Total(RowsOf(p, links)) = MoneyLeft(p)
          /\ \A l \in links, o \in DOMAIN ObligationSources(R) :
               /\ terms[o].account = terms[l.target].account
               /\ terms[o].due < terms[l.target].due
               => ~Short(o)

(***************************************************************************)
(* A suggestion fits in the payment and in the obligation, so the owner    *)
(* can follow it unless the payment is linked to that obligation already.  *)
(***************************************************************************)
SuggestionFits ==
    \A p \in Payments : \A l \in Suggestions(p) :
      CanInsert({l}) \/ HasPair(l, rentAllocs)

(***************************************************************************)
(* Suggestions and the plan of all periods do not contradict each other:   *)
(* an actionable plan contains every suggested link as it is suggested.    *)
(***************************************************************************)
SuggestionAgrees ==
    \A R \in Ranges :
      /\ Actionable(Reads(R))
      /\ \A o \in Obligations : R.from <= terms[o].period /\ terms[o].period <= R.to
      => \A p \in Payments : Suggestions(p) \subseteq Links(Reads(R))

(***************************************************************************)
(* A plan that passes the checks is the plan of the state it is applied    *)
(* to, whatever was allocated while it was made, unless a row it reads was *)
(* added or changed, or money it counts came free again: capacity is all   *)
(* that applying checks, and that is enough.                               *)
(***************************************************************************)
NothingCameFree(got, now) ==
    /\ DOMAIN got[1] = DOMAIN now[1]
    /\ \A p \in DOMAIN got[1] : /\ now[1][p].key = got[1][p].key
                                /\ now[1][p].left <= got[1][p].left
    /\ DOMAIN got[2] = DOMAIN now[2]
    /\ \A o \in DOMAIN got[2] : now[2][o] <= got[2][o]
    /\ <<got[3], got[4]>> = <<now[3], now[4]>>

AppliedPlanIsCurrent ==
    [][ \A a \in Planners :
          /\ Busy(a) /\ plan'[a].got = <<>> /\ rentAllocs' # rentAllocs
          /\ NothingCameFree(plan[a].got, Reads(plan[a].range))
          => /\ rentAllocs' = rentAllocs \cup Links(Reads(plan[a].range))
             /\ Actionable(Reads(plan[a].range))
      ]_matchingVars

=============================================================================
