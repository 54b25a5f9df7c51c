--------------------------- MODULE TenancyProofs ---------------------------
(***************************************************************************)
(* Proofs about Tenancy for any calendar, any number of accounts,          *)
(* schedules and overlapping obligation commands, and any rents.           *)
(***************************************************************************)
EXTENDS TenancyUse, FiniteSetTheorems, TLAPS

(***************************************************************************)
(* What the tables refer to exists: the account of a schedule, the account *)
(* and month of a checked obligation; and only an account that exists has  *)
(* been charged.                                                           *)
(***************************************************************************)
ScheduleReferences == \A s \in Schedules : Exists(s) => schedule[s].account \in Accounts

DraftReferences ==
    \A c \in Sessions : draft[c] # NoDraft =>
      /\ draft[c].account \in Accounts
      /\ account[draft[c].account].open
      /\ draft[c].period \in Periods
      /\ draft[c].amount \in Amounts

ChargedExist == \A a \in Accounts, m \in Periods : rent[a][m] # 0 => account[a].open

Inv ==
    /\ TypeOK
    /\ ScheduleReferences
    /\ DraftReferences
    /\ ChargedExist
    /\ SchedulesWithinAccount
    /\ SchedulesDisjoint

-----------------------------------------------------------------------------
(* The calendar *)

LEMMA DayType ==
    /\ Forever \in Nat
    /\ Days \subseteq 1 .. Forever
    /\ \A d \in Days : d < Forever
  <1>1. MonthEnd[Months] \in Nat
    BY TenancyConstants
  <1> QED
    BY <1>1 DEF Forever, Days

LEMMA MonthType ==
  ASSUME NEW m \in Periods
  PROVE  /\ FirstDay(m) \in Nat /\ LastDay(m) \in Nat
         /\ 1 <= FirstDay(m) /\ FirstDay(m) <= LastDay(m)
         /\ LastDay(m) < Forever
  <1>1. m \in 1 .. Months /\ Months \in Nat
    BY TenancyConstants DEF Periods
  <1>2. /\ m \in 0 .. Months /\ m - 1 \in 0 .. Months /\ m - 1 < m
        /\ Months \in 0 .. Months
    BY <1>1
  <1>3. MonthEnd[m] \in Nat /\ MonthEnd[m - 1] \in Nat /\ MonthEnd[Months] \in Nat
    BY <1>2, TenancyConstants
  <1>4. MonthEnd[m - 1] < MonthEnd[m]
    BY <1>2, TenancyConstants
  <1>5. MonthEnd[m] <= MonthEnd[Months]
    <2>1. CASE m = Months
      BY <2>1, <1>3
    <2>2. CASE m < Months
      BY <2>2, <1>2, <1>3, TenancyConstants
    <2> QED
      BY <2>1, <2>2, <1>1
  <1> QED
    BY <1>3, <1>4, <1>5 DEF FirstDay, LastDay, Forever

(***************************************************************************)
(* Every day has a month, and lies in it.                                  *)
(***************************************************************************)
LEMMA PeriodOfDay ==
  ASSUME NEW d \in Days
  PROVE  /\ Period(d) \in Periods
         /\ FirstDay(Period(d)) <= d
         /\ d <= LastDay(Period(d))
  <1>1. PICK m \in Periods : MonthEnd[m - 1] < d /\ d <= MonthEnd[m]
    BY TenancyConstants DEF Days, Periods
  <1>2. d \in Nat /\ MonthEnd[m - 1] \in Nat
    <2>1. m - 1 \in 0 .. Months
      BY TenancyConstants DEF Periods
    <2>2. MonthEnd[Months] \in Nat
      BY TenancyConstants
    <2> QED
      BY <2>1, <2>2, TenancyConstants DEF Days
  <1>3. FirstDay(m) <= d /\ d <= LastDay(m)
    BY <1>1, <1>2 DEF FirstDay, LastDay
  <1> QED
    BY <1>3 DEF Period

LEMMA CutoffBound ==
  ASSUME NEW d \in Days
  PROVE  /\ Cutoff(d) \in 0 .. Forever
         /\ Cutoff(d) <= d
         /\ ~MonthStop(d) => Cutoff(d) < d
  <1>1. d \in Nat /\ d < Forever
    BY DayType DEF Days
  <1>2. /\ FirstDay(Period(d)) \in Nat /\ 1 <= FirstDay(Period(d))
        /\ FirstDay(Period(d)) <= d
    BY PeriodOfDay, MonthType
  <1> QED
    BY <1>1, <1>2, DayType DEF Cutoff

-----------------------------------------------------------------------------
(* Rows *)

LEMMA NoRows ==
    /\ NoSchedule.account = "none"
    /\ NoDraft.account = "none"
    /\ "none" \notin Accounts
    /\ 0 \notin Amounts
  BY TenancyConstants DEF NoSchedule, NoDraft

LEMMA ScheduleField ==
  ASSUME TypeOK, NEW s \in Schedules
  PROVE  /\ schedule[s].from \in 0 .. Forever
         /\ schedule[s].to \in 0 .. Forever
         /\ schedule[s].account \in Accounts \cup {"none"}
         /\ schedule[s].amount \in {0} \cup Amounts
         /\ schedule[s] = [account |-> schedule[s].account, from |-> schedule[s].from,
                           to |-> schedule[s].to, amount |-> schedule[s].amount]
  BY DEF TypeOK

LEMMA ScheduleDays ==
  ASSUME TypeOK, NEW s \in Schedules
  PROVE  schedule[s].from \in Nat /\ schedule[s].to \in Nat
  <1>1. schedule[s].from \in 0 .. Forever /\ schedule[s].to \in 0 .. Forever
    BY ScheduleField
  <1> QED
    BY <1>1, DayType

LEMMA AccountField ==
  ASSUME TypeOK, NEW a \in Accounts
  PROVE  /\ account[a].open \in BOOLEAN
         /\ account[a].from \in 0 .. Forever
         /\ account[a].to \in 0 .. Forever
  BY DEF TypeOK

(***************************************************************************)
(* An account that does not exist has no schedules.                        *)
(***************************************************************************)
LEMMA ClosedAccountHasNone ==
  ASSUME Inv, NEW a \in Accounts, ~account[a].open
  PROVE  /\ Of(a) = {}
         /\ \A m \in Periods : rent[a][m] = 0
  BY DEF Inv, Of, SchedulesWithinAccount, ChargedExist

-----------------------------------------------------------------------------
(* Commands that leave schedules and accounts alone *)

LEMMA SameRanges ==
  ASSUME Inv, UNCHANGED <<account, schedule>>
  PROVE  (ScheduleReferences /\ SchedulesWithinAccount /\ SchedulesDisjoint)'
  BY DEF Inv, ScheduleReferences, SchedulesWithinAccount, SchedulesDisjoint, Exists, Overlaps

LEMMA GenerateKeeps ==
  ASSUME Inv, NEW m \in Periods, Generate(m)
  PROVE  Inv'
  <1>1. ASSUME NEW a \in Accounts, NEW n \in Periods
        PROVE  /\ rent'[a][n] \in {0} \cup Amounts
               /\ rent'[a][n] # 0 => rent[a][n] # 0 \/ account[a].open
    <2> DEFINE x == CHOOSE s \in Sources(a, m) : TRUE
    <2>1. rent[a] \in [Periods -> {0} \cup Amounts]
      BY DEF Inv, TypeOK
    <2>2. rent'[a] = [rent[a] EXCEPT ![m] = IF Missing(a, m) THEN schedule[x].amount ELSE @]
      BY DEF Generate
    <2>3. CASE Missing(a, m)
      <3>1. x \in Sources(a, m)
        BY <2>3 DEF Missing
      <3>2. x \in Schedules /\ Exists(x) /\ schedule[x].account = a
        BY <3>1 DEF Sources, Of
      <3>3. account[a].open
        BY <3>2 DEF Inv, SchedulesWithinAccount
      <3>4. schedule[x].amount \in {0} \cup Amounts
        BY <3>2, ScheduleField DEF Inv
      <3> HIDE DEF x
      <3> QED
        BY <2>1, <2>2, <3>3, <3>4
    <2>4. CASE ~Missing(a, m)
      BY <2>1, <2>2, <2>4
    <2> QED
      BY <2>3, <2>4
  <1>2. TypeOK'
    <2>1. rent' \in [Accounts -> [Periods -> {0} \cup Amounts]]
      <3>1. \A a \in Accounts : rent'[a] \in [Periods -> {0} \cup Amounts]
        <4> TAKE a \in Accounts
        <4>1. rent[a] \in [Periods -> {0} \cup Amounts]
          BY DEF Inv, TypeOK
        <4>2. DOMAIN rent'[a] = Periods /\ rent'[a] = [n \in Periods |-> rent'[a][n]]
          BY <4>1 DEF Generate
        <4> QED
          BY <4>2, <1>1
      <3> QED
        BY <3>1 DEF Generate
    <2> QED
      BY <2>1 DEF Inv, TypeOK, Generate
  <1>3. ChargedExist'
    BY <1>1 DEF Inv, ChargedExist, Generate
  <1>4. DraftReferences'
    BY DEF Inv, DraftReferences, Generate
  <1> QED
    BY <1>2, <1>3, <1>4, SameRanges DEF Inv, Generate

LEMMA CheckObligationKeeps ==
  ASSUME Inv, NEW c \in Sessions, NEW a \in Accounts, NEW m \in Periods, NEW amount \in Amounts,
         CheckObligation(c, a, m, amount)
  PROVE  Inv'
  <1> DEFINE o == [account |-> a, period |-> m, amount |-> amount]
  <1>1. draft' = [draft EXCEPT ![c] = o] /\ UNCHANGED <<account, schedule, rent, closed>>
        /\ account[a].open
    BY DEF CheckObligation
  <1>2. o.account = a /\ o.period = m /\ o.amount = amount
    OBVIOUS
  <1>3. o \in [account : Accounts \cup {"none"}, period : 0 .. Months, amount : {0} \cup Amounts]
    BY DEF Periods
  <1> HIDE DEF o
  <1>4. \A d \in Sessions : draft'[d] = IF d = c THEN o ELSE draft[d]
    BY <1>1 DEF Inv, TypeOK
  <1>5. TypeOK'
    BY <1>1, <1>3 DEF Inv, TypeOK
  <1>6. DraftReferences'
    BY <1>1, <1>2, <1>4 DEF Inv, DraftReferences
  <1>7. ChargedExist'
    BY <1>1 DEF Inv, ChargedExist
  <1> QED
    BY <1>1, <1>5, <1>6, <1>7, SameRanges DEF Inv

LEMMA InsertObligationKeeps ==
  ASSUME Inv, NEW c \in Sessions, InsertObligation(c)
  PROVE  Inv'
  <1> DEFINE o == draft[c]
  <1>1. /\ o.account \in Accounts /\ o.period \in Periods /\ o.amount \in Amounts
        /\ account[o.account].open
    BY DEF Inv, DraftReferences, InsertObligation
  <1>2. /\ draft' = [draft EXCEPT ![c] = NoDraft] /\ UNCHANGED <<account, schedule, closed>>
        /\ rent' = IF rent[o.account][o.period] = 0
                   THEN [rent EXCEPT ![o.account][o.period] = o.amount] ELSE rent
    BY DEF InsertObligation
  <1> HIDE DEF o
  <1>3. \A d \in Sessions : draft'[d] = IF d = c THEN NoDraft ELSE draft[d]
    BY <1>2 DEF Inv, TypeOK
  <1>4. rent' \in [Accounts -> [Periods -> {0} \cup Amounts]]
    BY <1>1, <1>2 DEF Inv, TypeOK
  <1>5. NoDraft \in [account : Accounts \cup {"none"}, period : 0 .. Months,
                     amount : {0} \cup Amounts]
    BY TenancyConstants DEF NoDraft
  <1>6. TypeOK'
    BY <1>2, <1>4, <1>5 DEF Inv, TypeOK
  <1>7. DraftReferences'
    BY <1>2, <1>3 DEF Inv, DraftReferences
  <1>8. ASSUME NEW a \in Accounts, NEW m \in Periods, rent'[a][m] # 0
        PROVE  account[a].open
    <2>1. CASE a = o.account
      BY <1>1, <2>1
    <2>2. CASE a # o.account
      BY <1>1, <1>2, <1>8, <2>2 DEF Inv, TypeOK, ChargedExist
    <2> QED
      BY <2>1, <2>2
  <1>9. ChargedExist'
    BY <1>2, <1>8 DEF ChargedExist
  <1> QED
    BY <1>2, <1>6, <1>7, <1>9, SameRanges DEF Inv

-----------------------------------------------------------------------------
(* Commands that change accounts or schedules *)

(***************************************************************************)
(* What a new account changes: only an account without schedules.          *)
(***************************************************************************)
LEMMA NewAccountRow ==
  ASSUME Inv, NEW a \in Accounts, NEW from \in {0} \cup Days,
         NEW to \in Days \cup {Forever}, NewAccount(a, from, to)
  PROVE  /\ account' \in [Accounts -> [open : BOOLEAN, from : 0 .. Forever, to : 0 .. Forever]]
         /\ account'[a].open /\ account'[a].from = from /\ account'[a].to = to
         /\ \A b \in Accounts \ {a} : account'[b] = account[b]
         /\ from \in 0 .. Forever /\ to \in 0 .. Forever /\ from <= to
         /\ \A s \in Schedules : Exists(s) => schedule[s].account # a
  <1>1. from \in 0 .. Forever /\ to \in 0 .. Forever
    BY DayType
  <1>2. ~account[a].open /\ from <= to
        /\ account' = [account EXCEPT ![a] = [open |-> TRUE, from |-> from, to |-> to]]
    BY DEF NewAccount
  <1>3. \A s \in Schedules : Exists(s) => schedule[s].account # a
    BY <1>2, ClosedAccountHasNone DEF Of
  <1> QED
    BY <1>1, <1>2, <1>3 DEF Inv, TypeOK

LEMMA FirstCharge ==
  ASSUME Inv, NEW a \in Accounts, NEW m \in Periods, NEW first \in {0} \cup Amounts,
         account'[a].open, \A b \in Accounts \ {a} : account'[b] = account[b],
         rent' = IF first = 0 THEN rent ELSE [rent EXCEPT ![a][m] = first]
  PROVE  /\ rent' \in [Accounts -> [Periods -> {0} \cup Amounts]]
         /\ ChargedExist'
         /\ \A b \in Accounts, n \in Periods :
              (b # a \/ n # m \/ first = 0) => rent'[b][n] = rent[b][n]
  <1>1. rent \in [Accounts -> [Periods -> {0} \cup Amounts]]
    BY DEF Inv, TypeOK
  <1>2. rent' \in [Accounts -> [Periods -> {0} \cup Amounts]]
    BY <1>1
  <1>3. \A b \in Accounts, n \in Periods :
          (b # a \/ n # m \/ first = 0) => rent'[b][n] = rent[b][n]
    BY <1>1
  <1>4. ChargedExist'
    BY <1>3 DEF Inv, ChargedExist
  <1> QED
    BY <1>2, <1>3, <1>4

LEMMA DraftsStay ==
  ASSUME Inv, UNCHANGED draft, \A b \in Accounts : account[b].open => account'[b].open
  PROVE  DraftReferences'
  BY DEF Inv, DraftReferences

(***************************************************************************)
(* A schedule written to a free row: its account is open, it lies within   *)
(* the account's range, clear of the account's other schedules.            *)
(***************************************************************************)
LEMMA NewRow ==
  ASSUME Inv, NEW a \in Accounts, NEW s \in Schedules, NEW from \in 0 .. Forever,
         NEW to \in 0 .. Forever, NEW amount \in Amounts
  PROVE  /\ WithRow(s, a, from, to, amount) \in
              [Schedules -> [account : Accounts \cup {"none"}, from : 0 .. Forever,
                             to : 0 .. Forever, amount : {0} \cup Amounts]]
         /\ WithRow(s, a, from, to, amount)[s] =
              [account |-> a, from |-> from, to |-> to, amount |-> amount]
         /\ \A t \in Schedules \ {s} : WithRow(s, a, from, to, amount)[t] = schedule[t]
         /\ WithRow(s, a, from, to, amount)[s] # NoSchedule
  BY NoRows DEF WithRow, Inv, TypeOK

LEMMA SetupWithoutRentKeeps ==
  ASSUME Inv, NEW a \in Accounts, NEW from \in {0} \cup Days, NEW to \in Days \cup {Forever},
         NEW first \in {0} \cup Amounts, SetupWithoutRent(a, from, to, first)
  PROVE  Inv'
  <1>1. NewAccount(a, from, to) /\ UNCHANGED <<schedule, draft, closed>>
    BY DEF SetupWithoutRent
  <1>2. rent' \in [Accounts -> [Periods -> {0} \cup Amounts]] /\ ChargedExist'
    <2>1. CASE first = 0
      BY <1>1, <2>1, NewAccountRow DEF SetupWithoutRent, Inv, TypeOK, ChargedExist
    <2>2. CASE first # 0
      <3>1. from \in Days
        BY <2>2, DayType DEF SetupWithoutRent
      <3> QED
        BY <1>1, <2>2, <3>1, FirstCharge, NewAccountRow, PeriodOfDay DEF SetupWithoutRent
    <2> QED
      BY <2>1, <2>2
  <1>3. TypeOK'
    BY <1>1, <1>2, NewAccountRow DEF Inv, TypeOK
  <1>4. DraftReferences'
    BY <1>1, NewAccountRow, DraftsStay
  <1>5. ScheduleReferences' /\ SchedulesDisjoint'
    BY <1>1 DEF Inv, ScheduleReferences, SchedulesDisjoint, Exists, Overlaps
  <1>6. SchedulesWithinAccount'
    <2>1. ASSUME NEW s \in Schedules, Exists(s)
          PROVE  account'[schedule[s].account] = account[schedule[s].account]
      BY <1>1, <2>1, NewAccountRow DEF Inv, ScheduleReferences
    <2> QED
      BY <1>1, <2>1 DEF Inv, SchedulesWithinAccount, Exists
  <1> QED
    BY <1>2, <1>3, <1>4, <1>5, <1>6 DEF Inv

LEMMA CreateAccountKeeps ==
  ASSUME Inv, NEW a \in Accounts, NEW from \in {0} \cup Days, NEW to \in Days \cup {Forever},
         CreateAccount(a, from, to)
  PROVE  Inv'
  <1>1. SetupWithoutRent(a, from, to, 0)
    BY DEF CreateAccount, SetupWithoutRent
  <1> QED
    BY <1>1, SetupWithoutRentKeeps

(***************************************************************************)
(* A schedule added to row s of account a, as setup and rent-schedule add  *)
(* do: what it needs of the account and of the account's other schedules.  *)
(***************************************************************************)
LEMMA RowAdded ==
  ASSUME Inv, NEW a \in Accounts, NEW s \in Schedules, NEW from \in 0 .. Forever,
         NEW to \in 0 .. Forever, NEW amount \in Amounts,
         schedule' = WithRow(s, a, from, to, amount),
         \A t \in Schedules : Exists(t) =>
           account'[schedule[t].account] = account[schedule[t].account],
         account'[a].open, account'[a].from <= from, from <= to, to <= account'[a].to,
         \A t \in Of(a) \ {s} : ~Overlaps(schedule[t], from, to)
  PROVE  (ScheduleReferences /\ SchedulesWithinAccount /\ SchedulesDisjoint)'
  <1> DEFINE r == [account |-> a, from |-> from, to |-> to, amount |-> amount]
  <1>1. /\ schedule'[s] = r /\ r # NoSchedule
        /\ \A t \in Schedules \ {s} : schedule'[t] = schedule[t]
    BY NewRow
  <1>2. r.account = a /\ r.from = from /\ r.to = to
    OBVIOUS
  <1> HIDE DEF r
  <1>3. \A t \in Schedules : Exists(t)' <=> t = s \/ Exists(t)
    BY <1>1 DEF Exists
  <1>4. ScheduleReferences'
    BY <1>1, <1>2, <1>3 DEF Inv, ScheduleReferences
  <1>5. SchedulesWithinAccount'
    BY <1>1, <1>2, <1>3 DEF Inv, SchedulesWithinAccount
  <1>6. ASSUME NEW t \in Schedules, NEW u \in Schedules, Exists(t)', Exists(u)', t # u,
               schedule'[t].account = schedule'[u].account
        PROVE  ~(schedule'[t].from <= schedule'[u].to /\ schedule'[t].to >= schedule'[u].from)
    <2>1. CASE t # s /\ u # s
      BY <1>1, <1>3, <1>6, <2>1 DEF Inv, SchedulesDisjoint, Overlaps
    <2>2. CASE t = s
      <3>1. u \in Of(a) \ {s} /\ schedule'[u] = schedule[u]
        BY <1>1, <1>2, <1>3, <1>6, <2>2 DEF Of
      <3>2. schedule[u].from \in Nat /\ schedule[u].to \in Nat
        BY ScheduleDays DEF Inv
      <3> QED
        BY <1>1, <1>2, <2>2, <3>1, <3>2 DEF Overlaps
    <2>3. CASE u = s
      <3>1. t \in Of(a) \ {s} /\ schedule'[t] = schedule[t]
        BY <1>1, <1>2, <1>3, <1>6, <2>3 DEF Of
      <3> QED
        BY <1>1, <1>2, <2>3, <3>1 DEF Overlaps
    <2> QED
      BY <2>1, <2>2, <2>3
  <1>7. SchedulesDisjoint'
    BY <1>6 DEF SchedulesDisjoint, Overlaps
  <1> QED
    BY <1>4, <1>5, <1>7

LEMMA SetupWithRentKeeps ==
  ASSUME Inv, NEW a \in Accounts, NEW s \in Schedules, NEW from \in {0} \cup Days,
         NEW to \in Days \cup {Forever}, NEW first \in {0} \cup Amounts,
         NEW amount \in Amounts, NEW effective \in Days,
         SetupWithRent(a, s, from, to, first, amount, effective)
  PROVE  Inv'
  <1>1. /\ NewAccount(a, from, to) /\ ~Exists(s) /\ UNCHANGED <<draft, closed>>
        /\ from <= effective /\ effective <= to
        /\ schedule' = WithRow(s, a, effective, to, amount)
    BY DEF SetupWithRent
  <1>2. effective \in 0 .. Forever /\ to \in 0 .. Forever /\ from \in Days
    BY DayType DEF SetupWithRent
  <1>3. rent' \in [Accounts -> [Periods -> {0} \cup Amounts]] /\ ChargedExist'
    BY <1>1, <1>2, FirstCharge, NewAccountRow, PeriodOfDay DEF SetupWithRent
  <1>4. TypeOK'
    <2>1. schedule' \in [Schedules -> [account : Accounts \cup {"none"}, from : 0 .. Forever,
                                       to : 0 .. Forever, amount : {0} \cup Amounts]]
      BY <1>1, <1>2, NewRow
    <2> QED
      BY <1>1, <1>3, <2>1, NewAccountRow DEF Inv, TypeOK
  <1>5. DraftReferences'
    BY <1>1, NewAccountRow, DraftsStay
  <1>6. (ScheduleReferences /\ SchedulesWithinAccount /\ SchedulesDisjoint)'
    <2>1. Of(a) = {}
      BY <1>1, NewAccountRow DEF Of
    <2>2. \A t \in Schedules : Exists(t) =>
            account'[schedule[t].account] = account[schedule[t].account]
      BY <1>1, NewAccountRow DEF Inv, ScheduleReferences
    <2> QED
      BY <1>1, <1>2, <2>1, <2>2, NewAccountRow, RowAdded
  <1> QED
    BY <1>3, <1>4, <1>5, <1>6 DEF Inv

LEMMA CreateScheduleKeeps ==
  ASSUME Inv, NEW a \in Accounts, NEW s \in Schedules, NEW from \in Days,
         NEW to \in Days \cup {Forever}, NEW amount \in Amounts,
         CreateSchedule(a, s, from, to, amount)
  PROVE  Inv'
  <1>1. /\ account[a].open /\ from <= to /\ account[a].from <= from /\ to <= account[a].to
        /\ \A t \in Of(a) : ~Overlaps(schedule[t], from, to)
        /\ schedule' = WithRow(s, a, from, to, amount)
        /\ closed' = [closed EXCEPT ![a] = {}]
        /\ UNCHANGED <<account, rent, draft>>
    BY DEF CreateSchedule
  <1>2. from \in 0 .. Forever /\ to \in 0 .. Forever
    BY DayType
  <1>3. TypeOK'
    <2>1. schedule' \in [Schedules -> [account : Accounts \cup {"none"}, from : 0 .. Forever,
                                       to : 0 .. Forever, amount : {0} \cup Amounts]]
      BY <1>1, <1>2, NewRow
    <2> QED
      BY <1>1, <2>1 DEF Inv, TypeOK
  <1>4. DraftReferences' /\ ChargedExist'
    BY <1>1 DEF Inv, DraftReferences, ChargedExist
  <1>5. (ScheduleReferences /\ SchedulesWithinAccount /\ SchedulesDisjoint)'
    BY <1>1, <1>2, RowAdded
  <1> QED
    BY <1>3, <1>4, <1>5 DEF Inv

(***************************************************************************)
(* The two rows a rent change writes: p is the schedule it ends, s the new *)
(* one.                                                                    *)
(***************************************************************************)
RentChanged(a, s, p, amount, effective) ==
    /\ p \in Schedules /\ p # s /\ Exists(p) /\ schedule[p].account = a
    /\ schedule[p].from <= effective - 1 /\ effective <= schedule[p].to
    /\ \A t \in Of(a) \ {p} : ~Overlaps(schedule[t], effective, schedule[p].to)
    /\ schedule'[s] = [account |-> a, from |-> effective, to |-> schedule[p].to,
                       amount |-> amount]
    /\ schedule'[p] = [account |-> a, from |-> schedule[p].from, to |-> effective - 1,
                       amount |-> schedule[p].amount]
    /\ \A t \in Schedules \ {s, p} : schedule'[t] = schedule[t]
    /\ schedule' \in [Schedules -> [account : Accounts \cup {"none"}, from : 0 .. Forever,
                                    to : 0 .. Forever, amount : {0} \cup Amounts]]

LEMMA ChangeRentRows ==
  ASSUME Inv, NEW a \in Accounts, NEW s \in Schedules, NEW amount \in Amounts,
         NEW effective \in Days, ChangeRent(a, s, amount, effective)
  PROVE  \E p \in Schedules : RentChanged(a, s, p, amount, effective)
  <1>1. PICK p \in Of(a) :
          /\ {t \in Of(a) : Overlaps(schedule[t], effective - 1, effective - 1)} = {p}
          /\ effective <= schedule[p].to
          /\ \A t \in Of(a) \ {p} : ~Overlaps(schedule[t], effective, schedule[p].to)
          /\ schedule' = [WithRow(s, a, effective, schedule[p].to, amount)
                            EXCEPT ![p].to = effective - 1]
    BY DEF ChangeRent
  <1>2. p \in Schedules /\ Exists(p) /\ schedule[p].account = a /\ ~Exists(s) /\ p # s
    BY DEF Of, ChangeRent
  <1>3. schedule[p].from <= effective - 1
    BY <1>1 DEF Overlaps
  <1>4. effective \in 0 .. Forever /\ effective - 1 \in 0 .. Forever
    BY DayType
  <1> DEFINE w == WithRow(s, a, effective, schedule[p].to, amount)
             W == [account : Accounts \cup {"none"}, from : 0 .. Forever,
                   to : 0 .. Forever, amount : {0} \cup Amounts]
  <1>5. schedule[p].to \in 0 .. Forever
    BY <1>2, ScheduleField DEF Inv
  <1>6. /\ w \in [Schedules -> W]
        /\ w[s] = [account |-> a, from |-> effective, to |-> schedule[p].to, amount |-> amount]
        /\ \A t \in Schedules \ {s} : w[t] = schedule[t]
    BY <1>4, <1>5, NewRow
  <1>7. schedule' = [w EXCEPT ![p].to = effective - 1]
    BY <1>1
  <1>8. w[p] = [account |-> a, from |-> schedule[p].from, to |-> schedule[p].to,
                amount |-> schedule[p].amount]
    BY <1>2, <1>6, ScheduleField DEF Inv
  <1> HIDE DEF w
  <1>9. schedule'[p] = [account |-> a, from |-> schedule[p].from, to |-> effective - 1,
                        amount |-> schedule[p].amount]
    BY <1>2, <1>6, <1>7, <1>8
  <1>10. \A t \in Schedules \ {p} : schedule'[t] = w[t]
    BY <1>6, <1>7
  <1>11. schedule' \in [Schedules -> W]
    BY <1>2, <1>4, <1>6, <1>7
  <1> QED
    BY <1>1, <1>2, <1>3, <1>6, <1>9, <1>10, <1>11 DEF RentChanged

LEMMA ChangeRentKeeps ==
  ASSUME Inv, NEW a \in Accounts, NEW s \in Schedules, NEW amount \in Amounts,
         NEW effective \in Days, ChangeRent(a, s, amount, effective)
  PROVE  Inv'
  <1>0. PICK p \in Schedules : RentChanged(a, s, p, amount, effective)
    BY ChangeRentRows
  <1>1. /\ p \in Schedules /\ p # s /\ Exists(p) /\ schedule[p].account = a
        /\ schedule[p].from <= effective - 1 /\ effective <= schedule[p].to
        /\ \A t \in Of(a) \ {p} : ~Overlaps(schedule[t], effective, schedule[p].to)
        /\ schedule'[s] = [account |-> a, from |-> effective, to |-> schedule[p].to,
                           amount |-> amount]
        /\ schedule'[p] = [account |-> a, from |-> schedule[p].from, to |-> effective - 1,
                           amount |-> schedule[p].amount]
        /\ \A t \in Schedules \ {s, p} : schedule'[t] = schedule[t]
        /\ schedule' \in [Schedules -> [account : Accounts \cup {"none"}, from : 0 .. Forever,
                                        to : 0 .. Forever, amount : {0} \cup Amounts]]
    BY <1>0 DEF RentChanged
  <1>2. UNCHANGED <<account, rent, draft, closed>> /\ ~Exists(s)
    BY DEF ChangeRent
  <1>3. effective \in Nat /\ \A t \in Schedules : schedule[t].from \in Nat /\ schedule[t].to \in Nat
    BY DayType, ScheduleDays DEF Inv, Days
  <1>4. /\ schedule'[s].account = a /\ schedule'[s].from = effective
        /\ schedule'[s].to = schedule[p].to
        /\ schedule'[p].account = a /\ schedule'[p].from = schedule[p].from
        /\ schedule'[p].to = effective - 1
    BY <1>1
  <1>5. TypeOK' /\ DraftReferences' /\ ChargedExist'
    BY <1>1, <1>2 DEF Inv, TypeOK, DraftReferences, ChargedExist
  <1>6. \A t \in Schedules : Exists(t)' <=> t = s \/ Exists(t)
    BY <1>1, <1>4, NoRows DEF Exists
  <1>7. ScheduleReferences'
    BY <1>1, <1>4, <1>6 DEF Inv, ScheduleReferences
  <1>8. account[a].open /\ account[a].from <= schedule[p].from /\ schedule[p].to <= account[a].to
        /\ account[a].from \in Nat /\ account[a].to \in Nat
    BY <1>1, AccountField, DayType DEF Inv, SchedulesWithinAccount
  <1>9. SchedulesWithinAccount'
    <2> SUFFICES ASSUME NEW t \in Schedules, Exists(t)'
                 PROVE  /\ account'[schedule'[t].account].open
                        /\ account'[schedule'[t].account].from <= schedule'[t].from
                        /\ schedule'[t].from <= schedule'[t].to
                        /\ schedule'[t].to <= account'[schedule'[t].account].to
      BY DEF SchedulesWithinAccount
    <2>1. CASE t \in {s, p}
      BY <1>1, <1>2, <1>3, <1>4, <1>8, <2>1
    <2>2. CASE t \notin {s, p}
      BY <1>1, <1>2, <1>6, <2>2 DEF Inv, SchedulesWithinAccount
    <2> QED
      BY <2>1, <2>2
  <1>10. SchedulesDisjoint'
    <2> DEFINE Apart(x, y) == x.to < y.from \/ y.to < x.from
    <2>1. \A t, u \in Schedules : Exists(t) /\ Exists(u) /\ t # u
             /\ schedule[t].account = schedule[u].account => Apart(schedule[t], schedule[u])
      BY <1>3 DEF Inv, SchedulesDisjoint, Overlaps
    <2>2. \A t \in Schedules \ {s, p} : Exists(t) /\ schedule[t].account = a =>
             Apart(schedule[t], schedule'[p]) /\ Apart(schedule[t], schedule'[s])
      <3> TAKE t \in Schedules \ {s, p}
      <3> HAVE Exists(t) /\ schedule[t].account = a
      <3>1. Apart(schedule[t], schedule[p])
        BY <1>1, <2>1
      <3>2. ~Overlaps(schedule[t], effective, schedule[p].to)
        BY <1>1 DEF Of
      <3> QED
        BY <1>1, <1>3, <1>4, <3>1, <3>2 DEF Overlaps
    <2>3. Apart(schedule'[s], schedule'[p])
      BY <1>1, <1>3, <1>4
    <2>4. \A t \in Schedules : schedule'[t].from \in Int /\ schedule'[t].to \in Int
      BY <1>1, <1>3, <1>4
    <2>5. ASSUME NEW t \in Schedules, NEW u \in Schedules, Exists(t)', Exists(u)', t # u,
                 schedule'[t].account = schedule'[u].account
          PROVE  Apart(schedule'[t], schedule'[u])
      <3>1. CASE t \notin {s, p} /\ u \notin {s, p}
        BY <1>1, <1>6, <2>1, <2>5, <3>1
      <3>2. CASE t \notin {s, p} /\ u \in {s, p}
        BY <1>1, <1>4, <1>6, <2>2, <2>5, <3>2
      <3>3. CASE t \in {s, p} /\ u \notin {s, p}
        BY <1>1, <1>4, <1>6, <2>2, <2>5, <3>3
      <3>4. CASE t \in {s, p} /\ u \in {s, p}
        BY <1>1, <2>3, <2>5, <3>4
      <3> QED
        BY <3>1, <3>2, <3>3, <3>4
    <2> QED
      BY <2>4, <2>5 DEF SchedulesDisjoint, Overlaps
  <1> QED
    BY <1>5, <1>7, <1>9, <1>10 DEF Inv

LEMMA EndScheduleKeeps ==
  ASSUME Inv, NEW s \in Schedules, NEW d \in Days, EndSchedule(s, d)
  PROVE  Inv'
  <1> DEFINE a == schedule[s].account
  <1>1. /\ Exists(s) /\ schedule[s].from <= d /\ d <= account[a].to
        /\ \A t \in Of(a) \ {s} : ~Overlaps(schedule[t], schedule[s].from, d)
        /\ schedule' = [schedule EXCEPT ![s].to = d]
        /\ closed' \in {[closed EXCEPT ![a] = {}], closed}
        /\ UNCHANGED <<account, rent, draft>>
    BY DEF EndSchedule
  <1>2. a \in Accounts
    BY <1>1 DEF Inv, ScheduleReferences
  <1>3. d \in 0 .. Forever /\ d \in Nat
        /\ \A t \in Schedules : schedule[t].from \in Nat /\ schedule[t].to \in Nat
    BY DayType, ScheduleDays DEF Inv, Days
  <1>4. /\ schedule'[s].account = a /\ schedule'[s].from = schedule[s].from
        /\ schedule'[s].to = d /\ \A t \in Schedules \ {s} : schedule'[t] = schedule[t]
    BY <1>1 DEF Inv, TypeOK
  <1>5. TypeOK' /\ DraftReferences' /\ ChargedExist'
    <2>1. closed' \in [Accounts -> SUBSET Periods]
      BY <1>1, <1>2 DEF Inv, TypeOK
    <2>2. schedule' \in [Schedules -> [account : Accounts \cup {"none"}, from : 0 .. Forever,
                                       to : 0 .. Forever, amount : {0} \cup Amounts]]
      BY <1>1, <1>3 DEF Inv, TypeOK
    <2> QED
      BY <1>1, <2>1, <2>2 DEF Inv, TypeOK, DraftReferences, ChargedExist
  <1>6. \A t \in Schedules : Exists(t)' <=> Exists(t)
    BY <1>1, <1>2, <1>4, NoRows DEF Exists
  <1>7. ScheduleReferences'
    BY <1>2, <1>4, <1>6 DEF Inv, ScheduleReferences
  <1>8. SchedulesWithinAccount'
    BY <1>1, <1>4, <1>6 DEF Inv, SchedulesWithinAccount
  <1>9. SchedulesDisjoint'
    <2>1. ASSUME NEW t \in Schedules, NEW u \in Schedules, Exists(t), Exists(u), t # u,
                 schedule'[t].account = schedule'[u].account
          PROVE  ~(schedule'[t].from <= schedule'[u].to /\ schedule'[t].to >= schedule'[u].from)
      <3>1. CASE t # s /\ u # s
        BY <1>4, <2>1, <3>1 DEF Inv, SchedulesDisjoint, Overlaps
      <3>2. CASE t = s
        <4>1. u \in Of(a) \ {s} /\ schedule'[u] = schedule[u]
          BY <1>4, <2>1, <3>2 DEF Of
        <4> QED
          BY <1>1, <1>3, <1>4, <3>2, <4>1 DEF Overlaps
      <3>3. CASE u = s
        <4>1. t \in Of(a) \ {s} /\ schedule'[t] = schedule[t]
          BY <1>4, <2>1, <3>3 DEF Of
        <4> QED
          BY <1>1, <1>3, <1>4, <3>3, <4>1 DEF Overlaps
      <3> QED
        BY <3>1, <3>2, <3>3
    <2> QED
      BY <1>6, <2>1 DEF SchedulesDisjoint, Overlaps
  <1> QED
    BY <1>5, <1>7, <1>8, <1>9 DEF Inv

LEMMA EndAccountKeeps ==
  ASSUME Inv, NEW a \in Accounts, NEW d \in Days, EndAccount(a, d)
  PROVE  Inv'
  <1>1. /\ account[a].open /\ \A s \in Of(a) : schedule[s].to <= d
        /\ account' = [account EXCEPT ![a].to = d]
        /\ UNCHANGED <<schedule, rent, draft, closed>>
    BY DEF EndAccount
  <1>2. d \in 0 .. Forever
    BY DayType
  <1>3. /\ account'[a].open /\ account'[a].from = account[a].from /\ account'[a].to = d
        /\ \A b \in Accounts \ {a} : account'[b] = account[b]
    BY <1>1 DEF Inv, TypeOK
  <1>4. TypeOK'
    BY <1>1, <1>2 DEF Inv, TypeOK
  <1>5. DraftReferences'
    BY <1>1, <1>3, DraftsStay
  <1>6. ChargedExist'
    BY <1>1, <1>3 DEF Inv, ChargedExist
  <1>7. ScheduleReferences' /\ SchedulesDisjoint'
    BY <1>1 DEF Inv, ScheduleReferences, SchedulesDisjoint, Exists, Overlaps
  <1>8. SchedulesWithinAccount'
    <2>1. ASSUME NEW s \in Schedules, Exists(s)
          PROVE  /\ account'[schedule[s].account].open
                 /\ account'[schedule[s].account].from <= schedule[s].from
                 /\ schedule[s].from <= schedule[s].to
                 /\ schedule[s].to <= account'[schedule[s].account].to
      <3>1. CASE schedule[s].account = a
        BY <1>1, <1>3, <2>1, <3>1 DEF Inv, SchedulesWithinAccount, Of
      <3>2. CASE schedule[s].account # a
        BY <1>3, <2>1, <3>2 DEF Inv, SchedulesWithinAccount, ScheduleReferences
      <3> QED
        BY <3>1, <3>2
    <2> QED
      BY <1>1, <2>1 DEF SchedulesWithinAccount, Exists
  <1> QED
    BY <1>4, <1>5, <1>6, <1>7, <1>8 DEF Inv

(***************************************************************************)
(* A tenancy end shortens schedules at most, and leaves none of the        *)
(* account's beyond its cutoff.                                            *)
(***************************************************************************)
LEMMA EndTenancyRows ==
  ASSUME Inv, NEW a \in Accounts, NEW d \in Days, NEW final \in {0} \cup Amounts,
         EndTenancy(a, d, final), NEW s \in Schedules
  PROVE  /\ Exists(s)' <=> Exists(s)
         /\ schedule'[s].account = schedule[s].account
         /\ schedule'[s].from = schedule[s].from
         /\ schedule'[s].to \in 0 .. Forever /\ schedule'[s].to <= schedule[s].to
         /\ schedule'[s].amount = schedule[s].amount
         /\ Exists(s) => schedule[s].from <= schedule'[s].to
         /\ s \in Of(a) => schedule'[s].to <= Cutoff(d)
         /\ schedule'[s] \in [account : Accounts \cup {"none"}, from : 0 .. Forever,
                              to : 0 .. Forever, amount : {0} \cup Amounts]
  <1>1. /\ schedule'[s] = IF s \in Of(a) /\ schedule[s].to > Cutoff(d)
                          THEN [schedule[s] EXCEPT !.to = Cutoff(d)] ELSE schedule[s]
        /\ \A t \in Of(a) : schedule[t].from <= Cutoff(d)
    BY DEF EndTenancy
  <1>2. Cutoff(d) \in 0 .. Forever /\ Cutoff(d) \in Nat
    BY CutoffBound, DayType
  <1>3. schedule[s].to \in Nat /\ schedule[s].to \in 0 .. Forever
    BY ScheduleDays, ScheduleField DEF Inv
  <1>4. schedule[s] \in [account : Accounts \cup {"none"}, from : 0 .. Forever,
                         to : 0 .. Forever, amount : {0} \cup Amounts]
    BY DEF Inv, TypeOK
  <1>5. CASE s \in Of(a) /\ schedule[s].to > Cutoff(d)
    <2>1. schedule'[s] = [schedule[s] EXCEPT !.to = Cutoff(d)]
      BY <1>1, <1>5
    <2>2. Exists(s) /\ schedule[s].account = a
      BY <1>5 DEF Of
    <2>3. /\ schedule'[s].account = a /\ schedule'[s].from = schedule[s].from
          /\ schedule'[s].to = Cutoff(d) /\ schedule'[s].amount = schedule[s].amount
      BY <1>4, <2>1, <2>2
    <2>4. Exists(s)'
      BY <2>3, NoRows DEF Exists
    <2>5. schedule'[s] \in [account : Accounts \cup {"none"}, from : 0 .. Forever,
                            to : 0 .. Forever, amount : {0} \cup Amounts]
      BY <1>2, <1>4, <2>1
    <2> QED
      BY <1>1, <1>2, <1>3, <1>5, <2>2, <2>3, <2>4, <2>5
  <1>6. CASE ~(s \in Of(a) /\ schedule[s].to > Cutoff(d))
    <2>1. schedule'[s] = schedule[s]
      BY <1>1, <1>6
    <2>2. Exists(s) => schedule[s].from <= schedule[s].to
      BY DEF Inv, SchedulesWithinAccount
    <2> QED
      BY <1>2, <1>3, <1>4, <1>6, <2>1, <2>2 DEF Exists
  <1> QED
    BY <1>5, <1>6

LEMMA EndTenancyKeeps ==
  ASSUME Inv, NEW a \in Accounts, NEW d \in Days, NEW final \in {0} \cup Amounts,
         EndTenancy(a, d, final)
  PROVE  Inv'
  <1>1. /\ account[a].open /\ UNCHANGED draft
        /\ account' = [account EXCEPT ![a].to = d]
        /\ rent' = IF final = 0 THEN rent ELSE [rent EXCEPT ![a][Period(d)] = final]
        /\ closed' = [closed EXCEPT ![a] = {m \in Periods : FirstDay(m) > Cutoff(d)}]
    BY DEF EndTenancy
  <1>2. d \in 0 .. Forever /\ d \in Nat
    BY DayType DEF Days
  <1>3. /\ account'[a].open /\ account'[a].from = account[a].from /\ account'[a].to = d
        /\ \A b \in Accounts \ {a} : account'[b] = account[b]
    BY <1>1 DEF Inv, TypeOK
  <1>4. rent' \in [Accounts -> [Periods -> {0} \cup Amounts]] /\ ChargedExist'
    BY <1>1, <1>3, PeriodOfDay, FirstCharge
  <1>5. TypeOK'
    <2>1. schedule' \in [Schedules -> [account : Accounts \cup {"none"}, from : 0 .. Forever,
                                       to : 0 .. Forever, amount : {0} \cup Amounts]]
      <3>1. schedule' = [s \in Schedules |-> schedule'[s]]
        BY DEF EndTenancy
      <3> QED
        BY <3>1, EndTenancyRows
    <2>2. closed' \in [Accounts -> SUBSET Periods]
      BY <1>1 DEF Inv, TypeOK
    <2>3. account' \in [Accounts -> [open : BOOLEAN, from : 0 .. Forever, to : 0 .. Forever]]
      BY <1>1, <1>2 DEF Inv, TypeOK
    <2> QED
      BY <1>1, <1>4, <2>1, <2>2, <2>3 DEF Inv, TypeOK
  <1>6. DraftReferences'
    BY <1>1, <1>3, DraftsStay
  <1>7. ScheduleReferences'
    BY EndTenancyRows DEF Inv, ScheduleReferences
  <1>8. SchedulesWithinAccount'
    <2> SUFFICES ASSUME NEW s \in Schedules, Exists(s)'
                 PROVE  /\ account'[schedule'[s].account].open
                        /\ account'[schedule'[s].account].from <= schedule'[s].from
                        /\ schedule'[s].from <= schedule'[s].to
                        /\ schedule'[s].to <= account'[schedule'[s].account].to
      BY DEF SchedulesWithinAccount
    <2>1. /\ Exists(s) /\ schedule'[s].account = schedule[s].account
          /\ schedule'[s].from = schedule[s].from /\ schedule'[s].from <= schedule'[s].to
          /\ schedule'[s].to <= schedule[s].to /\ schedule'[s].to \in Nat
          /\ schedule[s].to \in Nat /\ schedule[s].account \in Accounts
      BY EndTenancyRows, ScheduleDays, DayType DEF Inv, ScheduleReferences
    <2>2. CASE schedule[s].account = a
      <3>1. schedule'[s].to <= Cutoff(d)
        BY <2>1, <2>2, EndTenancyRows DEF Of
      <3>2. Cutoff(d) <= d /\ Cutoff(d) \in Nat
        BY CutoffBound, DayType
      <3>3. account[a].from <= schedule[s].from
        BY <2>1, <2>2 DEF Inv, SchedulesWithinAccount
      <3> QED
        BY <1>2, <1>3, <2>1, <2>2, <3>1, <3>2, <3>3
    <2>3. CASE schedule[s].account # a
      <3>1. account'[schedule[s].account] = account[schedule[s].account]
        BY <1>3, <2>1, <2>3
      <3>2. account[schedule[s].account].to \in Nat
        BY <2>1, AccountField, DayType DEF Inv
      <3> QED
        BY <2>1, <3>1, <3>2 DEF Inv, SchedulesWithinAccount
    <2> QED
      BY <2>2, <2>3
  <1>9. SchedulesDisjoint'
    <2>1. ASSUME NEW t \in Schedules, NEW u \in Schedules, Exists(t)', Exists(u)', t # u,
                 schedule'[t].account = schedule'[u].account
          PROVE  ~(schedule'[t].from <= schedule'[u].to /\ schedule'[t].to >= schedule'[u].from)
      <3>1. ~(schedule[t].from <= schedule[u].to /\ schedule[t].to >= schedule[u].from)
        BY <2>1, EndTenancyRows DEF Inv, SchedulesDisjoint, Overlaps
      <3>2. /\ schedule'[t].from = schedule[t].from /\ schedule'[t].to <= schedule[t].to
            /\ schedule'[u].from = schedule[u].from /\ schedule'[u].to <= schedule[u].to
            /\ schedule'[t].to \in Nat /\ schedule'[u].to \in Nat
        BY EndTenancyRows, DayType
      <3>3. /\ schedule[t].from \in Nat /\ schedule[t].to \in Nat
            /\ schedule[u].from \in Nat /\ schedule[u].to \in Nat
        BY ScheduleDays DEF Inv
      <3> QED
        BY <3>1, <3>2, <3>3
    <2> QED
      BY <2>1 DEF SchedulesDisjoint, Overlaps
  <1> QED
    BY <1>4, <1>5, <1>6, <1>7, <1>8, <1>9 DEF Inv

-----------------------------------------------------------------------------
LEMMA InitInv == Init => Inv
  <1> SUFFICES ASSUME Init PROVE Inv
    OBVIOUS
  <1>1. TypeOK
    <2>1. NoAccount \in [open : BOOLEAN, from : 0 .. Forever, to : 0 .. Forever]
      BY DayType DEF NoAccount
    <2>2. NoSchedule \in [account : Accounts \cup {"none"}, from : 0 .. Forever,
                          to : 0 .. Forever, amount : {0} \cup Amounts]
      BY DayType DEF NoSchedule
    <2>3. NoDraft \in [account : Accounts \cup {"none"}, period : 0 .. Months,
                       amount : {0} \cup Amounts]
      BY TenancyConstants DEF NoDraft
    <2> QED
      BY <2>1, <2>2, <2>3 DEF Init, TypeOK
  <1>2. ScheduleReferences /\ SchedulesWithinAccount /\ SchedulesDisjoint
    BY DEF Init, ScheduleReferences, SchedulesWithinAccount, SchedulesDisjoint, Exists
  <1>3. DraftReferences /\ ChargedExist
    BY DEF Init, DraftReferences, ChargedExist
  <1> QED
    BY <1>1, <1>2, <1>3 DEF Inv

LEMMA NextInv == Inv /\ [Next]_vars => Inv'
  <1> SUFFICES ASSUME Inv, [Next]_vars PROVE Inv'
    OBVIOUS
  <1>1. CASE GuidedNext
    BY <1>1, SetupWithoutRentKeeps, SetupWithRentKeeps, ChangeRentKeeps, EndTenancyKeeps,
       GenerateKeeps DEF GuidedNext
  <1>2. CASE AdvancedNext
    BY <1>2, CreateAccountKeeps, CreateScheduleKeeps, EndScheduleKeeps, EndAccountKeeps
       DEF AdvancedNext
  <1>3. CASE ObligationNext
    BY <1>3, CheckObligationKeeps, InsertObligationKeeps DEF ObligationNext
  <1>4. CASE UNCHANGED vars
    BY <1>4, SameRanges DEF vars, Inv, TypeOK, DraftReferences, ChargedExist
  <1> QED
    BY <1>1, <1>2, <1>3, <1>4 DEF Next

LEMMA SpecInv == Spec => []Inv
  BY InitInv, NextInv, PTL DEF Spec

(***************************************************************************)
(* Every reachable database of accounts, schedules, charges and drafts has *)
(* its type.                                                               *)
(***************************************************************************)
THEOREM TenancyTypeCorrect == Spec => []TypeOK
  <1>1. Inv => TypeOK
    BY DEF Inv
  <1> QED
    BY <1>1, SpecInv, PTL

(***************************************************************************)
(* No command, guided or advanced, makes two schedules of an account share *)
(* a day.                                                                  *)
(***************************************************************************)
THEOREM SchedulesNeverOverlap == Spec => []SchedulesDisjoint
  <1>1. Inv => SchedulesDisjoint
    BY DEF Inv
  <1> QED
    BY <1>1, SpecInv, PTL

(***************************************************************************)
(* No command, guided or advanced, leaves a schedule that reaches outside  *)
(* its account's active range.                                             *)
(***************************************************************************)
THEOREM SchedulesStayWithin == Spec => []SchedulesWithinAccount
  <1>1. Inv => SchedulesWithinAccount
    BY DEF Inv
  <1> QED
    BY <1>1, SpecInv, PTL

-----------------------------------------------------------------------------
(* Charges *)

LEMMA NextKeepsCharges ==
  ASSUME Inv, [Next]_vars, NEW a \in Accounts, NEW m \in Periods, rent[a][m] # 0
  PROVE  rent'[a][m] = rent[a][m]
  <1>1. account[a].open
    BY DEF Inv, ChargedExist
  <1>2. rent \in [Accounts -> [Periods -> {0} \cup Amounts]]
    BY DEF Inv, TypeOK
  <1>3. ASSUME NEW b \in Accounts, NEW from, NEW to, NewAccount(b, from, to)
        PROVE  b # a
    BY <1>1, <1>3 DEF NewAccount
  <1>4. ASSUME NEW b \in Accounts, NEW from \in {0} \cup Days, NEW to \in Days \cup {Forever},
               NEW first \in {0} \cup Amounts, SetupWithoutRent(b, from, to, first)
        PROVE  rent'[a][m] = rent[a][m]
    BY <1>2, <1>3, <1>4 DEF SetupWithoutRent
  <1>5. ASSUME NEW b \in Accounts, NEW from \in {0} \cup Days, NEW to \in Days \cup {Forever},
               NEW first \in {0} \cup Amounts, NEW s \in Schedules, NEW amount \in Amounts,
               NEW effective \in Days,
               SetupWithRent(b, s, from, to, first, amount, effective)
        PROVE  rent'[a][m] = rent[a][m]
    BY <1>2, <1>3, <1>5 DEF SetupWithRent
  <1>6. ASSUME NEW b \in Accounts, NEW d \in Days, NEW final \in {0} \cup Amounts,
               EndTenancy(b, d, final)
        PROVE  rent'[a][m] = rent[a][m]
    <2>1. CASE final = 0
      BY <1>6, <2>1 DEF EndTenancy
    <2>2. CASE final # 0
      <3>1. Cutoff(d) < d
        BY <1>6, <2>2, CutoffBound DEF EndTenancy
      <3>2. rent[b][Period(d)] = 0 /\ rent' = [rent EXCEPT ![b][Period(d)] = final]
        BY <1>6, <2>2, <3>1 DEF EndTenancy
      <3>3. b # a \/ Period(d) # m
        BY <3>2
      <3> QED
        BY <1>2, <3>2, <3>3
    <2> QED
      BY <2>1, <2>2
  <1>7. ASSUME NEW n \in Periods, Generate(n)
        PROVE  rent'[a][m] = rent[a][m]
    <2>1. rent[a] \in [Periods -> {0} \cup Amounts]
      BY <1>2
    <2>2. CASE n = m
      <3>1. ~Missing(a, n)
        BY <2>2 DEF Missing
      <3> QED
        BY <1>7, <2>1, <3>1 DEF Generate
    <2>3. CASE n # m
      BY <1>7, <2>1, <2>3 DEF Generate
    <2> QED
      BY <2>2, <2>3
  <1>8. ASSUME NEW c \in Sessions, InsertObligation(c)
        PROVE  rent'[a][m] = rent[a][m]
    <2>1. CASE rent[draft[c].account][draft[c].period] = 0
      BY <1>2, <1>8, <2>1 DEF InsertObligation
    <2>2. CASE rent[draft[c].account][draft[c].period] # 0
      BY <1>8, <2>2 DEF InsertObligation
    <2> QED
      BY <2>1, <2>2
  <1>9. CASE GuidedNext
    BY <1>4, <1>5, <1>6, <1>7, <1>9 DEF GuidedNext, ChangeRent
  <1>10. CASE AdvancedNext
    BY <1>10 DEF AdvancedNext, CreateAccount, CreateSchedule, EndSchedule, EndAccount
  <1>11. CASE ObligationNext
    BY <1>8, <1>11 DEF ObligationNext, CheckObligation
  <1>12. CASE UNCHANGED vars
    BY <1>12 DEF vars
  <1> QED
    BY <1>9, <1>10, <1>11, <1>12 DEF Next

(***************************************************************************)
(* A charge is never rewritten or removed, by any command or by the        *)
(* generator, whatever the commands in flight had checked.                 *)
(***************************************************************************)
THEOREM ChargesAreFinal == Spec => RentNeverRewritten
  <1>1. Inv /\ [Next]_vars =>
          [\A a \in Accounts, m \in Periods : rent[a][m] # 0 => rent'[a][m] = rent[a][m]]_vars
    BY NextKeepsCharges
  <1> QED
    BY <1>1, SpecInv, PTL DEF Spec, RentNeverRewritten

-----------------------------------------------------------------------------
(***************************************************************************)
(* The guided commands start every schedule on the first of a month.  With *)
(* disjointness that makes generation unambiguous: of two schedules that   *)
(* touch a month the later one starts in it or before, on a first, and so  *)
(* after the earlier one has ended outside the month.                      *)
(***************************************************************************)
StartsOnFirst == \A s \in Schedules : Exists(s) => MonthStart(schedule[s].from)

GuidedInv == Inv /\ StartsOnFirst

LEMMA MonthsInOrder ==
  ASSUME NEW m \in Periods, NEW n \in Periods, FirstDay(n) <= LastDay(m)
  PROVE  FirstDay(n) <= FirstDay(m)
  <1>1. /\ m \in 1 .. Months /\ n \in 1 .. Months /\ Months \in Nat
    BY TenancyConstants DEF Periods
  <1>2. /\ m \in 0 .. Months /\ n \in 0 .. Months /\ m - 1 \in 0 .. Months
        /\ n - 1 \in 0 .. Months
    BY <1>1
  <1>3. MonthEnd[m] \in Nat /\ MonthEnd[n] \in Nat /\ MonthEnd[m - 1] \in Nat
        /\ MonthEnd[n - 1] \in Nat
    BY <1>2, TenancyConstants
  <1>4. CASE n <= m
    <2>1. CASE n = m
      BY <1>3, <2>1 DEF FirstDay
    <2>2. CASE n < m
      <3>1. MonthEnd[n - 1] < MonthEnd[m - 1]
        BY <1>1, <1>2, <2>2, TenancyConstants
      <3> QED
        BY <1>3, <3>1 DEF FirstDay
    <2> QED
      BY <1>1, <1>4, <2>1, <2>2
  <1>5. CASE n > m
    <2>1. CASE n - 1 = m
      BY <1>3, <2>1 DEF FirstDay, LastDay
    <2>2. CASE n - 1 > m
      <3>1. MonthEnd[m] < MonthEnd[n - 1]
        BY <1>2, <2>2, TenancyConstants
      <3> QED
        BY <1>3, <3>1 DEF FirstDay, LastDay
    <2> QED
      BY <1>1, <1>5, <2>1, <2>2
  <1> QED
    BY <1>1, <1>4, <1>5

LEMMA OneSource ==
  ASSUME GuidedInv
  PROVE  GenerationUnambiguous
  <1> SUFFICES ASSUME NEW m \in Periods, NEW a \in Accounts
               PROVE  Cardinality(Sources(a, m)) <= 1
    BY DEF GenerationUnambiguous, Unambiguous
  <1>1. ASSUME NEW s \in Sources(a, m), NEW t \in Sources(a, m), s # t,
               schedule[s].from <= schedule[t].from
        PROVE  FALSE
    <2>1. /\ s \in Schedules /\ t \in Schedules /\ Exists(s) /\ Exists(t)
          /\ schedule[s].account = schedule[t].account
      BY DEF Sources, Of
    <2>2. schedule[s].to >= FirstDay(m) /\ schedule[t].from <= LastDay(m)
      BY DEF Sources, Applies, Overlaps
    <2>3. PICK n \in Periods : schedule[t].from = FirstDay(n)
      BY <2>1 DEF GuidedInv, StartsOnFirst, MonthStart
    <2>4. schedule[t].from <= FirstDay(m)
      BY <2>2, <2>3, MonthsInOrder
    <2>5. ~Overlaps(schedule[s], schedule[t].from, schedule[t].to)
      BY <1>1, <2>1 DEF GuidedInv, Inv, SchedulesDisjoint
    <2>6. schedule[t].from <= schedule[t].to
      BY <2>1 DEF GuidedInv, Inv, SchedulesWithinAccount
    <2>7. /\ schedule[s].from \in Nat /\ schedule[s].to \in Nat
          /\ schedule[t].from \in Nat /\ schedule[t].to \in Nat /\ FirstDay(m) \in Nat
      BY <2>1, ScheduleDays, MonthType DEF GuidedInv, Inv
    <2> QED
      BY <1>1, <2>2, <2>4, <2>5, <2>6, <2>7 DEF Overlaps
  <1>2. \A s, t \in Sources(a, m) : s = t
    <2>1. \A s \in Sources(a, m) : schedule[s].from \in Nat
      BY ScheduleDays DEF GuidedInv, Inv, Sources, Of
    <2> QED
      BY <1>1, <2>1
  <1>3. CASE Sources(a, m) = {}
    BY <1>3, FS_EmptySet
  <1>4. CASE Sources(a, m) # {}
    <2>1. PICK s \in Sources(a, m) : TRUE
      BY <1>4
    <2>2. Sources(a, m) = {s}
      BY <1>2, <2>1
    <2> QED
      BY <2>2, FS_Singleton
  <1> QED
    BY <1>3, <1>4

LEMMA GuidedInvStep ==
  ASSUME GuidedInv, [GuidedNext \/ ObligationNext]_vars
  PROVE  GuidedInv'
  <1>1. Inv'
    <2>1. [Next]_vars
      BY DEF Next
    <2> QED
      BY <2>1, NextInv DEF GuidedInv
  <1>2. ASSUME UNCHANGED schedule
        PROVE  StartsOnFirst'
    BY <1>2 DEF GuidedInv, StartsOnFirst, Exists
  <1>3. ASSUME NEW a \in Accounts, NEW s \in Schedules, NEW from \in {0} \cup Days,
               NEW to \in Days \cup {Forever}, NEW first \in {0} \cup Amounts,
               NEW amount \in Amounts, NEW effective \in Days,
               SetupWithRent(a, s, from, to, first, amount, effective)
        PROVE  StartsOnFirst'
    <2>1. MonthStart(effective) /\ schedule' = WithRow(s, a, effective, to, amount)
      BY <1>3 DEF SetupWithRent
    <2>2. /\ schedule'[s].from = effective
          /\ \A t \in Schedules \ {s} : schedule'[t] = schedule[t]
      <3>1. effective \in 0 .. Forever /\ to \in 0 .. Forever
        BY DayType
      <3>2. Inv
        BY DEF GuidedInv
      <3> DEFINE r == [account |-> a, from |-> effective, to |-> to, amount |-> amount]
      <3>3. schedule'[s] = r /\ \A t \in Schedules \ {s} : schedule'[t] = schedule[t]
        BY <2>1, <3>1, <3>2, NewRow
      <3> QED
        BY <3>3
    <2> QED
      BY <2>1, <2>2 DEF GuidedInv, StartsOnFirst, Exists
  <1>4. ASSUME NEW a \in Accounts, NEW s \in Schedules, NEW amount \in Amounts,
               NEW effective \in Days, ChangeRent(a, s, amount, effective)
        PROVE  StartsOnFirst'
    <2>1. PICK p \in Schedules : RentChanged(a, s, p, amount, effective)
      BY <1>4, ChangeRentRows DEF GuidedInv
    <2>2. /\ Exists(p) /\ schedule'[s].from = effective
          /\ schedule'[p].from = schedule[p].from
          /\ \A t \in Schedules \ {s, p} : schedule'[t] = schedule[t]
      BY <2>1 DEF RentChanged
    <2>3. MonthStart(effective)
      BY <1>4 DEF ChangeRent
    <2> QED
      BY <2>2, <2>3 DEF GuidedInv, StartsOnFirst, Exists
  <1>5. ASSUME NEW a \in Accounts, NEW d \in Days, NEW final \in {0} \cup Amounts,
               EndTenancy(a, d, final)
        PROVE  StartsOnFirst'
    BY <1>5, EndTenancyRows DEF GuidedInv, StartsOnFirst
  <1>6. CASE GuidedNext
    BY <1>2, <1>3, <1>4, <1>5, <1>6, <1>1 DEF GuidedNext, SetupWithoutRent, Generate, GuidedInv
  <1>7. CASE ObligationNext
    BY <1>1, <1>2, <1>7 DEF ObligationNext, CheckObligation, InsertObligation, GuidedInv
  <1>8. CASE UNCHANGED vars
    BY <1>1, <1>2, <1>8 DEF vars, GuidedInv
  <1> QED
    BY <1>6, <1>7, <1>8

(***************************************************************************)
(* With the guided commands the monthly generator is never refused, for    *)
(* any number of accounts.                                                 *)
(***************************************************************************)
THEOREM GenerationNeverRefused == GuidedSpec => []GenerationUnambiguous
  <1>1. Init => GuidedInv
    BY InitInv DEF Init, GuidedInv, StartsOnFirst, Exists
  <1>2. GuidedInv /\ [GuidedNext \/ ObligationNext]_vars => GuidedInv'
    BY GuidedInvStep
  <1>3. GuidedInv => GenerationUnambiguous
    BY OneSource
  <1> QED
    BY <1>1, <1>2, <1>3, PTL DEF GuidedSpec

-----------------------------------------------------------------------------
(* With advanced commands mixed in *)

(***************************************************************************)
(* Recording which commands were used changes nothing in the tables: what  *)
(* Spec proves above holds of every behaviour of UseSpec.                  *)
(***************************************************************************)
LEMMA UseImplements == UseSpec => Spec
  <1>1. UseInit => Init
    BY DEF UseInit
  <1>2. [UseNext]_useVars => [Next]_vars
    BY DEF UseNext, Next, useVars
  <1> QED
    BY <1>1, <1>2, PTL DEF UseSpec, Spec

UseInv == Inv /\ (~edited => GuidedInv) /\ edited \in BOOLEAN

LEMMA UseInvStep ==
  ASSUME UseInv, [UseNext]_useVars
  PROVE  UseInv'
  <1>1. Inv'
    <2>1. [Next]_vars
      BY DEF UseNext, Next, useVars
    <2> QED
      BY <2>1, NextInv DEF UseInv
  <1>2. CASE (GuidedNext \/ ObligationNext) /\ UNCHANGED edited
    <2>1. [GuidedNext \/ ObligationNext]_vars
      BY <1>2
    <2>2. ~edited => GuidedInv'
      BY <2>1, GuidedInvStep DEF UseInv
    <2> QED
      BY <1>1, <1>2, <2>2 DEF UseInv
  <1>3. CASE AdvancedNext /\ edited' = TRUE
    BY <1>1, <1>3 DEF UseInv
  <1>4. CASE UNCHANGED useVars
    <2>1. UNCHANGED vars /\ UNCHANGED edited
      BY <1>4 DEF useVars
    <2>2. ~edited => GuidedInv'
      BY <2>1, GuidedInvStep DEF UseInv
    <2> QED
      BY <1>1, <2>1, <2>2 DEF UseInv
  <1> QED
    BY <1>2, <1>3, <1>4 DEF UseNext

(***************************************************************************)
(* However the commands are mixed, until the first advanced one is used    *)
(* every month has at most one source, for any number of accounts.         *)
(***************************************************************************)
THEOREM GuidedNeverRefused == UseSpec => []GuidedUnambiguous
  <1>1. UseInit => UseInv
    BY InitInv DEF UseInit, Init, UseInv, GuidedInv, StartsOnFirst, Exists
  <1>2. UseInv /\ [UseNext]_useVars => UseInv'
    BY UseInvStep
  <1>3. UseInv => GuidedUnambiguous
    BY OneSource DEF UseInv, GuidedUnambiguous
  <1> QED
    BY <1>1, <1>2, <1>3, PTL DEF UseSpec

-----------------------------------------------------------------------------
(* Months that a tenancy end closes *)

(***************************************************************************)
(* An account with a closed month exists, so that setup cannot give it a   *)
(* new range; and all its schedules end before each closed month.          *)
(***************************************************************************)
EndsBefore(a) ==
    /\ closed[a] # {} => account[a].open
    /\ \A m \in closed[a], s \in Schedules :
         Exists(s) /\ schedule[s].account = a => schedule[s].to < FirstDay(m)

ClosedForGood == \A a \in Accounts : EndsBefore(a)

(***************************************************************************)
(* What keeps the closed months of one account: each of its schedules ends *)
(* no later than one that it had.                                          *)
(***************************************************************************)
LEMMA NoLaterEnd ==
  ASSUME Inv, NEW a \in Accounts, EndsBefore(a), closed'[a] \subseteq closed[a],
         closed'[a] # {} /\ account[a].open => account'[a].open,
         \A t \in Schedules : Exists(t)' /\ schedule'[t].account = a /\ closed'[a] # {} =>
           \E u \in Schedules : /\ Exists(u) /\ schedule[u].account = a
                                /\ schedule'[t].to \in Nat /\ schedule'[t].to <= schedule[u].to
  PROVE  EndsBefore(a)'
  <1>1. ASSUME NEW m \in closed'[a], NEW t \in Schedules, Exists(t)', schedule'[t].account = a
        PROVE  schedule'[t].to < FirstDay(m)
    <2>1. PICK u \in Schedules : /\ Exists(u) /\ schedule[u].account = a
                                 /\ schedule'[t].to \in Nat /\ schedule'[t].to <= schedule[u].to
      BY <1>1
    <2>2. m \in closed[a] /\ m \in Periods
      BY DEF Inv, TypeOK
    <2>3. schedule[u].to < FirstDay(m)
      BY <2>1, <2>2 DEF EndsBefore
    <2>4. schedule[u].to \in Nat /\ FirstDay(m) \in Nat
      BY <2>2, MonthType, ScheduleDays DEF Inv
    <2> QED
      BY <2>1, <2>3, <2>4
  <1>2. closed'[a] # {} => account'[a].open
    BY DEF EndsBefore
  <1> QED
    BY <1>1, <1>2 DEF EndsBefore, FirstDay

LEMMA EarlierEnds ==
  ASSUME Inv, ClosedForGood, UNCHANGED closed,
         \A a \in Accounts : account[a].open => account'[a].open,
         \A t \in Schedules : Exists(t)' /\ closed[schedule'[t].account] # {} =>
           \E u \in Schedules :
             /\ Exists(u) /\ schedule[u].account = schedule'[t].account
             /\ schedule'[t].to \in Nat /\ schedule'[t].to <= schedule[u].to
  PROVE  ClosedForGood'
  <1>1. ASSUME NEW a \in Accounts
        PROVE  EndsBefore(a)'
    BY NoLaterEnd DEF ClosedForGood
  <1> QED
    BY <1>1 DEF ClosedForGood

LEMMA ClosedStep ==
  ASSUME Inv, ClosedForGood, [Next]_vars
  PROVE  ClosedForGood'
  <1>0. \A s \in Schedules : schedule[s].from \in Nat /\ schedule[s].to \in Nat
    BY ScheduleDays DEF Inv
  <1>1. ASSUME UNCHANGED <<schedule, closed>>,
               \A a \in Accounts : account[a].open => account'[a].open
        PROVE  ClosedForGood'
    BY <1>0, <1>1, EarlierEnds DEF Exists
  <1>2. ASSUME NEW a \in Accounts, NEW from \in {0} \cup Days, NEW to \in Days \cup {Forever},
               NewAccount(a, from, to)
        PROVE  closed[a] = {} /\ \A b \in Accounts : account[b].open => account'[b].open
    BY <1>2, NewAccountRow DEF ClosedForGood, EndsBefore, NewAccount
  <1>3. ASSUME NEW a \in Accounts, NEW s \in Schedules, NEW from \in {0} \cup Days,
               NEW to \in Days \cup {Forever}, NEW first \in {0} \cup Amounts,
               NEW amount \in Amounts, NEW effective \in Days,
               SetupWithRent(a, s, from, to, first, amount, effective)
        PROVE  ClosedForGood'
    <2>1. NewAccount(a, from, to) /\ UNCHANGED closed
          /\ schedule' = WithRow(s, a, effective, to, amount)
      BY <1>3 DEF SetupWithRent
    <2>2. effective \in 0 .. Forever /\ to \in 0 .. Forever
      BY DayType
    <2> DEFINE r == [account |-> a, from |-> effective, to |-> to, amount |-> amount]
    <2>3. schedule'[s] = r /\ \A t \in Schedules \ {s} : schedule'[t] = schedule[t]
      BY <2>1, <2>2, NewRow
    <2>4. schedule'[s].account = a
      BY <2>3
    <2> HIDE DEF r
    <2>5. \A t \in Schedules : Exists(t)' /\ closed[schedule'[t].account] # {} =>
            \E u \in Schedules :
              /\ Exists(u) /\ schedule[u].account = schedule'[t].account
              /\ schedule'[t].to \in Nat /\ schedule'[t].to <= schedule[u].to
      BY <1>0, <1>2, <2>1, <2>3, <2>4 DEF Exists
    <2> QED
      BY <1>2, <2>1, <2>5, EarlierEnds
  <1>4. ASSUME NEW a \in Accounts, NEW s \in Schedules, NEW amount \in Amounts,
               NEW effective \in Days, ChangeRent(a, s, amount, effective)
        PROVE  ClosedForGood'
    <2>1. PICK p \in Schedules : RentChanged(a, s, p, amount, effective)
      BY <1>4, ChangeRentRows
    <2>2. /\ Exists(p) /\ schedule[p].account = a /\ effective <= schedule[p].to
          /\ schedule'[s].account = a /\ schedule'[s].to = schedule[p].to
          /\ schedule'[p].account = a /\ schedule'[p].to = effective - 1
          /\ \A t \in Schedules \ {s, p} : schedule'[t] = schedule[t]
      BY <2>1 DEF RentChanged
    <2>3. effective - 1 \in Nat /\ effective \in Nat
      BY DayType DEF Days
    <2>4. \A t \in Schedules : Exists(t)' =>
            \E u \in Schedules :
              /\ Exists(u) /\ schedule[u].account = schedule'[t].account
              /\ schedule'[t].to \in Nat /\ schedule'[t].to <= schedule[u].to
      BY <1>0, <2>2, <2>3 DEF Exists
    <2>5. UNCHANGED <<account, closed>>
      BY <1>4 DEF ChangeRent
    <2> QED
      BY <2>4, <2>5, EarlierEnds
  <1>5. ASSUME NEW a \in Accounts, NEW d \in Days, NEW final \in {0} \cup Amounts,
               EndTenancy(a, d, final)
        PROVE  ClosedForGood'
    <2>1. /\ account' = [account EXCEPT ![a].to = d] /\ account[a].open
          /\ closed' = [closed EXCEPT ![a] = {m \in Periods : FirstDay(m) > Cutoff(d)}]
      BY <1>5 DEF EndTenancy
    <2>2. \A b \in Accounts : account'[b].open = account[b].open
      BY <2>1 DEF Inv, TypeOK
    <2>3. \A t \in Schedules :
            /\ Exists(t)' <=> Exists(t)
            /\ schedule'[t].account = schedule[t].account
            /\ schedule'[t].to \in Nat /\ schedule'[t].to <= schedule[t].to
            /\ t \in Of(a) => schedule'[t].to <= Cutoff(d)
      BY <1>5, EndTenancyRows, DayType
    <2>4. ASSUME NEW b \in Accounts
          PROVE  EndsBefore(b)'
      <3>1. CASE b = a
        <4>1. ASSUME NEW m \in closed'[a], NEW t \in Schedules, Exists(t)',
                     schedule'[t].account = a
              PROVE  schedule'[t].to < FirstDay(m)
          <5>1. m \in Periods /\ FirstDay(m) > Cutoff(d)
            BY <2>1 DEF Inv, TypeOK
          <5>2. schedule'[t].to <= Cutoff(d) /\ schedule'[t].to \in Nat
            BY <2>3, <4>1 DEF Of
          <5> QED
            BY <5>1, <5>2, MonthType, CutoffBound, DayType
        <4> QED
          BY <2>1, <2>2, <3>1, <4>1 DEF EndsBefore, FirstDay
      <3>2. CASE b # a
        <4>1. closed'[b] = closed[b]
          BY <2>1, <3>2 DEF Inv, TypeOK
        <4> QED
          BY <2>2, <2>3, <4>1, NoLaterEnd DEF ClosedForGood
      <3> QED
        BY <3>1, <3>2
    <2> QED
      BY <2>4 DEF ClosedForGood
  <1>6. ASSUME NEW a \in Accounts, NEW s \in Schedules, NEW from \in Days,
               NEW to \in Days \cup {Forever}, NEW amount \in Amounts,
               CreateSchedule(a, s, from, to, amount)
        PROVE  ClosedForGood'
    <2>1. /\ schedule' = WithRow(s, a, from, to, amount) /\ UNCHANGED account
          /\ closed' = [closed EXCEPT ![a] = {}]
      BY <1>6 DEF CreateSchedule
    <2>2. from \in 0 .. Forever /\ to \in 0 .. Forever
      BY DayType
    <2> DEFINE r == [account |-> a, from |-> from, to |-> to, amount |-> amount]
    <2>3. schedule'[s] = r /\ \A t \in Schedules \ {s} : schedule'[t] = schedule[t]
      BY <2>1, <2>2, NewRow
    <2>4. schedule'[s].account = a
      BY <2>3
    <2> HIDE DEF r
    <2>5. closed'[a] = {} /\ \A b \in Accounts \ {a} : closed'[b] = closed[b]
      BY <2>1 DEF Inv, TypeOK
    <2>6. ASSUME NEW b \in Accounts
          PROVE  EndsBefore(b)'
      BY <1>0, <2>1, <2>3, <2>4, <2>5, NoLaterEnd DEF ClosedForGood, Exists
    <2> QED
      BY <2>6 DEF ClosedForGood
  <1>7. ASSUME NEW s \in Schedules, NEW d \in Days, EndSchedule(s, d)
        PROVE  ClosedForGood'
    <2> DEFINE a == schedule[s].account
    <2>1. /\ Exists(s) /\ schedule' = [schedule EXCEPT ![s].to = d] /\ UNCHANGED account
          /\ closed' = IF d > schedule[s].to THEN [closed EXCEPT ![a] = {}] ELSE closed
      BY <1>7 DEF EndSchedule
    <2>2. a \in Accounts
      BY <2>1 DEF Inv, ScheduleReferences
    <2>3. /\ schedule'[s].account = a /\ schedule'[s].to = d /\ d \in Nat
          /\ \A t \in Schedules \ {s} : schedule'[t] = schedule[t]
      BY <2>1, DayType DEF Inv, TypeOK, Days
    <2>4. \A b \in Accounts \ {a} : closed'[b] = closed[b]
      BY <2>1 DEF Inv, TypeOK
    <2>5. closed'[a] \in {closed[a], {}} /\ (d > schedule[s].to => closed'[a] = {})
      BY <2>1, <2>2 DEF Inv, TypeOK
    <2> HIDE DEF a
    <2>6. ASSUME NEW b \in Accounts
          PROVE  EndsBefore(b)'
      <3>1. \A t \in Schedules : Exists(t)' /\ schedule'[t].account = b /\ closed'[b] # {} =>
              \E u \in Schedules :
                /\ Exists(u) /\ schedule[u].account = b
                /\ schedule'[t].to \in Nat /\ schedule'[t].to <= schedule[u].to
        <4>1. schedule[s].account = a
          BY DEF a
        <4> QED
          BY <1>0, <2>1, <2>3, <2>5, <4>1 DEF Exists
      <3>2. closed'[b] \subseteq closed[b]
        BY <2>4, <2>5
      <3> QED
        BY <2>1, <3>1, <3>2, NoLaterEnd DEF ClosedForGood
    <2> QED
      BY <2>6 DEF ClosedForGood
  <1>8. ASSUME NEW a \in Accounts, NEW d \in Days, EndAccount(a, d)
        PROVE  ClosedForGood'
    <2>1. account' = [account EXCEPT ![a].to = d] /\ UNCHANGED <<schedule, closed>>
      BY <1>8 DEF EndAccount
    <2>2. \A b \in Accounts : account'[b].open = account[b].open
      BY <2>1 DEF Inv, TypeOK
    <2> QED
      BY <1>1, <2>1, <2>2
  <1>9. CASE GuidedNext
    BY <1>1, <1>2, <1>3, <1>4, <1>5, <1>9 DEF GuidedNext, SetupWithoutRent, Generate
  <1>10. CASE AdvancedNext
    BY <1>1, <1>2, <1>6, <1>7, <1>8, <1>10 DEF AdvancedNext, CreateAccount
  <1>11. CASE ObligationNext \/ UNCHANGED vars
    BY <1>1, <1>11 DEF ObligationNext, CheckObligation, InsertObligation, vars
  <1> QED
    BY <1>9, <1>10, <1>11 DEF Next

(***************************************************************************)
(* Once a tenancy end has closed a month, no rent change, setup, obligation *)
(* or repeated end makes a schedule apply to it again; only adding or      *)
(* extending a schedule by hand reopens it.                                *)
(***************************************************************************)
THEOREM EndedMonthsStayEnded == Spec => []ClosedMonthsStayClosed
  <1>1. Init => Inv /\ ClosedForGood
    BY InitInv DEF Init, ClosedForGood, EndsBefore
  <1>2. Inv /\ ClosedForGood /\ [Next]_vars => (Inv /\ ClosedForGood)'
    BY NextInv, ClosedStep
  <1>3. Inv /\ ClosedForGood => ClosedMonthsStayClosed
    <2> SUFFICES ASSUME Inv, ClosedForGood, NEW a \in Accounts, NEW m \in closed[a],
                        NEW s \in Sources(a, m)
                 PROVE  FALSE
      BY DEF ClosedMonthsStayClosed
    <2>1. s \in Schedules /\ Exists(s) /\ schedule[s].account = a
          /\ schedule[s].to >= FirstDay(m)
      BY DEF Sources, Of, Applies, Overlaps
    <2>2. schedule[s].to < FirstDay(m) /\ m \in Periods
      BY <2>1 DEF ClosedForGood, EndsBefore, Inv, TypeOK
    <2> QED
      BY <2>1, <2>2, MonthType, ScheduleDays DEF Inv
  <1> QED
    BY <1>1, <1>2, <1>3, PTL DEF Spec

-----------------------------------------------------------------------------
(* Months that stay charged *)

LEMMA GuidedKeepsPlan ==
  ASSUME Inv, [GuidedNext \/ ObligationNext]_vars, NEW a \in Accounts, NEW m \in Periods,
         Sources(a, m) # {}
  PROVE  Sources(a, m)' # {} \/ m \in closed'[a]
  <1>1. PICK s \in Sources(a, m) : TRUE
    OBVIOUS
  <1>2. /\ s \in Schedules /\ Exists(s) /\ schedule[s].account = a
        /\ schedule[s].from <= LastDay(m) /\ schedule[s].to >= FirstDay(m)
        /\ account[a].from <= LastDay(m) /\ account[a].to >= FirstDay(m)
    BY DEF Sources, Of, Applies, Overlaps
  <1>3. ASSUME NEW t \in Schedules, Exists(t)', schedule'[t].account = a,
               schedule'[t].from <= LastDay(m), schedule'[t].to >= FirstDay(m),
               account'[a].from <= LastDay(m), account'[a].to >= FirstDay(m)
        PROVE  Sources(a, m)' # {}
    BY <1>3 DEF Sources, Of, Applies, Overlaps, FirstDay, LastDay
  <1>4. ASSUME schedule'[s] = schedule[s], account'[a] = account[a]
        PROVE  Sources(a, m)' # {}
    BY <1>2, <1>3, <1>4 DEF Exists
  <1>5. /\ schedule[s].from \in Nat /\ schedule[s].to \in Nat
        /\ FirstDay(m) \in Nat /\ LastDay(m) \in Nat /\ FirstDay(m) <= LastDay(m)
    BY <1>2, ScheduleDays, MonthType DEF Inv
  <1>6. ASSUME NEW b \in Accounts, NEW from \in {0} \cup Days, NEW to \in Days \cup {Forever},
               NewAccount(b, from, to)
        PROVE  account'[a] = account[a]
    BY <1>2, <1>6, NewAccountRow
  <1>7. ASSUME NEW b \in Accounts, NEW x \in Schedules, NEW from \in {0} \cup Days,
               NEW to \in Days \cup {Forever}, NEW first \in {0} \cup Amounts,
               NEW amount \in Amounts, NEW effective \in Days,
               SetupWithRent(b, x, from, to, first, amount, effective)
        PROVE  Sources(a, m)' # {}
    <2>1. NewAccount(b, from, to) /\ ~Exists(x)
          /\ schedule' = WithRow(x, b, effective, to, amount)
      BY <1>7 DEF SetupWithRent
    <2>2. s # x
      BY <1>2, <2>1
    <2>3. schedule'[s] = schedule[s]
      BY <1>2, <2>1, <2>2 DEF WithRow, Inv, TypeOK
    <2> QED
      BY <1>4, <1>6, <2>1, <2>3
  <1>8. ASSUME NEW b \in Accounts, NEW x \in Schedules, NEW amount \in Amounts,
               NEW effective \in Days, ChangeRent(b, x, amount, effective)
        PROVE  Sources(a, m)' # {}
    <2>1. PICK p \in Schedules : RentChanged(b, x, p, amount, effective)
      BY <1>8, ChangeRentRows
    <2>2. /\ p # x /\ schedule[p].account = b
          /\ schedule'[x].account = b /\ schedule'[x].from = effective
          /\ schedule'[x].to = schedule[p].to
          /\ schedule'[p].account = b /\ schedule'[p].from = schedule[p].from
          /\ schedule'[p].to = effective - 1
          /\ \A t \in Schedules \ {x, p} : schedule'[t] = schedule[t]
      BY <2>1 DEF RentChanged
    <2>3. ~Exists(x) /\ UNCHANGED account
      BY <1>8 DEF ChangeRent
    <2>4. CASE s # p
      BY <1>2, <1>4, <2>2, <2>3, <2>4
    <2>5. CASE s = p
      <3>1. b = a /\ a # "none"
        BY <1>2, <2>2, <2>5, NoRows
      <3>2. Exists(p)' /\ Exists(x)'
        BY <2>2, <3>1, NoRows DEF Exists
      <3>3. effective \in Nat
        BY DayType DEF Days
      <3>4. CASE effective <= LastDay(m)
        BY <1>2, <1>3, <2>2, <2>3, <2>5, <3>1, <3>2, <3>4
      <3>5. CASE effective > LastDay(m)
        <4>1. schedule'[p].to >= FirstDay(m)
          BY <1>5, <2>2, <3>3, <3>5
        <4> QED
          BY <1>2, <1>3, <2>2, <2>3, <2>5, <3>1, <3>2, <4>1
      <3> QED
        BY <1>5, <3>3, <3>4, <3>5
    <2> QED
      BY <2>4, <2>5
  <1>9. ASSUME NEW b \in Accounts, NEW d \in Days, NEW final \in {0} \cup Amounts,
               EndTenancy(b, d, final)
        PROVE  Sources(a, m)' # {} \/ m \in closed'[a]
    <2>1. /\ account' = [account EXCEPT ![b].to = d]
          /\ closed' = [closed EXCEPT ![b] = {n \in Periods : FirstDay(n) > Cutoff(d)}]
          /\ schedule'[s] = IF s \in Of(b) /\ schedule[s].to > Cutoff(d)
                            THEN [schedule[s] EXCEPT !.to = Cutoff(d)] ELSE schedule[s]
      BY <1>2, <1>9 DEF EndTenancy
    <2>2. CASE b # a
      <3>1. schedule'[s] = schedule[s] /\ account'[a] = account[a]
        BY <1>2, <2>1, <2>2 DEF Of, Inv, TypeOK
      <3> QED
        BY <1>4, <3>1
    <2>3. CASE b = a /\ FirstDay(m) > Cutoff(d)
      BY <2>1, <2>3 DEF Inv, TypeOK
    <2>4. CASE b = a /\ ~(FirstDay(m) > Cutoff(d))
      <3>1. /\ Exists(s)' /\ schedule'[s].account = a
            /\ schedule'[s].from = schedule[s].from
        BY <1>2, <1>9, EndTenancyRows
      <3>2. Cutoff(d) \in Nat /\ d \in Nat /\ FirstDay(m) <= Cutoff(d) /\ FirstDay(m) <= d
        BY <1>5, <2>4, CutoffBound, DayType DEF Days
      <3>3. schedule'[s].to >= FirstDay(m)
        <4>1. [schedule[s] EXCEPT !.to = Cutoff(d)].to = Cutoff(d)
          BY <1>2, ScheduleField DEF Inv
        <4> QED
          BY <1>2, <2>1, <3>2, <4>1
      <3>4. account'[a].from = account[a].from /\ account'[a].to = d
        BY <2>1, <2>4 DEF Inv, TypeOK
      <3> QED
        BY <1>2, <1>3, <3>1, <3>2, <3>3, <3>4
    <2> QED
      BY <2>2, <2>3, <2>4
  <1>10. CASE GuidedNext
    BY <1>2, <1>4, <1>6, <1>7, <1>8, <1>9, <1>10 DEF GuidedNext, SetupWithoutRent, Generate
  <1>11. CASE ObligationNext
    BY <1>4, <1>11 DEF ObligationNext, CheckObligation, InsertObligation
  <1>12. CASE UNCHANGED vars
    BY <1>4, <1>12 DEF vars
  <1> QED
    BY <1>10, <1>11, <1>12

(***************************************************************************)
(* Until the first advanced command, a month that some schedule charges is *)
(* not lost: a rent change splits a schedule without a gap, and a tenancy  *)
(* end gives up just the months it closes.                                 *)
(***************************************************************************)
THEOREM GuidedKeepsCharging == UseSpec => GuidedPlanKept
  <1>1. Inv /\ [UseNext]_useVars =>
          [~edited' =>
             \A a \in Accounts, m \in Periods :
               Sources(a, m) # {} => Sources(a, m)' # {} \/ m \in closed'[a]]_useVars
    <2> SUFFICES ASSUME Inv, UseNext, ~edited', NEW a \in Accounts, NEW m \in Periods,
                        Sources(a, m) # {}
                 PROVE  Sources(a, m)' # {} \/ m \in closed'[a]
      OBVIOUS
    <2>1. [GuidedNext \/ ObligationNext]_vars
      BY DEF UseNext
    <2> QED
      BY <2>1, GuidedKeepsPlan
  <1> QED
    BY <1>1, UseImplements, SpecInv, PTL DEF UseSpec, GuidedPlanKept
=============================================================================
