------------------------------ MODULE Tenancy ------------------------------
(***************************************************************************)
(* Rent accounts, their recurring schedules and the monthly rent those     *)
(* schedules charge: guided setup, rent change and tenancy end, the        *)
(* advanced commands that edit accounts and schedules directly, and the    *)
(* monthly generator the daily job runs.                                   *)
(*                                                                         *)
(* Checked writes hold SQLite's writer lock from their first read to their *)
(* commit and are one action each.  "obligation add" reads the account in  *)
(* a connection of its own and inserts without the lock: it is two.        *)
(***************************************************************************)
EXTENDS Integers, FiniteSets

CONSTANTS
    Accounts,      \* ids of rent accounts
    Schedules,     \* ids of rent schedules
    Sessions,      \* obligation add commands that may overlap
    Months,        \* number of months in the calendar
    MonthEnd,      \* the last day of each month; MonthEnd[0] is the day before
    Amounts        \* rents in cents

ASSUME TenancyConstants ==
    /\ Months \in Nat
    /\ MonthEnd \in [0 .. Months -> Nat]
    /\ MonthEnd[0] = 0
    /\ \A m, n \in 0 .. Months : m < n => MonthEnd[m] < MonthEnd[n]
    /\ \A d \in 1 .. MonthEnd[Months] :
         \E m \in 1 .. Months : MonthEnd[m - 1] < d /\ d <= MonthEnd[m]
    /\ "none" \notin Accounts
    /\ Amounts \subseteq Nat \ {0}

VARIABLES
    account,       \* rent_accounts: the active range of each
    schedule,      \* rent_schedules
    rent,          \* rent_obligations by account and period, 0 while missing
    draft,         \* what each obligation add has checked and will insert
    closed         \* history: the months a tenancy end left without a schedule

vars == <<account, schedule, rent, draft, closed>>

-----------------------------------------------------------------------------
(***************************************************************************)
(* Dates are numbered.  A missing active_from is day 0, before them all,   *)
(* a missing active_to is Forever, after them all: every comparison in the *)
(* code lets NULL through on exactly that side.                            *)
(***************************************************************************)
Periods    == 1 .. Months
Days       == 1 .. MonthEnd[Months]
Forever    == MonthEnd[Months] + 1
FirstDay(m) == MonthEnd[m - 1] + 1
LastDay(m)  == MonthEnd[m]
Period(d)   == CHOOSE m \in Periods : FirstDay(m) <= d /\ d <= LastDay(m)
MonthStart(d) == \E m \in Periods : d = FirstDay(m)
MonthStop(d)  == \E m \in Periods : d = LastDay(m)

NoAccount  == [open |-> FALSE, from |-> 0, to |-> 0]
NoSchedule == [account |-> "none", from |-> 0, to |-> 0, amount |-> 0]
NoDraft    == [account |-> "none", period |-> 0, amount |-> 0]

Exists(s)   == schedule[s] # NoSchedule
Of(a)       == {s \in Schedules : Exists(s) /\ schedule[s].account = a}
Overlaps(x, from, to) == x.from <= to /\ x.to >= from

(***************************************************************************)
(* _list_generation_sources: a schedule applies to a month when its range  *)
(* and that of its account both touch it, be it for a day.                 *)
(***************************************************************************)
Applies(s, m) ==
    /\ Exists(s)
    /\ Overlaps(schedule[s], FirstDay(m), LastDay(m))
    /\ Overlaps(account[schedule[s].account], FirstDay(m), LastDay(m))

Sources(a, m)   == {s \in Of(a) : Applies(s, m)}
Unambiguous(m) == \A a \in Accounts : Cardinality(Sources(a, m)) <= 1
Missing(a, m)   == Sources(a, m) # {} /\ rent[a][m] = 0

WithRow(s, a, from, to, amount) ==
    [schedule EXCEPT ![s] = [account |-> a, from |-> from, to |-> to, amount |-> amount]]

-----------------------------------------------------------------------------
Init ==
    /\ account = [a \in Accounts |-> NoAccount]
    /\ schedule = [s \in Schedules |-> NoSchedule]
    /\ rent = [a \in Accounts |-> [m \in Periods |-> 0]]
    /\ draft = [c \in Sessions |-> NoDraft]
    /\ closed = [a \in Accounts |-> {}]

(***************************************************************************)
(* setup tenancy --apply: the account, an optional explicit first-month    *)
(* charge and an optional schedule from the first of a month.  A charge    *)
(* for the month the schedule starts in is refused, and a tenancy that     *)
(* starts inside a month must name a later month for its schedule.         *)
(***************************************************************************)
NewAccount(a, from, to) ==
    /\ ~account[a].open
    /\ from <= to
    /\ account' = [account EXCEPT ![a] = [open |-> TRUE, from |-> from, to |-> to]]

SetupWithoutRent(a, from, to, first) ==
    /\ NewAccount(a, from, to)
    /\ first = 0 \/ from > 0
    /\ rent' = IF first = 0 THEN rent ELSE [rent EXCEPT ![a][Period(from)] = first]
    /\ UNCHANGED <<schedule, draft, closed>>

SetupWithRent(a, s, from, to, first, amount, effective) ==
    /\ NewAccount(a, from, to)
    /\ ~Exists(s)
    /\ from > 0
    /\ MonthStart(effective)
    /\ from <= effective /\ effective <= to
    /\ first = 0 \/ Period(effective) # Period(from)
    /\ schedule' = WithRow(s, a, effective, to, amount)
    /\ rent' = IF first = 0 THEN rent ELSE [rent EXCEPT ![a][Period(from)] = first]
    /\ UNCHANGED <<draft, closed>>

(* Mutants of ChangeRent: any day of a month, the replacement open to the account's end, and a month late. *)
ChangeRentAnyDay(a, s, amount, effective) ==
    /\ account[a].open
    /\ account[a].from <= effective /\ effective <= account[a].to
    /\ rent[a][Period(effective)] = 0
    /\ ~Exists(s)
    /\ \E p \in Of(a) :
         /\ {t \in Of(a) : Overlaps(schedule[t], effective - 1, effective - 1)} = {p}
         /\ effective <= schedule[p].to
         /\ \A t \in Of(a) \ {p} : ~Overlaps(schedule[t], effective, schedule[p].to)
         /\ schedule' = [WithRow(s, a, effective, schedule[p].to, amount)
                           EXCEPT ![p].to = effective - 1]
    /\ UNCHANGED <<account, rent, draft, closed>>

ChangeRentToAccountEnd(a, s, amount, effective) ==
    /\ account[a].open
    /\ MonthStart(effective)
    /\ account[a].from <= effective /\ effective <= account[a].to
    /\ rent[a][Period(effective)] = 0
    /\ ~Exists(s)
    /\ \E p \in Of(a) :
         /\ {t \in Of(a) : Overlaps(schedule[t], effective - 1, effective - 1)} = {p}
         /\ \A t \in Of(a) \ {p} : ~Overlaps(schedule[t], effective, schedule[p].to)
         /\ schedule' = [WithRow(s, a, effective, account[a].to, amount)
                           EXCEPT ![p].to = effective - 1]
    /\ UNCHANGED <<account, rent, draft, closed>>

ChangeRentNextMonth(a, s, amount, effective) ==
    /\ account[a].open
    /\ MonthStart(effective)
    /\ account[a].from <= effective /\ effective <= account[a].to
    /\ rent[a][Period(effective)] = 0
    /\ ~Exists(s)
    /\ \E p \in Of(a) :
         /\ {t \in Of(a) : Overlaps(schedule[t], effective - 1, effective - 1)} = {p}
         /\ effective <= schedule[p].to
         /\ \A t \in Of(a) \ {p} : ~Overlaps(schedule[t], effective, schedule[p].to)
         /\ schedule' = [WithRow(s, a, LastDay(Period(effective)) + 1, schedule[p].to, amount)
                           EXCEPT ![p].to = effective - 1]
    /\ UNCHANGED <<account, rent, draft, closed>>

(***************************************************************************)
(* rent change, effective on the first of a month that has no charge yet:  *)
(* the one schedule in force on the day before ends there and a new one    *)
(* takes over its remaining range, which must not be empty (a CHECK of the *)
(* table) nor hold another schedule.                                       *)
(***************************************************************************)
ChangeRent(a, s, amount, effective) ==
    /\ account[a].open
    /\ MonthStart(effective)
    /\ account[a].from <= effective /\ effective <= account[a].to
    /\ rent[a][Period(effective)] = 0
    /\ ~Exists(s)
    /\ \E p \in Of(a) :
         /\ {t \in Of(a) : Overlaps(schedule[t], effective - 1, effective - 1)} = {p}
         /\ effective <= schedule[p].to
         /\ \A t \in Of(a) \ {p} : ~Overlaps(schedule[t], effective, schedule[p].to)
         /\ schedule' = [WithRow(s, a, effective, schedule[p].to, amount)
                           EXCEPT ![p].to = effective - 1]
    /\ UNCHANGED <<account, rent, draft, closed>>

(***************************************************************************)
(* tenancy end --apply on day d.  Inside a month the owner states the last *)
(* month's rent, or 0 for none, and the schedules end with the month       *)
(* before; on a month's last day they end with the account.                *)
(***************************************************************************)
Cutoff(d) == IF MonthStop(d) THEN d ELSE FirstDay(Period(d)) - 1

EndTenancy(a, d, final) ==
    /\ account[a].open
    /\ account[a].from <= d /\ d <= account[a].to
    /\ \A s \in Of(a) : schedule[s].from <= Cutoff(d)
    /\ MonthStop(d) => final = 0
    /\ Cutoff(d) < d => rent[a][Period(d)] = 0
    /\ account' = [account EXCEPT ![a].to = d]
    /\ schedule' = [s \in Schedules |->
                      IF s \in Of(a) /\ schedule[s].to > Cutoff(d)
                      THEN [schedule[s] EXCEPT !.to = Cutoff(d)]
                      ELSE schedule[s]]
    /\ rent' = IF final = 0 THEN rent ELSE [rent EXCEPT ![a][Period(d)] = final]
    /\ closed' = [closed EXCEPT ![a] = {m \in Periods : FirstDay(m) > Cutoff(d)}]
    /\ UNCHANGED draft

(***************************************************************************)
(* generate_obligations, for the current month in the daily job and for    *)
(* any month by command: a month to which two schedules of one account     *)
(* apply is refused for every account, otherwise each account a schedule   *)
(* applies to gets its rent unless it has some already.                    *)
(***************************************************************************)
Generate(m) ==
    /\ Unambiguous(m)
    /\ rent' = [a \in Accounts |->
                  [rent[a] EXCEPT ![m] =
                     IF Missing(a, m)
                     THEN schedule[CHOOSE s \in Sources(a, m) : TRUE].amount
                     ELSE @]]
    /\ UNCHANGED <<account, schedule, draft, closed>>

-----------------------------------------------------------------------------
(* The advanced commands *)

CreateAccount(a, from, to) ==
    /\ NewAccount(a, from, to)
    /\ UNCHANGED <<schedule, rent, draft, closed>>

(* Mutants of CreateSchedule: neighbours may share a day, and an exclusive end. *)
CreateScheduleSharingADay(a, s, from, to, amount) ==
    /\ account[a].open
    /\ ~Exists(s)
    /\ from <= to
    /\ account[a].from <= from /\ to <= account[a].to
    /\ \A t \in Of(a) : ~(schedule[t].from < to /\ schedule[t].to > from)
    /\ schedule' = WithRow(s, a, from, to, amount)
    /\ closed' = [closed EXCEPT ![a] = {}]
    /\ UNCHANGED <<account, rent, draft>>

CreateScheduleExclusiveEnd(a, s, from, to, amount) ==
    /\ account[a].open
    /\ ~Exists(s)
    /\ from <= to
    /\ account[a].from <= from /\ to <= account[a].to
    /\ \A t \in Of(a) : ~Overlaps(schedule[t], from, to)
    /\ schedule' = WithRow(s, a, from, to + 1, amount)
    /\ closed' = [closed EXCEPT ![a] = {}]
    /\ UNCHANGED <<account, rent, draft>>

(***************************************************************************)
(* rent-schedule add: within the account's range, clear of the others.     *)
(***************************************************************************)
CreateSchedule(a, s, from, to, amount) ==
    /\ account[a].open
    /\ ~Exists(s)
    /\ from <= to
    /\ account[a].from <= from /\ to <= account[a].to
    /\ \A t \in Of(a) : ~Overlaps(schedule[t], from, to)
    /\ schedule' = WithRow(s, a, from, to, amount)
    /\ closed' = [closed EXCEPT ![a] = {}]
    /\ UNCHANGED <<account, rent, draft>>

(***************************************************************************)
(* rent-schedule end: the new end may be later than the old one.           *)
(***************************************************************************)
EndSchedule(s, d) ==
    LET a == schedule[s].account IN
    /\ Exists(s)
    /\ schedule[s].from <= d
    /\ account[a].from <= schedule[s].from /\ d <= account[a].to
    /\ \A t \in Of(a) \ {s} : ~Overlaps(schedule[t], schedule[s].from, d)
    /\ schedule' = [schedule EXCEPT ![s].to = d]
    /\ closed' = IF d > schedule[s].to THEN [closed EXCEPT ![a] = {}] ELSE closed
    /\ UNCHANGED <<account, rent, draft>>

(* Mutant of EndAccount: looks at where schedules start. *)
EndAccountStartedSchedules(a, d) ==
    /\ account[a].open
    /\ account[a].from <= d
    /\ \A s \in Of(a) : schedule[s].from <= d
    /\ account' = [account EXCEPT ![a].to = d]
    /\ UNCHANGED <<schedule, rent, draft, closed>>

(***************************************************************************)
(* rent-account end: no schedule may reach beyond; it may also be later    *)
(* than the old end.                                                       *)
(***************************************************************************)
EndAccount(a, d) ==
    /\ account[a].open
    /\ account[a].from <= d
    /\ \A s \in Of(a) : schedule[s].to <= d
    /\ account' = [account EXCEPT ![a].to = d]
    /\ UNCHANGED <<schedule, rent, draft, closed>>

(***************************************************************************)
(* obligation add.  The account's range and the absence of a charge are    *)
(* read first; the insert later relies on UNIQUE (account, period) alone.  *)
(***************************************************************************)
CheckObligation(c, a, m, amount) ==
    /\ draft[c] = NoDraft
    /\ account[a].open
    /\ Overlaps(account[a], FirstDay(m), LastDay(m))
    /\ rent[a][m] = 0
    /\ draft' = [draft EXCEPT ![c] = [account |-> a, period |-> m, amount |-> amount]]
    /\ UNCHANGED <<account, schedule, rent, closed>>

(* Mutant of InsertObligation: INSERT OR REPLACE. *)
InsertObligationReplacing(c) ==
    LET o == draft[c] IN
    /\ o # NoDraft
    /\ draft' = [draft EXCEPT ![c] = NoDraft]
    /\ rent' = [rent EXCEPT ![o.account][o.period] = o.amount]
    /\ UNCHANGED <<account, schedule, closed>>

InsertObligation(c) ==
    LET o == draft[c] IN
    /\ o # NoDraft
    /\ draft' = [draft EXCEPT ![c] = NoDraft]
    /\ rent' = IF rent[o.account][o.period] = 0
               THEN [rent EXCEPT ![o.account][o.period] = o.amount]
               ELSE rent
    /\ UNCHANGED <<account, schedule, closed>>

-----------------------------------------------------------------------------
(***************************************************************************)
(* The guided commands and the generator, as the runbook has them used.    *)
(***************************************************************************)
GuidedNext ==
    \/ \E a \in Accounts, from \in {0} \cup Days, to \in Days \cup {Forever},
          first \in {0} \cup Amounts :
         \/ SetupWithoutRent(a, from, to, first)
         \/ \E s \in Schedules, amount \in Amounts, effective \in Days :
              SetupWithRent(a, s, from, to, first, amount, effective)
    \/ \E a \in Accounts, s \in Schedules, amount \in Amounts, effective \in Days :
         ChangeRent(a, s, amount, effective)
    \/ \E a \in Accounts, d \in Days, final \in {0} \cup Amounts : EndTenancy(a, d, final)
    \/ \E m \in Periods : Generate(m)

AdvancedNext ==
    \/ \E a \in Accounts, from \in {0} \cup Days, to \in Days \cup {Forever} :
         CreateAccount(a, from, to)
    \/ \E a \in Accounts, s \in Schedules, from \in Days, to \in Days \cup {Forever},
          amount \in Amounts : CreateSchedule(a, s, from, to, amount)
    \/ \E s \in Schedules, d \in Days : EndSchedule(s, d)
    \/ \E a \in Accounts, d \in Days : EndAccount(a, d)

ObligationNext ==
    \E c \in Sessions :
      \/ \E a \in Accounts, m \in Periods, amount \in Amounts :
           CheckObligation(c, a, m, amount)
      \/ InsertObligation(c)

Next == GuidedNext \/ AdvancedNext \/ ObligationNext

Spec       == Init /\ [][Next]_vars
GuidedSpec == Init /\ [][GuidedNext \/ ObligationNext]_vars

-----------------------------------------------------------------------------
(* Properties *)

(***************************************************************************)
(* The type of every table, of the commands' drafts and of the history.    *)
(***************************************************************************)
TypeOK ==
    /\ account \in [Accounts -> [open : BOOLEAN, from : 0 .. Forever, to : 0 .. Forever]]
    /\ schedule \in [Schedules -> [account : Accounts \cup {"none"}, from : 0 .. Forever,
                                   to : 0 .. Forever, amount : {0} \cup Amounts]]
    /\ rent \in [Accounts -> [Periods -> {0} \cup Amounts]]
    /\ draft \in [Sessions -> [account : Accounts \cup {"none"}, period : 0 .. Months,
                               amount : {0} \cup Amounts]]
    /\ closed \in [Accounts -> SUBSET Periods]

(***************************************************************************)
(* Two schedules of an account never share a day, whatever commands edited *)
(* them (RUNBOOK: schedules cannot overlap for the same account).          *)
(***************************************************************************)
SchedulesDisjoint ==
    \A s, t \in Schedules :
      Exists(s) /\ Exists(t) /\ s # t /\ schedule[s].account = schedule[t].account =>
        ~Overlaps(schedule[s], schedule[t].from, schedule[t].to)

(***************************************************************************)
(* Every schedule lies within its account's active range, also after the   *)
(* account, the schedule or a neighbouring schedule was ended or moved.    *)
(***************************************************************************)
SchedulesWithinAccount ==
    \A s \in Schedules : Exists(s) =>
      LET a == account[schedule[s].account] IN
        /\ a.open
        /\ a.from <= schedule[s].from
        /\ schedule[s].from <= schedule[s].to
        /\ schedule[s].to <= a.to

(***************************************************************************)
(* A rent charge, once there, is never rewritten or removed: neither by    *)
(* the generator nor by a rent change, a tenancy end or a slow obligation  *)
(* add that checked before the charge appeared.                            *)
(***************************************************************************)
RentNeverRewritten ==
    [][\A a \in Accounts, m \in Periods :
         rent[a][m] # 0 => rent'[a][m] = rent[a][m]]_vars

(***************************************************************************)
(* No schedule comes to apply to a month that a tenancy end left without   *)
(* one, until a schedule is added or extended by hand: generating after    *)
(* the end cannot charge the final month twice or any later month.         *)
(***************************************************************************)
ClosedMonthsStayClosed ==
    \A a \in Accounts : \A m \in closed[a] : Sources(a, m) = {}

(***************************************************************************)
(* With the guided commands alone no month of an account is ever claimed   *)
(* by two schedules, so the generator never refuses and one account cannot *)
(* stop the rent of all the others.                                        *)
(***************************************************************************)
GenerationUnambiguous == \A m \in Periods : Unambiguous(m)

=============================================================================
