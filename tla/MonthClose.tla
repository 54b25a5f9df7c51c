----------------------------- MODULE MonthClose -----------------------------
(***************************************************************************)
(* The month close: a read-only report that calls a month CLEAR or asks    *)
(* for attention.  It takes no snapshot: every table is read over a        *)
(* connection of its own, so a command may commit between two of its       *)
(* reads.  The report changes nothing, so it is no action here: it is what *)
(* some of its reads find before a step of Matching and the others after.  *)
(***************************************************************************)
EXTENDS Matching
LOCAL INSTANCE Integers

CONSTANT
    Expected  \* account and period of the rent recurring schedules expect

ASSUME MonthCloseConstants == Expected \subseteq [account : Accounts, period : Nat]

Months == UNION {R.from .. R.to : R \in Ranges}

Charged(m) == {o \in Obligations : obligation[o] > 0 /\ terms[o].period = m}

(***************************************************************************)
(* Mutants of Missing: rent that is expected of some account is there, and *)
(* rent of any month counts.                                               *)
(***************************************************************************)
MissingAll(m) ==
    LET due == {x \in Expected : x.period = m}
    IN  IF \E x \in due : \E o \in Charged(m) : terms[o].account = x.account
        THEN {} ELSE due

(***************************************************************************)
(* The items a generation of the month would create.                       *)
(***************************************************************************)
Missing(m) ==
    {x \in Expected : /\ x.period = m
                      /\ \A o \in Charged(m) : terms[o].account # x.account}

-----------------------------------------------------------------------------
(* The reads of the report *)

ActivePayments == {p \in Payments : Active(p)}

(***************************************************************************)
(* list_sources_for_period: what each obligation of the month is short of. *)
(***************************************************************************)
RentRows(m) == {Outstanding(o) : o \in Charged(m)}

(***************************************************************************)
(* list_sender_counts and list_normalized_aliases.                         *)
(***************************************************************************)
ActiveSenders == {SenderOf[payment[p].facts.key] : p \in ActivePayments}
KnownSenders  == {n \in Senders : alias[n] # "none"}

(***************************************************************************)
(* list_payment_allocation_totals, of payments of any month.               *)
(***************************************************************************)
UnspentMoney == {MoneyLeft(p) : p \in ActivePayments}

(***************************************************************************)
(* list_unparsed_emails: those without an event, voided ones included.     *)
(***************************************************************************)
UnparsedEmails == {e \in Emails : ~Stored(e)}

(***************************************************************************)
(* The suggestions for the month.  Their four reads count as one, at the   *)
(* moment of the first, which lists the active payments: a step that frees *)
(* money undoes the close, and any other leaves nothing to suggest if none *)
(* was left when UnspentMoney was read, or if there is no payment.         *)
(***************************************************************************)
MonthSuggestions(m) ==
    {l \in UNION {Suggestions(p) : p \in ActivePayments} : terms[l.target].period = m}

(***************************************************************************)
(* In the order in which build_month_close asks for them.  There is one    *)
(* result of the suggestions for each active payment, and their number is  *)
(* the active_payment_count of the checks.                                 *)
(***************************************************************************)
MonthReads(m) ==
    <<RentRows(m), ActiveSenders, KnownSenders, UnspentMoney, UnparsedEmails,
      [payments |-> ActivePayments, suggestions |-> MonthSuggestions(m)], Missing(m)>>

(***************************************************************************)
(* _build_checks and _derive_status: no check asks for attention.  The     *)
(* checks of money and of senders are NOT_APPLICABLE when the suggestions  *)
(* found no active payment, whatever was read of either before.  The       *)
(* checks of expenses and of property cash never ask.                      *)
(***************************************************************************)
Clear(got) ==
    /\ got[1] \subseteq {0}
    /\ got[6].payments # {} => got[2] \subseteq got[3] /\ got[4] \subseteq {0}
    /\ got[5] = {} /\ got[6].suggestions = {} /\ got[7] = {}

-----------------------------------------------------------------------------
(* Properties *)

(***************************************************************************)
(* No command has anything to do for the month: every email the parser can *)
(* read has its payment, the allocation plan of any range that contains    *)
(* the month has no link to make and nothing to complain of, all rent that *)
(* is expected is charged, and all that is charged is paid, by payments of *)
(* known payers.                                                           *)
(***************************************************************************)
Done(m) ==
    /\ \A e \in Parses : Stored(e)
    /\ \A R \in Ranges : m \in R.from .. R.to
         => Actionable(Reads(R)) /\ Links(Reads(R)) = {}
    /\ \A x \in Expected : x.period = m
         => \E o \in Obligations : /\ terms[o].account = x.account
                                   /\ terms[o].period = m /\ obligation[o] > 0
    /\ \A o \in Obligations : terms[o].period = m
         => Total(RowsFor(o, rentAllocs)) = obligation[o]
    /\ \A r \in rentAllocs : terms[r.target].period = m
         => alias[SenderOf[payment[r.payment].facts.key]] # "none"

(***************************************************************************)
(* What may undo a close: allocations or aliases go, a payment comes or is *)
(* read anew, or the month is charged again.                               *)
(***************************************************************************)
Undoes(m) ==
    \/ ~ (rentAllocs \subseteq rentAllocs' /\ feeAllocs \subseteq feeAllocs')
    \/ \E n \in Senders : alias[n] # "none" /\ alias'[n] # alias[n]
    \/ \E p \in Payments : payment'[p] # payment[p] /\ Active(p)'
    \/ Charged(m)' # Charged(m)

(***************************************************************************)
(* A month that is reported CLEAR is done, also when a command committed   *)
(* while the report was read, whatever it had read by then, unless that    *)
(* command undoes it: what became allocated or known between the reads is  *)
(* not mistaken for what was missing before.                               *)
(***************************************************************************)
TornCloseIsRight ==
    [][ \A m \in Months :
          (\E before \in {MonthReads(m)}, after \in {MonthReads(m)'},
              k \in IF Undoes(m) THEN {0} ELSE 0 .. 7 :
             Clear([i \in 1 .. 7 |-> IF i <= k THEN before[i] ELSE after[i]]))
          => Done(m)'
      ]_matchingVars
=============================================================================
