------------------------------- MODULE Ledger -------------------------------
(***************************************************************************)
(* The money core of AutoRentLedger: payment events (derived from Gmail or *)
(* recorded by hand), rent obligations, late fees, and the two tables that *)
(* allocate payments to them.                                              *)
(*                                                                         *)
(* Commands run as separate processes on one SQLite file: the owner's CLI  *)
(* commands, the scheduled daily job and the rebuild of parsed payments.   *)
(* Every write opens with BEGIN IMMEDIATE, which gives it SQLite's single  *)
(* writer lock until it commits or rolls back, so a checked write is one   *)
(* action here: its checks are the guard, a raised error is a step that    *)
(* does not happen.  The rebuild command is the exception.  It reads its   *)
(* sources in one connection and writes each of them later in another, so  *)
(* it is a process with a snapshot (batch) of its own.                     *)
(***************************************************************************)
EXTENDS Money, Sequences

CONSTANTS
    Emails,        \* raw emails; the payment event derived from one is named by it
    Manuals,       \* manual evidence rows; likewise
    Obligations,   \* ids of rent obligations
    Fees,          \* ids of late-fee charges
    Sessions,      \* runs of the rebuild command that may overlap
    Keys,          \* what the duplicate check compares: normalized sender and date
    Texts,         \* the rest of a payment's text: spelling of the sender, memo
    Days,          \* dates a late fee is assessed on
    MaxAmount,     \* bound on amounts in cents
    MaxRevisions,  \* bound on the corrections of one manual payment
    ConfirmFlags,  \* values of --confirm-duplicate the owner uses
    LegacyFacts,   \* what the earlier parser read in each email
    Parses,        \* the emails the current parser can read
    ParsedFacts,   \* what the current parser reads in each of them
    Plans          \* the allocation plans the owner may apply

VARIABLES
    payment,       \* payment_events
    evidence,      \* manual_payment_evidence
    revisions,     \* manual_payment_revisions of each evidence row, by id
    gmailVoids,    \* gmail_payment_voids
    obligation,    \* rent_obligations: the amount due, 0 while there is no row
    fee,           \* late_fee_charges
    feeVoids,      \* late_fee_voids
    rentAllocs,    \* payment_allocations
    feeAllocs,     \* late_fee_allocations
    batch          \* sources each rebuild session still has to update

manualVars == <<evidence, revisions>>
feeVars    == <<fee, feeVoids>>
allocVars  == <<rentAllocs, feeAllocs>>
vars == <<payment, evidence, revisions, gmailVoids, obligation, fee, feeVoids,
          rentAllocs, feeAllocs, batch>>

-----------------------------------------------------------------------------
Payments == Emails \cup Manuals
Amounts  == 1 .. MaxAmount

(***************************************************************************)
(* Normalized facts of a payment.  A notification may name any amount,     *)
(* zero included: only manual amounts are checked to be positive.          *)
(***************************************************************************)
Facts == [amount : 0 .. MaxAmount, key : Keys, text : Texts]
Blank == [amount |-> 0, key |-> "none", text |-> "none"]

Revision == [type : {"correction", "void"}, facts : Facts]
RentRow  == [payment : Payments, target : Obligations, amount : Amounts]
FeeRow   == [payment : Payments, target : Fees, amount : Amounts]
Source   == [payment : Emails, parsedAt : Nat]

ASSUME LedgerConstants ==
    /\ MaxAmount \in Nat /\ MaxRevisions \in Nat
    /\ Emails \cap Manuals = {}
    /\ ConfirmFlags \subseteq BOOLEAN
    /\ Parses \subseteq Emails
    /\ LegacyFacts \in [Emails -> Facts]
    /\ ParsedFacts \in [Emails -> Facts]
    /\ Plans \subseteq SUBSET RentRow
    /\ \A L \in Plans : IsFiniteSet(L)

-----------------------------------------------------------------------------
(* Reads *)

Stored(p) == payment[p].state # "none"
Active(p) == payment[p].state = "active"
Amount(p) == payment[p].facts.amount

RowsOf(p, rows)   == {r \in rows : r.payment = p}
RowsFor(t, rows)  == {r \in rows : r.target = t}
HasPair(r, rows)  == \E s \in rows : s.payment = r.payment /\ s.target = r.target

(***************************************************************************)
(* combined_payment_allocated_cents: rent and late-fee money together.     *)
(***************************************************************************)
Combined(p) == Total(RowsOf(p, rentAllocs)) + Total(RowsOf(p, feeAllocs))

(***************************************************************************)
(* Mutant of Duplicates: compares with what was first recorded, not with   *)
(* the corrected payment.                                                  *)
(***************************************************************************)
DuplicatesRecorded(m, facts) ==
    {n \in Manuals \ {m} : /\ Active(n)
                           /\ evidence[n].amount = facts.amount
                           /\ evidence[n].key = facts.key}

(***************************************************************************)
(* _matching_manual_payments: the active manual payments, other than m,    *)
(* with the same amount, date and normalized sender.                       *)
(***************************************************************************)
Duplicates(m, facts) ==
    {n \in Manuals \ {m} : /\ Active(n)
                           /\ payment[n].facts.amount = facts.amount
                           /\ payment[n].facts.key = facts.key}

-----------------------------------------------------------------------------
(* Payments derived from Gmail *)

(***************************************************************************)
(* A database starts with the events an earlier version of the parser left *)
(* in it, and nothing else that matters here.                              *)
(***************************************************************************)
NoPayment == [state |-> "none", facts |-> Blank, parsedAt |-> 0,
              version |-> "none"]

Init ==
    /\ \E old \in SUBSET Emails :
         payment = [p \in Payments |->
                      IF p \in old
                      THEN [state |-> "active", facts |-> LegacyFacts[p],
                            parsedAt |-> 0, version |-> "legacy"]
                      ELSE NoPayment]
    /\ evidence = [m \in Manuals |-> Blank]
    /\ revisions = [m \in Manuals |-> <<>>]
    /\ gmailVoids = {}
    /\ obligation = [o \in Obligations |-> 0]
    /\ fee = [f \in Fees |-> [state |-> "none", obligation |-> "none",
                              amount |-> 0, day |-> "none"]]
    /\ feeVoids = {}
    /\ rentAllocs = {} /\ feeAllocs = {}
    /\ batch = [s \in Sessions |-> {}]

(***************************************************************************)
(* process_raw_emails for one stored email: INSERT OR IGNORE of the event  *)
(* it parses to.  An email that does not parse is counted and left alone.  *)
(***************************************************************************)
ProcessEmail(e) ==
    /\ ~Stored(e)
    /\ e \in Parses
    /\ payment' = [payment EXCEPT ![e] =
                     [state |-> "active", facts |-> ParsedFacts[e],
                      parsedAt |-> 0, version |-> "current"]]
    /\ UNCHANGED <<manualVars, gmailVoids, obligation, feeVars, allocVars, batch>>

(***************************************************************************)
(* Mutant of VoidGmail: without the check of the allocated total.          *)
(***************************************************************************)
VoidGmailUnchecked(e) ==
    /\ Active(e)
    /\ gmailVoids' = gmailVoids \cup {e}
    /\ payment' = [payment EXCEPT ![e] = [@ EXCEPT !.state = "void"]]
    /\ UNCHANGED <<manualVars, obligation, feeVars, allocVars, batch>>

(***************************************************************************)
(* payment gmail-void: only an active event without allocated money.       *)
(***************************************************************************)
VoidGmail(e) ==
    /\ Active(e)
    /\ Combined(e) = 0
    /\ gmailVoids' = gmailVoids \cup {e}
    /\ payment' = [payment EXCEPT ![e] = [@ EXCEPT !.state = "void"]]
    /\ UNCHANGED <<manualVars, obligation, feeVars, allocVars, batch>>

-----------------------------------------------------------------------------
(* Payments recorded by hand *)

(***************************************************************************)
(* payment add: evidence and event are inserted together.                  *)
(***************************************************************************)
CreateManual(m, facts, confirm) ==
    /\ ~Stored(m)
    /\ facts.amount > 0
    /\ confirm \/ Duplicates(m, facts) = {}
    /\ evidence' = [evidence EXCEPT ![m] = facts]
    /\ payment' = [payment EXCEPT ![m] =
                     [state |-> "active", facts |-> facts,
                      parsedAt |-> 0, version |-> "manual"]]
    /\ UNCHANGED <<revisions, gmailVoids, obligation, feeVars, allocVars, batch>>

(***************************************************************************)
(* payment correct: append a full revision and rewrite the event, which    *)
(* must keep an amount that covers what is allocated.                      *)
(***************************************************************************)
CorrectManual(m, facts, confirm) ==
    /\ Active(m)
    /\ Len(revisions[m]) < MaxRevisions
    /\ facts.amount > 0
    /\ facts # payment[m].facts
    /\ facts.amount >= Combined(m)
    /\ confirm \/ Duplicates(m, facts) = {}
    /\ revisions' = [revisions EXCEPT ![m] =
                       Append(@, [type |-> "correction", facts |-> facts])]
    /\ payment' = [payment EXCEPT ![m] =
                     [state |-> "active", facts |-> facts,
                      parsedAt |-> @.parsedAt + 1, version |-> @.version]]
    /\ UNCHANGED <<evidence, gmailVoids, obligation, feeVars, allocVars, batch>>

(***************************************************************************)
(* Mutant of VoidManual: the void revision leaves the facts empty.         *)
(***************************************************************************)
VoidManualBlank(m) ==
    /\ Active(m)
    /\ Combined(m) = 0
    /\ revisions' = [revisions EXCEPT ![m] =
                       Append(@, [type |-> "void", facts |-> Blank])]
    /\ payment' = [payment EXCEPT ![m] = [@ EXCEPT !.state = "void"]]
    /\ UNCHANGED <<evidence, gmailVoids, obligation, feeVars, allocVars, batch>>

(***************************************************************************)
(* payment void: append a void revision that repeats the current facts.    *)
(***************************************************************************)
VoidManual(m) ==
    /\ Active(m)
    /\ Combined(m) = 0
    /\ revisions' = [revisions EXCEPT ![m] =
                       Append(@, [type |-> "void", facts |-> payment[m].facts])]
    /\ payment' = [payment EXCEPT ![m] = [@ EXCEPT !.state = "void"]]
    /\ UNCHANGED <<evidence, gmailVoids, obligation, feeVars, allocVars, batch>>

-----------------------------------------------------------------------------
(* Obligations and late fees *)

(***************************************************************************)
(* A rent obligation appears, from any of the commands that insert one.    *)
(* Its amount never changes and the row is never deleted.                  *)
(***************************************************************************)
CreateObligation(o, amount) ==
    /\ obligation[o] = 0
    /\ obligation' = [obligation EXCEPT ![o] = amount]
    /\ UNCHANGED <<payment, manualVars, gmailVoids, feeVars, allocVars, batch>>

(***************************************************************************)
(* late-fee assess                                                         *)
(***************************************************************************)
AssessFee(f, o, amount, day, confirm) ==
    /\ fee[f].state = "none"
    /\ obligation[o] > 0
    /\ \/ confirm
       \/ \A g \in Fees : fee[g] # [state |-> "active", obligation |-> o,
                                    amount |-> amount, day |-> day]
    /\ fee' = [fee EXCEPT ![f] = [state |-> "active", obligation |-> o,
                                  amount |-> amount, day |-> day]]
    /\ UNCHANGED <<payment, manualVars, gmailVoids, obligation, feeVoids,
                   allocVars, batch>>

(***************************************************************************)
(* late-fee void: only a fee with no money allocated to it.                *)
(***************************************************************************)
VoidFee(f) ==
    /\ fee[f].state = "active"
    /\ Total(RowsFor(f, feeAllocs)) = 0
    /\ feeVoids' = feeVoids \cup {f}
    /\ fee' = [fee EXCEPT ![f] = [@ EXCEPT !.state = "void"]]
    /\ UNCHANGED <<payment, manualVars, gmailVoids, obligation, allocVars, batch>>

-----------------------------------------------------------------------------
(* Allocations *)

(***************************************************************************)
(* Mutant of CanInsert: each link is checked against the stored rows only. *)
(***************************************************************************)
CanInsertEachAlone(L) ==
    \A l \in L :
      /\ Active(l.payment)
      /\ obligation[l.target] > 0
      /\ ~HasPair(l, rentAllocs)
      /\ l.amount <= Amount(l.payment) - Combined(l.payment)
      /\ l.amount <= obligation[l.target] - Total(RowsFor(l.target, rentAllocs))

(***************************************************************************)
(* _insert_checked, run over the links L of one transaction.  The code     *)
(* checks each link against the rows before it; amounts are positive, so   *)
(* no prefix is over a limit exactly when the whole set L is not           *)
(* (PlanLoopAgrees).  One failing link rolls back all of them.             *)
(***************************************************************************)
CanInsert(L) ==
    /\ \A l \in L :
         /\ Active(l.payment)
         /\ obligation[l.target] > 0
         /\ ~HasPair(l, rentAllocs)
         /\ ~HasPair(l, L \ {l})
         /\ Combined(l.payment) + Total(RowsOf(l.payment, L)) <= Amount(l.payment)
         /\ Total(RowsFor(l.target, rentAllocs)) + Total(RowsFor(l.target, L))
              <= obligation[l.target]

InsertRent(L) ==
    /\ CanInsert(L)
    /\ rentAllocs' = rentAllocs \cup L
    /\ UNCHANGED <<payment, manualVars, gmailVoids, obligation, feeVars,
                   feeAllocs, batch>>

(***************************************************************************)
(* allocation add: one link.  allocation plan --apply: all or none.        *)
(***************************************************************************)
AddAllocation(l) == InsertRent({l})
ApplyPlan(L) == InsertRent(L)

(***************************************************************************)
(* late-fee allocate                                                       *)
(***************************************************************************)
AddFeeAllocation(l) ==
    /\ Active(l.payment)
    /\ fee[l.target].state = "active"
    /\ ~HasPair(l, feeAllocs)
    /\ l.amount <= Amount(l.payment) - Combined(l.payment)
    /\ l.amount <= fee[l.target].amount - Total(RowsFor(l.target, feeAllocs))
    /\ feeAllocs' = feeAllocs \cup {l}
    /\ UNCHANGED <<payment, manualVars, gmailVoids, obligation, feeVars,
                   rentAllocs, batch>>

(***************************************************************************)
(* allocation remove and late-fee allocation remove: whatever else holds.  *)
(***************************************************************************)
RemoveAllocation(l) ==
    /\ l \in rentAllocs
    /\ rentAllocs' = rentAllocs \ {l}
    /\ UNCHANGED <<payment, manualVars, gmailVoids, obligation, feeVars,
                   feeAllocs, batch>>

RemoveFeeAllocation(l) ==
    /\ l \in feeAllocs
    /\ feeAllocs' = feeAllocs \ {l}
    /\ UNCHANGED <<payment, manualVars, gmailVoids, obligation, feeVars,
                   rentAllocs, batch>>

(***************************************************************************)
(* _insert_checked of one link against the rows the table has by then, and *)
(* the loop of create_many_checked over a list of links, as the code runs  *)
(* them.                                                                   *)
(***************************************************************************)
LinkAccepted(l, rows) ==
    /\ Active(l.payment)
    /\ obligation[l.target] > 0
    /\ ~HasPair(l, rows)
    /\ l.amount <= Amount(l.payment) - Total(RowsOf(l.payment, rows))
                     - Total(RowsOf(l.payment, feeAllocs))
    /\ l.amount <= obligation[l.target] - Total(RowsFor(l.target, rows))

LoopAccepts(links) ==
    \A i \in DOMAIN links :
      LinkAccepted(links[i], rentAllocs \cup {links[j] : j \in 1 .. i - 1})

(***************************************************************************)
(* The lists of the links L, each of them once.                            *)
(***************************************************************************)
Orders(L) ==
    {links \in [1 .. Cardinality(L) -> L] :
       \A l \in L : \E i \in DOMAIN links :
         \A j \in DOMAIN links : links[j] = l <=> j = i}

-----------------------------------------------------------------------------
(* Rebuild of Gmail-derived payments with the current parser *)

(***************************************************************************)
(* The sources of a batch that the loop of rebuild_payments will try to    *)
(* update: the email parses, the new amount covers the allocations seen in *)
(* the snapshot, and the facts or the parser version differ.  The others   *)
(* are only reported.  Voided events are not left out.                     *)
(***************************************************************************)
NeedsUpdate(e) ==
    /\ Stored(e)
    /\ e \in Parses
    /\ ParsedFacts[e].amount >= Combined(e)
    /\ payment[e].facts # ParsedFacts[e] \/ payment[e].version # "current"

(***************************************************************************)
(* payment rebuild, of one event or of all: the read-only snapshot.        *)
(***************************************************************************)
RebuildStart(s, only) ==
    /\ batch[s] = {}
    /\ batch' = [batch EXCEPT ![s] =
                   {[payment |-> e, parsedAt |-> payment[e].parsedAt] :
                      e \in {x \in only : NeedsUpdate(x)}}]
    /\ UNCHANGED <<payment, manualVars, gmailVoids, obligation, feeVars, allocVars>>

(***************************************************************************)
(* Mutants of RebuildUpdate: writes what its snapshot allowed, and replaces *)
(* the row, which clears voided_at.                                        *)
(***************************************************************************)
RebuildUpdateBlind(s, src) ==
    /\ src \in batch[s]
    /\ payment' = [payment EXCEPT ![src.payment] =
                     [state |-> @.state, facts |-> ParsedFacts[src.payment],
                      parsedAt |-> @.parsedAt + 1, version |-> "current"]]
    /\ batch' = [batch EXCEPT ![s] = @ \ {src}]
    /\ UNCHANGED <<manualVars, gmailVoids, obligation, feeVars, allocVars>>

RebuildUpdateReplaces(s, src) ==
    /\ src \in batch[s]
    /\ payment[src.payment].parsedAt = src.parsedAt
    /\ ParsedFacts[src.payment].amount >= Combined(src.payment)
    /\ payment' = [payment EXCEPT ![src.payment] =
                     [state |-> "active", facts |-> ParsedFacts[src.payment],
                      parsedAt |-> @.parsedAt + 1, version |-> "current"]]
    /\ batch' = [batch EXCEPT ![s] = @ \ {src}]
    /\ UNCHANGED <<manualVars, gmailVoids, obligation, feeVars, allocVars>>

(***************************************************************************)
(* update_rebuilt_checked, in a transaction of its own per source: the     *)
(* event must not have been written since the snapshot, and the new amount *)
(* must cover what is allocated now.  The loop takes its sources by event  *)
(* id, which does not say which email they are of; here any may be next.   *)
(***************************************************************************)
RebuildUpdate(s, src) ==
    /\ src \in batch[s]
    /\ payment[src.payment].parsedAt = src.parsedAt
    /\ ParsedFacts[src.payment].amount >= Combined(src.payment)
    /\ payment' = [payment EXCEPT ![src.payment] =
                     [state |-> @.state, facts |-> ParsedFacts[src.payment],
                      parsedAt |-> @.parsedAt + 1, version |-> "current"]]
    /\ batch' = [batch EXCEPT ![s] = @ \ {src}]
    /\ UNCHANGED <<manualVars, gmailVoids, obligation, feeVars, allocVars>>

(***************************************************************************)
(* Mutant of RebuildReject: the rejected source is tried again.            *)
(***************************************************************************)
RebuildRejectRetries(s, src) ==
    /\ src \in batch[s]
    /\ payment[src.payment].parsedAt = src.parsedAt
    /\ ParsedFacts[src.payment].amount < Combined(src.payment)
    /\ UNCHANGED vars

(***************************************************************************)
(* Allocations made since the snapshot exceed the new amount: the source   *)
(* is reported as rejected and the batch goes on.                          *)
(***************************************************************************)
RebuildReject(s, src) ==
    /\ src \in batch[s]
    /\ payment[src.payment].parsedAt = src.parsedAt
    /\ ParsedFacts[src.payment].amount < Combined(src.payment)
    /\ batch' = [batch EXCEPT ![s] = @ \ {src}]
    /\ UNCHANGED <<payment, manualVars, gmailVoids, obligation, feeVars, allocVars>>

(***************************************************************************)
(* The event was written since the snapshot: the rest of the batch is      *)
(* abandoned, what it already updated stays.  The process may also be      *)
(* stopped, or fail to get the writer lock, between any two updates.       *)
(***************************************************************************)
RebuildAbort(s, src) ==
    /\ src \in batch[s]
    /\ payment[src.payment].parsedAt # src.parsedAt
    /\ batch' = [batch EXCEPT ![s] = {}]
    /\ UNCHANGED <<payment, manualVars, gmailVoids, obligation, feeVars, allocVars>>

RebuildStop(s) ==
    /\ batch[s] # {}
    /\ batch' = [batch EXCEPT ![s] = {}]
    /\ UNCHANGED <<payment, manualVars, gmailVoids, obligation, feeVars, allocVars>>

-----------------------------------------------------------------------------
ManualNext ==
    \E m \in Manuals :
      \/ VoidManual(m)
      \/ \E facts \in Facts, confirm \in ConfirmFlags :
           \/ CreateManual(m, facts, confirm)
           \/ CorrectManual(m, facts, confirm)

GmailNext == \E e \in Emails : ProcessEmail(e) \/ VoidGmail(e)

ChargeNext ==
    \/ \E o \in Obligations, amount \in Amounts : CreateObligation(o, amount)
    \/ \E f \in Fees : VoidFee(f)
    \/ \E f \in Fees, o \in Obligations, amount \in Amounts, day \in Days,
          confirm \in ConfirmFlags : AssessFee(f, o, amount, day, confirm)

AllocationNext ==
    \/ \E l \in RentRow : AddAllocation(l) \/ RemoveAllocation(l)
    \/ \E L \in Plans : ApplyPlan(L)
    \/ \E l \in FeeRow : AddFeeAllocation(l) \/ RemoveFeeAllocation(l)

RebuildNext ==
    \E s \in Sessions :
      \/ RebuildStart(s, Emails)
      \/ \E e \in Emails : RebuildStart(s, {e})
      \/ \E src \in batch[s] :
           RebuildUpdate(s, src) \/ RebuildReject(s, src) \/ RebuildAbort(s, src)
      \/ RebuildStop(s)

Next == ManualNext \/ GmailNext \/ ChargeNext \/ AllocationNext \/ RebuildNext

Spec == Init /\ [][Next]_vars

(***************************************************************************)
(* The rebuild command goes on to its next source until it is done; the    *)
(* operator may stop it, but does not have to.                             *)
(***************************************************************************)
RebuildStep(s) ==
    \E src \in batch[s] :
      RebuildUpdate(s, src) \/ RebuildReject(s, src) \/ RebuildAbort(s, src)

FairSpec == Spec /\ \A s \in Sessions : WF_vars(RebuildStep(s))

-----------------------------------------------------------------------------
(* Properties *)

PaymentType ==
    [state : {"none", "active", "void"}, facts : Facts \cup {Blank},
     parsedAt : Nat, version : {"none", "legacy", "current", "manual"}]

FeeType ==
    [state : {"none", "active", "void"}, obligation : Obligations \cup {"none"},
     amount : 0 .. MaxAmount, day : Days \cup {"none"}]

(***************************************************************************)
(* The type invariant: every table holds rows of its schema.               *)
(***************************************************************************)
TypeOK ==
    /\ payment \in [Payments -> PaymentType]
    /\ \A p \in Payments : Active(p) => payment[p].facts \in Facts
    /\ evidence \in [Manuals -> Facts \cup {Blank}]
    /\ revisions \in [Manuals -> Seq(Revision)]
    /\ gmailVoids \subseteq Emails
    /\ obligation \in [Obligations -> 0 .. MaxAmount]
    /\ fee \in [Fees -> FeeType]
    /\ feeVoids \subseteq Fees
    /\ rentAllocs \subseteq RentRow /\ IsFiniteSet(rentAllocs)
    /\ feeAllocs \subseteq FeeRow /\ IsFiniteSet(feeAllocs)
    /\ batch \in [Sessions -> SUBSET Source]

(***************************************************************************)
(* Rent and late-fee allocations together never exceed the payment they    *)
(* are taken from.  Five writes can break it, in any order and from any    *)
(* process: both allocation commands, an applied plan, a correction that   *)
(* lowers the amount, and a rebuild that was planned from an old snapshot. *)
(***************************************************************************)
PaymentCapacity == \A p \in Payments : Combined(p) <= Amount(p)

(***************************************************************************)
(* No obligation and no late fee is paid more than once over: the money    *)
(* allocated to it by all payments together stays within its amount.       *)
(***************************************************************************)
TargetCapacity ==
    /\ \A o \in Obligations : Total(RowsFor(o, rentAllocs)) <= obligation[o]
    /\ \A f \in Fees : Total(RowsFor(f, feeAllocs)) <= fee[f].amount

(***************************************************************************)
(* A voided payment and a voided late fee hold no money, however voids,    *)
(* allocations and rebuilds interleave; no allocation points at a payment, *)
(* obligation or fee that was never stored.                                *)
(***************************************************************************)
LinksJoinActive ==
    /\ \A r \in rentAllocs : Active(r.payment) /\ obligation[r.target] > 0
    /\ \A r \in feeAllocs : Active(r.payment) /\ fee[r.target].state = "active"

(***************************************************************************)
(* A payment is linked to an obligation, or to a late fee, at most once,   *)
(* also by a plan that names the same pair twice.                          *)
(***************************************************************************)
PairsUnique ==
    /\ \A r \in rentAllocs : ~HasPair(r, rentAllocs \ {r})
    /\ \A r \in feeAllocs : ~HasPair(r, feeAllocs \ {r})

(***************************************************************************)
(* In whatever order the code takes the links of a plan, its loop accepts  *)
(* them, each checked against the rows inserted before it, exactly when    *)
(* CanInsert accepts their set.                                            *)
(***************************************************************************)
PlanLoopAgrees ==
    \A L \in Plans : \A links \in Orders(L) : LoopAccepts(links) <=> CanInsert(L)

(***************************************************************************)
(* The audit tables and the rows they explain agree: what get_history of   *)
(* the payment and late-fee repositories raises an invariant error for.    *)
(***************************************************************************)
AuditConsistent ==
    /\ \A e \in Emails : payment[e].state = "void" <=> e \in gmailVoids
    /\ \A f \in Fees : fee[f].state = "void" <=> f \in feeVoids
    /\ \A m \in Manuals : \A i \in 1 .. Len(revisions[m]) :
         revisions[m][i].type = "void"
           <=> payment[m].state = "void" /\ i = Len(revisions[m])

(***************************************************************************)
(* A manual payment event is a projection: its facts are those of the last *)
(* revision, or of the evidence while there is none.                       *)
(***************************************************************************)
LatestFacts(m) ==
    IF revisions[m] = <<>> THEN evidence[m]
                           ELSE revisions[m][Len(revisions[m])].facts

ManualProjection == \A m \in Manuals : payment[m].facts = LatestFacts(m)

(***************************************************************************)
(* Overlapping rebuilds write each event at most once: the second to reach *)
(* it sees that it was written since its snapshot and stops.               *)
(***************************************************************************)
RebuiltOnce == \A e \in Emails : payment[e].parsedAt <= 1

(***************************************************************************)
(* While the owner confirms no duplicate, no two active manual payments    *)
(* have the same sender, amount and date, and no two active late fees the  *)
(* same obligation, amount and date, whatever corrections came between.    *)
(***************************************************************************)
NoUnconfirmedDuplicate ==
    ConfirmFlags = {FALSE} =>
      /\ \A m, n \in Manuals :
           Active(m) /\ Active(n) /\ m # n
             => \/ payment[m].facts.amount # payment[n].facts.amount
                \/ payment[m].facts.key # payment[n].facts.key
      /\ \A f, g \in Fees :
           fee[f].state = "active" /\ f # g => fee[f] # fee[g]

(***************************************************************************)
(* The audit trail is append-only: evidence is never rewritten, revisions  *)
(* only grow at the end, and nothing voided becomes active again.          *)
(***************************************************************************)
AuditAppendOnly ==
    [][ /\ \A m \in Manuals :
             /\ evidence[m] # Blank => evidence'[m] = evidence[m]
             /\ Len(revisions'[m]) >= Len(revisions[m])
             /\ \A i \in 1 .. Len(revisions[m]) : revisions'[m][i] = revisions[m][i]
        /\ \A p \in Payments : payment[p].state = "void" => payment'[p].state = "void"
        /\ \A f \in Fees : fee[f].state = "void" => fee'[f] = fee[f]
      ]_vars

(***************************************************************************)
(* A rebuild that is not stopped finishes: it never waits on another one.  *)
(***************************************************************************)
RebuildFinishes == \A s \in Sessions : batch[s] # {} ~> batch[s] = {}

(***************************************************************************)
(* The runbook says that a voided Gmail payment keeps its parsed facts.    *)
(***************************************************************************)
VoidKeepsFacts ==
    [][ \A e \in Emails : payment[e].state = "void"
          => payment'[e].facts = payment[e].facts ]_vars

=============================================================================
