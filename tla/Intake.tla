------------------------------- MODULE Intake -------------------------------
(***************************************************************************)
(* From the mailbox to payment events: the sync that the sync command and  *)
(* the daily job run.  A sync lists the newest messages, stores those it   *)
(* does not have, and derives an event from every stored email that parses *)
(* and has none yet.  It asks before it fetches and inserts later, in a    *)
(* connection of its own each time, so two syncs, or a sync and any other  *)
(* command of the ledger, interleave at every message; a message that      *)
(* cannot be fetched ends the sync with what it has stored so far.         *)
(***************************************************************************)
EXTENDS Ledger
LOCAL INSTANCE SequencesExt

CONSTANTS
    Syncs,         \* syncs that may overlap; each may be run again
    MaxResults,    \* --max-results
    MaxFailures    \* bound on the syncs that fail or are killed

ASSUME IntakeConstants == MaxResults \in Nat \ {0} /\ MaxFailures \in Nat

VARIABLES
    mailbox,   \* messages that match the query, in the order they arrived
    rawEmails, \* raw_emails
    sync,      \* where each sync stands
    counted,   \* history: how often a sync reported a message, or the event
               \* derived from it, as new
    failures   \* syncs that failed

intakeVars == <<mailbox, rawEmails, sync, counted, failures>>
allVars == <<vars, intakeVars>>

(***************************************************************************)
(* found is what search returned and is still to be looked at, todo what   *)
(* list_all returned, at the message the sync has found to be missing.     *)
(***************************************************************************)
SyncIdle == [pc |-> "idle", found |-> <<>>, todo |-> {}, at |-> "none"]

(***************************************************************************)
(* search: at most MaxResults messages, the newest first, whether they are *)
(* stored already or not.                                                  *)
(***************************************************************************)
Search ==
    LET n == Len(mailbox)
        k == IF MaxResults < n THEN MaxResults ELSE n
    IN  Reverse(SubSeq(mailbox, n - k + 1, n))

Count(e, what, new) ==
    counted' = [counted EXCEPT ![e][what] = @ + IF new THEN 1 ELSE 0]

-----------------------------------------------------------------------------
(* ingest_raw_emails *)

SyncStart(y) ==
    /\ sync[y].pc = "idle"
    /\ sync' = [sync EXCEPT ![y] = [SyncIdle EXCEPT !.pc = "ingest", !.found = Search]]
    /\ UNCHANGED <<vars, mailbox, rawEmails, counted, failures>>

(***************************************************************************)
(* Mutant of IngestPresent: stops at the first message that is stored, as  *)
(* if all older ones had to be.                                            *)
(***************************************************************************)
IngestPresentStops(y) ==
    /\ sync[y].pc = "ingest" /\ sync[y].found # <<>>
    /\ Head(sync[y].found) \in rawEmails
    /\ sync' = [sync EXCEPT ![y].found = <<>>]
    /\ UNCHANGED <<vars, mailbox, rawEmails, counted, failures>>

(***************************************************************************)
(* contains: the message is stored, and passed over.                       *)
(***************************************************************************)
IngestPresent(y) ==
    /\ sync[y].pc = "ingest" /\ sync[y].found # <<>>
    /\ Head(sync[y].found) \in rawEmails
    /\ sync' = [sync EXCEPT ![y].found = Tail(@)]
    /\ UNCHANGED <<vars, mailbox, rawEmails, counted, failures>>

IngestFetch(y) ==
    /\ sync[y].pc = "ingest" /\ sync[y].found # <<>>
    /\ Head(sync[y].found) \notin rawEmails
    /\ sync' = [sync EXCEPT ![y].pc = "fetched"]
    /\ UNCHANGED <<vars, mailbox, rawEmails, counted, failures>>

(***************************************************************************)
(* Mutant of IngestInsert: every message it fetched is reported as new.    *)
(***************************************************************************)
IngestInsertCountsAll(y) ==
    /\ sync[y].pc = "fetched"
    /\ rawEmails' = rawEmails \cup {Head(sync[y].found)}
    /\ Count(Head(sync[y].found), "message", TRUE)
    /\ sync' = [sync EXCEPT ![y].pc = "ingest", ![y].found = Tail(@)]
    /\ UNCHANGED <<vars, mailbox, failures>>

(***************************************************************************)
(* INSERT OR IGNORE on the UNIQUE message id; the row count tells whether  *)
(* the message was new.                                                    *)
(***************************************************************************)
IngestInsert(y) ==
    LET e == Head(sync[y].found) IN
    /\ sync[y].pc = "fetched"
    /\ rawEmails' = rawEmails \cup {e}
    /\ Count(e, "message", e \notin rawEmails)
    /\ sync' = [sync EXCEPT ![y].pc = "ingest", ![y].found = Tail(@)]
    /\ UNCHANGED <<vars, mailbox, failures>>

-----------------------------------------------------------------------------
(* process_raw_emails *)

(***************************************************************************)
(* Ingestion is over: all stored emails are listed, not only the new ones. *)
(* The loop takes them by row id; nothing here depends on the order.       *)
(***************************************************************************)
ProcessList(y) ==
    /\ sync[y].pc = "ingest" /\ sync[y].found = <<>>
    /\ sync' = [sync EXCEPT ![y] = [SyncIdle EXCEPT !.pc = "process", !.todo = rawEmails]]
    /\ UNCHANGED <<vars, mailbox, rawEmails, counted, failures>>

(***************************************************************************)
(* contains_raw_email, an event of whatever state; or it does not parse,   *)
(* which is counted and tried again by the next sync.                      *)
(***************************************************************************)
ProcessPass(y, e) ==
    /\ sync[y].pc = "process" /\ e \in sync[y].todo
    /\ Stored(e) \/ e \notin Parses
    /\ sync' = [sync EXCEPT ![y].todo = @ \ {e}]
    /\ UNCHANGED <<vars, mailbox, rawEmails, counted, failures>>

ProcessParse(y, e) ==
    /\ sync[y].pc = "process" /\ e \in sync[y].todo
    /\ ~Stored(e) /\ e \in Parses
    /\ sync' = [sync EXCEPT ![y].pc = "parsed", ![y].at = e]
    /\ UNCHANGED <<vars, mailbox, rawEmails, counted, failures>>

(***************************************************************************)
(* INSERT OR IGNORE on the UNIQUE raw email id, which also a voided event  *)
(* keeps.                                                                  *)
(***************************************************************************)
ProcessInsert(y) ==
    LET e == sync[y].at IN
    /\ sync[y].pc = "parsed"
    /\ \/ ProcessEmail(e)
       \/ Stored(e) /\ UNCHANGED vars
    /\ Count(e, "event", ~Stored(e))
    /\ sync' = [sync EXCEPT ![y].pc = "process", ![y].at = "none", ![y].todo = @ \ {e}]
    /\ UNCHANGED <<mailbox, rawEmails, failures>>

SyncDone(y) ==
    /\ sync[y].pc = "process" /\ sync[y].todo = {}
    /\ sync' = [sync EXCEPT ![y] = SyncIdle]
    /\ UNCHANGED <<vars, mailbox, rawEmails, counted, failures>>

(***************************************************************************)
(* A search, a fetch or a write fails, or the process is killed: the sync  *)
(* ends there, and what it committed stays.                                *)
(***************************************************************************)
SyncFails(y) ==
    /\ sync[y].pc # "idle" /\ failures < MaxFailures
    /\ failures' = failures + 1
    /\ sync' = [sync EXCEPT ![y] = SyncIdle]
    /\ UNCHANGED <<vars, mailbox, rawEmails, counted>>

SyncStep(y) ==
    \/ SyncStart(y)
    \/ IngestPresent(y) \/ IngestFetch(y) \/ IngestInsert(y)
    \/ ProcessList(y) \/ ProcessInsert(y) \/ SyncDone(y)
    \/ \E e \in Emails : ProcessPass(y, e) \/ ProcessParse(y, e)

-----------------------------------------------------------------------------
Deliver(e) ==
    /\ e \notin ToSet(mailbox)
    /\ mailbox' = Append(mailbox, e)
    /\ UNCHANGED <<vars, rawEmails, sync, counted, failures>>

(***************************************************************************)
(* The ledger's commands other than the insertion of parsed events.        *)
(***************************************************************************)
OtherCommand ==
    /\ \/ ManualNext \/ ChargeNext \/ AllocationNext \/ RebuildNext
       \/ \E e \in Emails : VoidGmail(e)
    /\ UNCHANGED intakeVars

(***************************************************************************)
(* Earlier events come from messages that are stored; the stored messages  *)
(* are in the mailbox.                                                     *)
(***************************************************************************)
IntakeInit ==
    /\ Init
    /\ rawEmails = {e \in Emails : Stored(e)}
    /\ mailbox = SetToSeq(rawEmails)
    /\ sync = [y \in Syncs |-> SyncIdle]
    /\ counted = [e \in Emails |-> [message |-> 0, event |-> 0]]
    /\ failures = 0

IntakeNext ==
    \/ \E e \in Emails : Deliver(e)
    \/ \E y \in Syncs : SyncStep(y) \/ SyncFails(y)
    \/ OtherCommand

(***************************************************************************)
(* The scheduler starts syncs again and again: some sync always goes on.   *)
(* No single one has to, and no other command.                             *)
(***************************************************************************)
IntakeSpec ==
    IntakeInit /\ [][IntakeNext]_allVars /\ WF_allVars(\E y \in Syncs : SyncStep(y))

-----------------------------------------------------------------------------
(* Properties *)

(***************************************************************************)
(* Of the syncs that meet the same message, one reports it as new, and one *)
(* the event derived from it, however they overlap, fail and start again.  *)
(***************************************************************************)
CountedOnce ==
    \A e \in Emails : counted[e].message <= 1 /\ counted[e].event <= 1

(***************************************************************************)
(* Every message that arrives is stored and, if it parses, has its event   *)
(* in the end, although syncs fail half way through a listing and the next *)
(* one starts over, unless MaxResults newer messages came before that.     *)
(***************************************************************************)
Newer(e) ==
    {f \in ToSet(mailbox) : \E i, j \in DOMAIN mailbox :
                              mailbox[i] = e /\ mailbox[j] = f /\ i < j}

EveryMessageArrives ==
    \A e \in Emails :
      e \in ToSet(mailbox)
        ~> \/ e \in rawEmails /\ (e \in Parses => Stored(e))
           \/ Cardinality(Newer(e)) >= MaxResults
=============================================================================
