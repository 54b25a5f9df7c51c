---------------------------- MODULE IntakeProofs ----------------------------
(***************************************************************************)
(* Proofs about Intake, for any mailbox and any number of syncs that       *)
(* overlap, fail and start again, next to the commands of the ledger.      *)
(***************************************************************************)
EXTENDS Intake, LedgerProofs

-----------------------------------------------------------------------------
(* What syncs write to the ledger *)

(***************************************************************************)
(* A sync has the columns it needs, and an email in hand when it inserts   *)
(* the event it parsed.                                                    *)
(***************************************************************************)
Syncing ==
    /\ DOMAIN sync = Syncs
    /\ \A y \in Syncs : /\ DOMAIN sync[y] = {"pc", "found", "todo", "at"}
                        /\ sync[y].pc = "parsed" => sync[y].at \in Emails

LEMMA InitSyncing == IntakeInit => Syncing
BY DEF IntakeInit, Syncing, SyncIdle

LEMMA SyncMoves ==
    ASSUME Syncing, NEW y \in Syncs, NEW x, sync' = [sync EXCEPT ![y] = x],
           DOMAIN x = {"pc", "found", "todo", "at"}, x.pc = "parsed" => x.at \in Emails
    PROVE  Syncing'
BY DEF Syncing

LEMMA NextSyncing == Syncing /\ [IntakeNext]_allVars => Syncing'
<1> SUFFICES ASSUME Syncing, [IntakeNext]_allVars PROVE Syncing'
  OBVIOUS
<1>1. CASE UNCHANGED sync
  BY <1>1 DEF Syncing
<1>2. ASSUME NEW y \in Syncs, SyncStart(y) \/ ProcessList(y) \/ SyncDone(y) \/ SyncFails(y)
      PROVE  Syncing'
  <2>1. CASE SyncStart(y)
    <3> DEFINE x == [SyncIdle EXCEPT !.pc = "ingest", !.found = Search]
    <3>1. DOMAIN x = {"pc", "found", "todo", "at"} /\ x.pc # "parsed"
      BY DEF SyncIdle
    <3>2. sync' = [sync EXCEPT ![y] = x]
      BY <2>1 DEF SyncStart
    <3> HIDE DEF x
    <3> QED
      BY <3>1, <3>2, SyncMoves
  <2>2. CASE ProcessList(y)
    <3> DEFINE x == [SyncIdle EXCEPT !.pc = "process", !.todo = rawEmails]
    <3>1. DOMAIN x = {"pc", "found", "todo", "at"} /\ x.pc # "parsed"
      BY DEF SyncIdle
    <3>2. sync' = [sync EXCEPT ![y] = x]
      BY <2>2 DEF ProcessList
    <3> HIDE DEF x
    <3> QED
      BY <3>1, <3>2, SyncMoves
  <2>3. CASE SyncDone(y) \/ SyncFails(y)
    BY <2>3, SyncMoves DEF SyncDone, SyncFails, SyncIdle
  <2> QED
    BY <1>2, <2>1, <2>2, <2>3
<1>3. ASSUME NEW y \in Syncs, NEW e \in Emails,
             IngestPresent(y) \/ IngestFetch(y) \/ IngestInsert(y) \/ ProcessInsert(y)
               \/ ProcessPass(y, e) \/ ProcessParse(y, e)
      PROVE  Syncing'
  BY <1>3 DEF Syncing, IngestPresent, IngestFetch, IngestInsert, ProcessInsert, ProcessPass,
     ProcessParse
<1>4. ASSUME NEW y \in Syncs, IngestPresent(y) \/ IngestFetch(y) \/ IngestInsert(y) \/ ProcessInsert(y)
      PROVE  Syncing'
  BY <1>4 DEF Syncing, IngestPresent, IngestFetch, IngestInsert, ProcessInsert
<1>5. (\E e \in Emails : Deliver(e)) \/ OtherCommand \/ UNCHANGED allVars => UNCHANGED sync
  BY DEF Deliver, OtherCommand, intakeVars, allVars
<1> QED
  BY <1>1, <1>2, <1>3, <1>4, <1>5 DEF IntakeNext, SyncStep

LEMMA SyncsUseTheLedger == Syncing /\ [IntakeNext]_allVars => [Next]_vars
<1> SUFFICES ASSUME Syncing, IntakeNext PROVE [Next]_vars
  BY DEF allVars
<1>1. ASSUME NEW y \in Syncs, ProcessInsert(y)
      PROVE  [Next]_vars
  BY <1>1 DEF ProcessInsert, Syncing, Next, GmailNext
<1>2. ASSUME NEW y \in Syncs, SyncStep(y) \/ SyncFails(y)
      PROVE  ProcessInsert(y) \/ UNCHANGED vars
  BY <1>2 DEF SyncStep, SyncFails, SyncStart, IngestPresent, IngestFetch, IngestInsert,
     ProcessList, SyncDone, ProcessPass, ProcessParse
<1>3. ASSUME NEW e \in Emails, Deliver(e)
      PROVE  UNCHANGED vars
  BY <1>3 DEF Deliver
<1>4. CASE OtherCommand
  BY <1>4 DEF OtherCommand, Next, GmailNext
<1> QED
  BY <1>1, <1>2, <1>3, <1>4 DEF IntakeNext

(***************************************************************************)
(* The ledger with syncs that overlap and fail is the ledger: what a sync  *)
(* writes from what it read long before is what one checked insertion      *)
(* would write now.  All that is proved of the ledger holds with syncs.    *)
(***************************************************************************)
THEOREM SyncsImplementLedger == IntakeSpec => Spec
<1>1. IntakeInit => Init
  BY DEF IntakeInit
<1> QED
  BY <1>1, InitSyncing, NextSyncing, SyncsUseTheLedger, PTL DEF IntakeSpec, Spec

-----------------------------------------------------------------------------
(* Counting *)

(***************************************************************************)
(* What was reported as new is stored, and nothing stored goes away.       *)
(***************************************************************************)
Counted ==
    /\ counted \in [Emails -> [message : {0, 1}, event : {0, 1}]]
    /\ \A e \in Emails : /\ counted[e].message = 1 => e \in rawEmails
                         /\ counted[e].event = 1 => Stored(e)

LEMMA NextCounted ==
    TypeOK /\ Syncing /\ Counted /\ [IntakeNext]_allVars => Counted'
<1> SUFFICES ASSUME TypeOK, Syncing, Counted, [IntakeNext]_allVars PROVE Counted'
  OBVIOUS
<1>1. \A e \in Emails : Stored(e) => Stored(e)'
  BY StoredStays, SyncsUseTheLedger DEF Payments
<1>2. CASE UNCHANGED <<rawEmails, counted>>
  BY <1>1, <1>2 DEF Counted
<1>3. ASSUME NEW y \in Syncs, IngestInsert(y)
      PROVE  Counted'
  <2>1. PICK e : rawEmails' = rawEmails \cup {e} /\ Count(e, "message", e \notin rawEmails)
    BY <1>3 DEF IngestInsert
  <2>2. counted' = [counted EXCEPT ![e]["message"] = @ + IF e \notin rawEmails THEN 1 ELSE 0]
    BY <2>1 DEF Count
  <2>3. ASSUME NEW x \in Emails
        PROVE  /\ counted'[x] \in [message : {0, 1}, event : {0, 1}]
               /\ counted'[x].message = 1 => x \in rawEmails'
               /\ counted'[x].event = counted[x].event
    BY <2>1, <2>2 DEF Counted
  <2> QED
    BY <1>1, <2>2, <2>3 DEF Counted
<1>4. ASSUME NEW y \in Syncs, ProcessInsert(y)
      PROVE  Counted'
  <2>0. PICK e \in Emails : e = sync[y].at
    BY <1>4 DEF ProcessInsert, Syncing
  <2>1. /\ ProcessEmail(e) \/ (Stored(e) /\ UNCHANGED vars)
        /\ Count(e, "event", ~Stored(e))
    BY <1>4, <2>0 DEF ProcessInsert
  <2>2. counted' = [counted EXCEPT ![e]["event"] = @ + IF ~Stored(e) THEN 1 ELSE 0]
        /\ rawEmails' = rawEmails
    BY <1>4, <2>1 DEF Count, ProcessInsert
  <2>3. Stored(e)'
    BY <1>1, <2>1 DEF ProcessEmail, Stored, TypeOK, Payments
  <2>4. ASSUME NEW x \in Emails
        PROVE  /\ counted'[x] \in [message : {0, 1}, event : {0, 1}]
               /\ counted'[x].event = 1 => x = e \/ Stored(x)
               /\ counted'[x].message = counted[x].message
    BY <2>1, <2>2 DEF Counted
  <2> QED
    BY <1>1, <2>2, <2>3, <2>4 DEF Counted
<1>5. ASSUME NEW y \in Syncs, SyncStep(y) \/ SyncFails(y)
      PROVE  IngestInsert(y) \/ ProcessInsert(y) \/ UNCHANGED <<rawEmails, counted>>
  BY <1>5 DEF SyncStep, SyncFails, SyncStart, IngestPresent, IngestFetch,
     ProcessList, SyncDone, ProcessPass, ProcessParse
<1>6. (\E e \in Emails : Deliver(e)) \/ OtherCommand \/ UNCHANGED allVars
        => UNCHANGED <<rawEmails, counted>>
  BY DEF Deliver, OtherCommand, intakeVars, allVars
<1> QED
  BY <1>2, <1>3, <1>4, <1>5, <1>6 DEF IntakeNext

(***************************************************************************)
(* Of all the syncs that meet a message, however they overlap, fail and    *)
(* start again, at most one reports it as new, and one its event.          *)
(***************************************************************************)
THEOREM ReportedOnce == IntakeSpec => []CountedOnce
<1>1. IntakeInit => Counted
  BY DEF IntakeInit, Counted
<1>2. Counted => CountedOnce
  BY DEF Counted, CountedOnce
<1> QED
  BY <1>1, <1>2, InitSyncing, NextSyncing, NextCounted, SyncsImplementLedger,
     LedgerTypeCorrect, PTL DEF IntakeSpec
=============================================================================
