----------------------------- MODULE TenancyUse -----------------------------
(***************************************************************************)
(* Tenancy with a record of how the owner works: whether an advanced       *)
(* command has been used yet.  What the guided commands promise, they      *)
(* promise up to then; everything else holds with both kinds mixed.        *)
(***************************************************************************)
EXTENDS Tenancy

VARIABLE edited    \* history: an advanced command has edited an account or a schedule

useVars == <<vars, edited>>

UseInit == Init /\ edited = FALSE

UseNext ==
    \/ (GuidedNext \/ ObligationNext) /\ UNCHANGED edited
    \/ AdvancedNext /\ edited' = TRUE

UseSpec == UseInit /\ [][UseNext]_useVars

-----------------------------------------------------------------------------
(***************************************************************************)
(* Until an advanced command is used no month of an account is claimed by  *)
(* two schedules, so the generator never refuses and one account cannot    *)
(* stop the rent of all the others (_build_plan raises for all of them).   *)
(***************************************************************************)
GuidedUnambiguous == ~edited => GenerationUnambiguous

(***************************************************************************)
(* Until an advanced command is used a month some schedule charges stays a *)
(* month some schedule charges, through any rent changes, unless a tenancy *)
(* end closes it.                                                          *)
(***************************************************************************)
GuidedPlanKept ==
    [][~edited' =>
         \A a \in Accounts, m \in Periods :
           Sources(a, m) # {} => Sources(a, m)' # {} \/ m \in closed'[a]]_useVars

(***************************************************************************)
(* The architecture notes say guided setup and tenancy end never let a     *)
(* schedule claim part of a month.  Setup of a tenancy whose end is known  *)
(* to fall inside a month does, before any advanced command is used.       *)
(***************************************************************************)
NoPartialMonth ==
    ~edited => \A s \in Schedules : Exists(s) =>
      /\ MonthStart(schedule[s].from)
      /\ schedule[s].to = Forever \/ MonthStop(schedule[s].to)

=============================================================================
