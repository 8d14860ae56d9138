----------------------------- MODULE PlanLibrary -----------------------------
(***************************************************************************)
(* Module PlanExecutor under every shipped plan at once.  The plan an       *)
(* execution follows also settles which operations its clients use on it.   *)
(***************************************************************************)
EXTENDS PlanExecutor, ShippedPlans

CONSTANTS
    Entries,       \* the entry nodes of the plans executions follow
    DiscoveryOps,  \* the operations used on each plan's executions
    IntakeOps,
    LegacyOps

OnDiscovery == row.node \in DiscoveryNodes
OnIntake    == row.node \in IntakeNodes
OnLegacy    == row.node \in LegacyNodes

AnyPlan ==
    /\ row \in {[NewState EXCEPT !.node = n] : n \in Entries}
    /\ req = [r \in Requests |-> Idle]
    /\ documents = 0
    /\ answerRows = <<>>

PlansSpec == AnyPlan /\ [][Next]_vars

\* Action constraint: what the plan's clients ask for.
AsDriven ==
    \A r \in Requests :
        req[r].op = "none" /\ req'[r].op # "none" =>
            \/ OnDiscovery /\ req'[r].op \in DiscoveryOps
            \/ OnIntake /\ req'[r].op \in IntakeOps
            \/ OnLegacy /\ req'[r].op \in LegacyOps

-----------------------------------------------------------------------------

\* The plan's data is the library's: the values the constants are given.
SideBySide ==
    /\ Nodes = LibraryNodes /\ Kind = LibraryKind /\ Producing = LibraryTasks
    /\ EndOutcome = PlanEnds /\ Edges = LibraryEdges /\ MaxRetries = BreakerLimit
    /\ Entries \subseteq Library.entries

\* What follows is about one request at a time.
OneRequest == \A r, s \in Requests : r = s

\* What the UI asks of an intake, and an operator who escalates its interrupt.
OperatorDriven == IntakeOps \subseteq {"message", "run", "edit", "cancel", "escalate"}

\* The intake classification goes on because the operator replied to it
\* (IntakeGateProfileExecutor._execute_confirmation_phase): while the UI's
\* messages and runs are all that drive it.
IntakeConfirmedByOperator == OnIntake => ConfirmedByOperator

\* Driven by one request at a time, a finished execution stays where it ended:
\* steps, messages, resolutions and cancellations each guard it in their own
\* way.  PATCH /field does not: it asks for the review phase alone
\* (update_field), so it rewrites a finished intake's interpretation.  That is
\* all it changes.
FinishedStays ==
    [][~OnLegacy /\ row.status \in Finished =>
        row' = row \/ (OnIntake /\ row' = [row EXCEPT !.ctx.edited = TRUE])]_row

\* Nothing is drafted before the operator's answers are there, whichever
\* way they came: through an interrupt (_execute_pgc_gate) or through /input
\* to the earlier plan's pgc node (_handle_pgc_user_answers).
DiscoveryDraftedFromAnswers == ~OnIntake => DraftedFromAnswers

\* A paused discovery waits for an answer it asked for or for a choice it
\* was to offer (_handle_user_input_pause, _execute_pgc_gate).
DiscoveryPausedForAReason == OnDiscovery => PausedForAReason
=============================================================================
