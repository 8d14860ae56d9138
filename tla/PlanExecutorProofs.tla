------------------------- MODULE PlanExecutorProofs -------------------------
(***************************************************************************)
(* Proofs about module PlanExecutor, for every plan, any number of requests *)
(* and any bounds: type correctness, and the retry budget of the circuit    *)
(* breaker under arbitrary interleaving of requests; and, last, about the   *)
(* shipped plans side by side, driven by one request at a time.             *)
(*                                                                          *)
(* RetryBudget speaks of the row; a request may publish a copy it loaded    *)
(* long before, so the inductive invariant says the same of every copy in   *)
(* flight.  The argument about a copy is local: the only step that raises a *)
(* counter is Advances, along an edge that loops back, and such an edge     *)
(* was selected because that very counter, in that very copy, was below     *)
(* its limit.                                                               *)
(***************************************************************************)
EXTENDS PlanLibrary, TLAPS

\* A state whose counters respect the limit: what every copy must be.
BudgetedStates == {st \in States : \A n \in Nodes : st.retries[n] <= MaxRetries}

BudgetedRequests == {q \in RequestStates : q.st \in BudgetedStates}

Inv ==
    /\ row \in BudgetedStates
    /\ req \in [Requests -> BudgetedRequests]
    /\ documents \in Nat
    /\ answerRows \in Seq(Answers)

-----------------------------------------------------------------------------

\* An execution starts within its budget.
LEMMA NewStateBudgeted == NewState \in BudgetedStates
<1>1. NewState.ctx \in Contexts
  BY DEF NewState, Contexts
<1>2. /\ NewState.retries \in [Nodes -> Nat]
      /\ \A n \in Nodes : NewState.retries[n] <= MaxRetries
  BY PlanAssumption DEF NewState
<1>3. /\ NewState.node \in Nodes
      /\ NewState.terminal \in Outcomes
      /\ NewState.offered \subseteq Options
  BY PlanAssumption DEF NewState, Outcomes
<1> QED
  BY <1>1, <1>2, <1>3 DEF NewState, BudgetedStates, States, Statuses

\* The mutators that leave the counters alone keep a state within budget.
LEMMA RecordExecutionBudgeted ==
    ASSUME NEW st \in BudgetedStates, NEW n \in Nodes
    PROVE  RecordExecution(st, n) \in BudgetedStates
BY DEF RecordExecution, BudgetedStates, States

LEMMA SetPausedBudgeted ==
    ASSUME NEW st \in BudgetedStates, NEW payload \in BOOLEAN
    PROVE  SetPaused(st, payload) \in BudgetedStates
BY DEF SetPaused, BudgetedStates, States, Statuses

LEMMA ClearPauseBudgeted ==
    ASSUME NEW st \in BudgetedStates
    PROVE  ClearPause(st) \in BudgetedStates
BY DEF ClearPause, BudgetedStates, States, Statuses

LEMMA SetEscalationBudgeted ==
    ASSUME NEW st \in BudgetedStates, NEW options \in SUBSET Options
    PROVE  SetEscalation(st, options) \in BudgetedStates
BY DEF SetEscalation, BudgetedStates, States, Statuses

LEMMA ClearEscalationBudgeted ==
    ASSUME NEW st \in BudgetedStates
    PROVE  ClearEscalation(st) \in BudgetedStates
BY DEF ClearEscalation, BudgetedStates, States, Statuses

LEMMA SetCompletedBudgeted ==
    ASSUME NEW st \in BudgetedStates, NEW outcome \in Outcomes
    PROVE  SetCompleted(st, outcome) \in BudgetedStates
BY DEF SetCompleted, BudgetedStates, States, Statuses

LEMMA SetFailedBudgeted ==
    ASSUME NEW st \in BudgetedStates
    PROVE  SetFailed(st) \in BudgetedStates
<1> DEFINE failed == [st EXCEPT !.status = "failed"]
<1>1. failed \in BudgetedStates /\ failed.node \in Nodes /\ failed.node = st.node
  BY DEF BudgetedStates, States, Statuses
<1> QED
  BY <1>1, RecordExecutionBudgeted DEF SetFailed

LEMMA IncrementRetryBudgeted ==
    ASSUME NEW st \in BudgetedStates, NEW n \in Nodes, st.retries[n] < MaxRetries
    PROVE  IncrementRetry(st, n) \in BudgetedStates
<1> DEFINE counters == [st.retries EXCEPT ![n] = @ + 1]
<1>1. st.retries \in [Nodes -> Nat] /\ \A m \in Nodes : st.retries[m] <= MaxRetries
  BY DEF BudgetedStates, States
<1>2. counters \in [Nodes -> Nat] /\ \A m \in Nodes : counters[m] <= MaxRetries
  BY <1>1, PlanAssumption
<1>3. IncrementRetry(st, n) = [st EXCEPT !.retries = counters]
  BY DEF IncrementRetry, BudgetedStates, States
<1> HIDE DEF counters
<1> QED
  BY <1>2, <1>3 DEF BudgetedStates, States

\* The context has no part in the budget: any well-typed one will do.
LEMMA ContextBudgeted ==
    ASSUME NEW st \in BudgetedStates, NEW ctx \in Contexts
    PROVE  [st EXCEPT !.ctx = ctx] \in BudgetedStates
BY DEF BudgetedStates, States

LEMMA SavedBudgeted ==
    ASSUME NEW st \in BudgetedStates
    PROVE  Saved(st) \in BudgetedStates
BY DEF Saved, BudgetedStates, States
-----------------------------------------------------------------------------

\* A request between operations holds a budgeted state.
LEMMA IdleBudgeted == Idle \in BudgetedRequests
BY NewStateBudgeted DEF Idle, BudgetedRequests, BudgetedStates, RequestStates, Points, Inputs

\* Whatever a request holds once execute_step has returned.
LEMMA AfterStepBudgeted ==
    ASSUME NEW q \in BudgetedRequests, NEW st
    PROVE  AfterStep(q, st) \in BudgetedRequests
<1> DEFINE next == [q EXCEPT !.st = NewState, !.input = NoInput, !.answered = NoAnswers]
<1>1. next \in BudgetedRequests
  BY NewStateBudgeted DEF BudgetedRequests, BudgetedStates, RequestStates, Inputs
<1>2. \A p \in Points : [next EXCEPT !.pc = p] \in BudgetedRequests
  BY <1>1 DEF BudgetedRequests, RequestStates
<1>3. [next EXCEPT !.op = "run", !.pc = "check"] \in BudgetedRequests
  BY <1>1 DEF BudgetedRequests, RequestStates, Points, AllOps
<1> QED
  BY <1>2, <1>3, IdleBudgeted DEF AfterStep, Points

LEMMA AnswersSeenTyped ==
    ASSUME Inv, NEW r \in Requests
    PROVE  AnswersSeen(r) \in Seq(Answers)
<1>1. req[r].answered \in Answers \cup {NoAnswers}
  BY DEF Inv, BudgetedRequests, RequestStates
<1> QED
  BY <1>1 DEF AnswersSeen, Inv

\* A save of a budgeted state keeps the invariant.
LEMMA CommitBudgeted ==
    ASSUME Inv, NEW r \in Requests, NEW st \in BudgetedStates,
           Commit(r, st), UNCHANGED documents
    PROVE  Inv'
<1>1. row' \in BudgetedStates
  BY SavedBudgeted DEF Commit
<1>2. req' \in [Requests -> BudgetedRequests]
  BY AfterStepBudgeted DEF Commit, Inv
<1>3. answerRows' \in Seq(Answers)
  BY AnswersSeenTyped DEF Commit, FileAnswers
<1> QED
  BY <1>1, <1>2, <1>3 DEF Inv

\* A handler that writes a budgeted row and answers keeps the invariant.
LEMMA AnswerBudgeted ==
    ASSUME Inv, NEW r \in Requests, NEW st \in BudgetedStates,
           row' = st, Answered(r), UNCHANGED <<documents, answerRows>>
    PROVE  Inv'
BY IdleBudgeted DEF Inv, Answered

-----------------------------------------------------------------------------
(***************************************************************************)
(* Routing                                                                  *)
(***************************************************************************)

\* An edge the router selects is an edge of the plan that leaves the current
\* node under this outcome and whose conditions all hold.
LEMMA SelectedEdge ==
    ASSUME NEW st, NEW outcome, NEW e \in Selected(st, outcome)
    PROVE  \E i \in DOMAIN Edges :
              /\ e = Edges[i] /\ e.from = st.node /\ e.outcome = outcome
              /\ \A c \in e.conditions : Holds(c, st)
BY DEF Selected, Matching

\* _find_generating_node names a node of the plan or none.
LEMMA TrackedBudgeted ==
    ASSUME NEW st \in BudgetedStates, NEW outcome
    PROVE  Tracked(st, outcome) \in BudgetedStates
<1>1. GeneratingNode(st) \in Nodes \cup {NoNode}
  BY DEF GeneratingNode, BudgetedStates, States
<1> QED
  BY <1>1 DEF Tracked, BudgetedStates, States

\* An edge that loops back was selected with the counter below its limit.
LEMMA LoopsWithinBudget ==
    ASSUME NEW st \in BudgetedStates, NEW outcome \in Rejections,
           NEW e \in Selected(st, outcome),
           IsQaGate(st.node), e.to # NoNode, e.to \notin EndNodes, st.gen # NoNode
    PROVE  st.retries[st.gen] < MaxRetries
<1>1. PICK i \in DOMAIN Edges :
         /\ e = Edges[i] /\ e.from = st.node /\ e.outcome = outcome
         /\ \A c \in e.conditions : Holds(c, st)
  BY SelectedEdge
<1>2. LoopsBack(Edges[i])
  BY <1>1, PlanAssumption DEF LoopsBack, EndNodes
<1>3. PICK c \in Edges[i].conditions :
         /\ c.type = "retry_count" /\ c.op = "lt"
         /\ c.value \in Nat /\ c.value <= MaxRetries
  BY <1>2, BreakerAssumption
<1>4. Holds(c, st)
  BY <1>1, <1>3
<1>5. st.retries[st.gen] < c.value
  BY <1>3, <1>4 DEF Holds, Compare, RetryKey
<1>6. st.retries[st.gen] \in Nat
  BY DEF BudgetedStates, States
<1> QED
  BY <1>3, <1>5, <1>6, PlanAssumption

LEMMA AdvancesBudgeted ==
    ASSUME Inv, NEW r \in Requests, NEW st \in BudgetedStates, NEW outcome,
           NEW e \in Selected(st, outcome), Advances(r, st, e, outcome)
    PROVE  Inv'
<1> DEFINE next == [st EXCEPT !.node = e.to]
<1>1. e.to \in Nodes
  BY SelectedEdge, PlanAssumption DEF Advances
<1>2. next \in BudgetedStates /\ next.retries = st.retries
  BY <1>1 DEF BudgetedStates, States
<1>3. CASE IsQaGate(st.node) /\ outcome \in Rejections /\ st.gen # NoNode
  <2>1. st.retries[st.gen] < MaxRetries /\ st.gen \in Nodes
    BY <1>3, LoopsWithinBudget DEF Advances, BudgetedStates, States
  <2>2. IncrementRetry(next, st.gen) \in BudgetedStates
    BY <1>2, <2>1, IncrementRetryBudgeted
  <2> QED
    BY <1>3, <2>2, CommitBudgeted DEF Advances
<1>4. CASE ~(IsQaGate(st.node) /\ outcome \in Rejections /\ st.gen # NoNode)
  BY <1>2, <1>4, CommitBudgeted DEF Advances
<1> QED
  BY <1>3, <1>4

\* Completing at an end node takes that node's outcome.
LEMMA CompletedBudgeted ==
    ASSUME NEW st \in BudgetedStates, NEW e, e.to \in EndNodes
    PROVE  Completed(st, e) \in BudgetedStates
<1>1. [st EXCEPT !.node = e.to] \in BudgetedStates
  BY DEF EndNodes, BudgetedStates, States
<1>2. EndOutcome[e.to] \in Outcomes
  BY DEF Outcomes, PlanOutcomes
<1> QED
  BY <1>1, <1>2, SetCompletedBudgeted DEF Completed

LEMMA PublishingBudgeted ==
    ASSUME Inv, NEW r \in Requests, NEW st \in BudgetedStates, NEW e,
           CompletesPublishing(r, st, e)
    PROVE  Inv'
<1>1. Completed(st, e) \in BudgetedStates
  BY CompletedBudgeted DEF CompletesPublishing
<1>2. req' \in [Requests -> BudgetedRequests]
  <2>1. req[r] \in BudgetedRequests
    BY DEF Inv
  <2>2. [req[r] EXCEPT !.pc = "save", !.st = Completed(st, e), !.answered = NoAnswers]
           \in BudgetedRequests
    BY <1>1, <2>1 DEF BudgetedRequests, RequestStates, Points, BudgetedStates
  <2>3. req' = [req EXCEPT ![r] =
                  [@ EXCEPT !.pc = "save", !.st = Completed(st, e), !.answered = NoAnswers]]
    BY DEF CompletesPublishing, Inv
  <2> QED
    BY <2>2, <2>3 DEF Inv
<1>3. answerRows' \in Seq(Answers)
  BY AnswersSeenTyped DEF CompletesPublishing, FileAnswers
<1> QED
  BY <1>2, <1>3 DEF CompletesPublishing, Inv

\* Routing any outcome from a budgeted copy.
LEMMA RoutesBudgeted ==
    ASSUME Inv, NEW r \in Requests, NEW st0 \in BudgetedStates, NEW outcome,
           Routes(r, st0, outcome)
    PROVE  Inv'
<1> DEFINE st == Tracked(st0, outcome)
<1>1. st \in BudgetedStates
  BY TrackedBudgeted
<1> HIDE DEF st
<1>2. CASE FindsNoEdge(r, st, outcome)
  BY <1>1, <1>2, SetFailedBudgeted, CommitBudgeted DEF FindsNoEdge
<1>3. ASSUME NEW e \in Selected(st, outcome), StaysPut(r, st, e) PROVE Inv'
  <2>1. e.options \subseteq Options
    BY <1>1, SelectedEdge, OptionsAssumption
  <2>2. (IF e.options = {} THEN st ELSE SetEscalation(st, e.options)) \in BudgetedStates
    BY <1>1, <2>1, SetEscalationBudgeted
  <2> QED
    BY <1>3, <2>2, CommitBudgeted DEF StaysPut
<1>4. ASSUME NEW e \in Selected(st, outcome), Advances(r, st, e, outcome) PROVE Inv'
  BY <1>1, <1>4, AdvancesBudgeted
<1>5. ASSUME NEW e \in Selected(st, outcome), CompletesUnpublished(r, st, e) PROVE Inv'
  BY <1>1, <1>5, CompletedBudgeted, CommitBudgeted DEF CompletesUnpublished
<1>6. ASSUME NEW e \in Selected(st, outcome), CompletesPublishing(r, st, e) PROVE Inv'
  BY <1>1, <1>6, PublishingBudgeted
<1> QED
  BY <1>2, <1>3, <1>4, <1>5, <1>6 DEF Routes, st

-----------------------------------------------------------------------------
(***************************************************************************)
(* Requests arriving, and the entry of execute_step                         *)
(***************************************************************************)

LEMMA ArrivalBudgeted ==
    ASSUME Inv, NEW r \in Requests, Arrival(r)
    PROVE  Inv'
<1>1. ASSUME NEW q \in BudgetedRequests, Arrives(r, q),
             UNCHANGED <<row, documents, answerRows>>
      PROVE  Inv'
  BY <1>1 DEF Arrives, Inv
<1>2. CASE BeginWork(r)
  <2>1. \A op \in AllOps, p \in Points :
           [Idle EXCEPT !.op = op, !.pc = p] \in BudgetedRequests
    BY IdleBudgeted DEF BudgetedRequests, RequestStates
  <2> QED
    BY <1>1, <1>2, <2>1, ExecutorAssumption DEF BeginWork, Points
<1>3. CASE SubmitInput(r)
  <2>1. \A op \in AllOps, i \in Inputs, a \in Answers \cup {NoAnswers} :
           [Idle EXCEPT !.op = op, !.pc = "load", !.input = i, !.answered = a]
              \in BudgetedRequests
    BY IdleBudgeted DEF BudgetedRequests, RequestStates, Points
  <2> QED
    BY <1>1, <1>3, <2>1, ExecutorAssumption DEF SubmitInput, Inputs
<1>4. CASE BeginCommand(r)
  <2>1. \A op \in AllOps :
           [Idle EXCEPT !.op = op, !.pc = "command", !.st = row] \in BudgetedRequests
    BY IdleBudgeted DEF BudgetedRequests, BudgetedStates, RequestStates, Points, Inv
  <2> QED
    BY <1>1, <1>4, <2>1, ExecutorAssumption DEF BeginCommand
<1> QED
  BY <1>2, <1>3, <1>4 DEF Arrival

\* Resuming from a pause and loading filed answers leave the counters alone.
LEMMA LoadedBudgeted ==
    ASSUME NEW st \in BudgetedStates, NEW input, NEW filed \in Seq(Answers)
    PROVE  WithFiledAnswers([Resumed(st, input) EXCEPT !.status = "running"], filed)
              \in BudgetedStates
<1> DEFINE on == [Resumed(st, input) EXCEPT !.status = "running"]
           told == [on.ctx EXCEPT !.questions = TRUE, !.answers = filed[1],
                                  !.clarified = filed[1]]
<1>1. Resumed(st, input) \in BudgetedStates
  BY ClearPauseBudgeted DEF Resumed
<1>2. on \in BudgetedStates
  BY <1>1 DEF BudgetedStates, States, Statuses
<1> HIDE DEF on
<1>3. ASSUME Len(filed) = 1
      PROVE  [on EXCEPT !.ctx.questions = TRUE, !.ctx.answers = filed[1],
                        !.ctx.clarified = filed[1]] \in BudgetedStates
  <2>1. filed[1] \in Answers
    BY <1>3
  <2>2. on.ctx \in Contexts
    BY <1>2 DEF BudgetedStates, States
  <2>3. told \in Contexts
    BY <2>1, <2>2 DEF Contexts
  <2>4. [on EXCEPT !.ctx.questions = TRUE, !.ctx.answers = filed[1],
                   !.ctx.clarified = filed[1]] = [on EXCEPT !.ctx = told]
    BY <1>2, <2>1, <2>2 DEF BudgetedStates, States, Contexts
  <2> QED
    BY <1>2, <2>3, <2>4, ContextBudgeted
<1>4. WithFiledAnswers(on, filed) \in BudgetedStates
  BY <1>2, <1>3 DEF WithFiledAnswers
<1> QED
  BY <1>4 DEF on

LEMMA SteppingBudgeted ==
    ASSUME Inv, NEW r \in Requests, Stepping(r)
    PROVE  Inv'
<1>1. req[r] \in BudgetedRequests /\ AnswersSeen(r) \in Seq(Answers)
  BY AnswersSeenTyped DEF Inv
<1>2. CASE RunEnds(r)
  BY <1>2, IdleBudgeted DEF RunEnds, Inv
<1>3. CASE RunContinues(r)
  <2> DEFINE k == req[r].steps + 1
  <2>1. k \in Nat
    BY <1>1 DEF BudgetedRequests, RequestStates
  <2>2. req' = [req EXCEPT ![r] = [@ EXCEPT !.pc = "load", !.steps = k]]
    BY <1>3 DEF RunContinues, Inv
  <2> HIDE DEF k
  <2>3. [req[r] EXCEPT !.pc = "load", !.steps = k] \in BudgetedRequests
    BY <1>1, <2>1 DEF BudgetedRequests, RequestStates, Points
  <2> QED
    BY <1>3, <2>2, <2>3 DEF RunContinues, Inv
<1>4. CASE StepReturns(r)
  BY <1>1, <1>4, AfterStepBudgeted DEF StepReturns, FileAnswers, Inv
<1>5. CASE StepExecutes(r)
  <2> DEFINE st == WithFiledAnswers([Resumed(row, req[r].input) EXCEPT !.status = "running"],
                                    AnswersSeen(r))
  <2>1. st \in BudgetedStates
    BY <1>1, LoadedBudgeted DEF Inv
  <2>2. req' = [req EXCEPT ![r] = [@ EXCEPT !.pc = "exec", !.st = st]]
    BY <1>5 DEF StepExecutes, Inv
  <2> HIDE DEF st
  <2>3. [req[r] EXCEPT !.pc = "exec", !.st = st] \in BudgetedRequests
    BY <1>1, <2>1 DEF BudgetedRequests, RequestStates, Points, BudgetedStates
  <2> QED
    BY <1>5, <2>2, <2>3 DEF StepExecutes, Inv
<1>6. CASE PgcNodeAnswered(r)
  <2> DEFINE a == req[r].input
             open == ClearPause(row)
             c == IF Len(AnswersSeen(r)) = 1 THEN a ELSE NoAnswers
             told == [open.ctx EXCEPT !.answers = a, !.clarified = c]
  <2>1. a \in Answers /\ open \in BudgetedStates
    BY <1>6, ClearPauseBudgeted DEF PgcNodeAnswered, AnswersPgcNode, Inv
  <2>2. open.ctx \in Contexts
    BY <2>1 DEF BudgetedStates, States
  <2>3. told \in Contexts
    BY <2>1, <2>2 DEF Contexts
  <2> HIDE DEF a, open, c
  <2>4. [open EXCEPT !.ctx.answers = a, !.ctx.clarified = c] = [open EXCEPT !.ctx = told]
    BY <2>1, <2>2 DEF BudgetedStates, States, Contexts
  <2>5. [open EXCEPT !.ctx.answers = a, !.ctx.clarified = c] \in BudgetedStates
    BY <2>1, <2>3, <2>4, ContextBudgeted
  <2> DEFINE st == [open EXCEPT !.ctx.answers = a, !.ctx.clarified = c]
  <2> HIDE DEF st
  <2>6. PICK e \in Selected(st, "success") :
           e.to # NoNode /\ row' = Saved([st EXCEPT !.node = e.to])
    BY <1>6 DEF PgcNodeAnswered, st, open, a, c
  <2>7. e.to \in Nodes
    BY <2>6, SelectedEdge, PlanAssumption
  <2>8. [st EXCEPT !.node = e.to] \in BudgetedStates
    BY <2>5, <2>7 DEF st, BudgetedStates, States
  <2>9. row' \in BudgetedStates
    BY <2>6, <2>8, SavedBudgeted
  <2>10. [req[r] EXCEPT !.input = NoInput, !.answered = NoAnswers] \in BudgetedRequests
    BY <1>1 DEF BudgetedRequests, RequestStates, Inputs
  <2>11. req' = [req EXCEPT ![r] = [@ EXCEPT !.input = NoInput, !.answered = NoAnswers]]
    BY <1>6 DEF PgcNodeAnswered, Inv
  <2> QED
    BY <1>1, <1>6, <2>9, <2>10, <2>11 DEF PgcNodeAnswered, FileAnswers, Inv
<1>7. CASE SavePublished(r)
  <2>1. [req[r] EXCEPT !.pc = "spawn"] \in BudgetedRequests
    BY <1>1 DEF BudgetedRequests, RequestStates, Points
  <2>2. row' \in BudgetedStates
    BY <1>1, <1>7, SavedBudgeted DEF SavePublished, BudgetedRequests
  <2> QED
    BY <1>7, <2>1, <2>2 DEF SavePublished, Inv
<1>8. CASE SaveCompleted(r)
  BY <1>1, <1>8, CommitBudgeted DEF SaveCompleted, BudgetedRequests
<1> QED
  BY <1>2, <1>3, <1>4, <1>5, <1>6, <1>7, <1>8 DEF Stepping

-----------------------------------------------------------------------------
(***************************************************************************)
(* Node executors and commands                                              *)
(***************************************************************************)

\* Recording an execution in a copy, with whatever its node adds to the
\* context, leaves a budgeted copy.
LEMMA RecordedBudgeted ==
    ASSUME Inv, NEW r \in Requests
    PROVE  Recorded(r) \in BudgetedStates /\ Recorded(r).ctx \in Contexts
<1>1. req[r].st \in BudgetedStates
  BY DEF Inv, BudgetedRequests
<1>2. req[r].st.node \in Nodes
  BY <1>1 DEF BudgetedStates, States
<1>3. Recorded(r) \in BudgetedStates
  BY <1>1, <1>2, RecordExecutionBudgeted DEF Recorded
<1> QED
  BY <1>3 DEF BudgetedStates, States

LEMMA PausesBudgeted ==
    ASSUME Inv, NEW r \in Requests, NEW st \in BudgetedStates,
           NEW payload \in BOOLEAN, Pauses(r, st, payload)
    PROVE  Inv'
BY SetPausedBudgeted, CommitBudgeted DEF Pauses

LEMMA ExecutorBudgeted ==
    ASSUME Inv, NEW r \in Requests, Executor(r)
    PROVE  Inv'
<1> DEFINE st == Recorded(r)
<1>1. st \in BudgetedStates /\ st.ctx \in Contexts
  BY RecordedBudgeted
<1> HIDE DEF st
<1>2. CASE PgcGateAsks(r)
  <2>1. [st EXCEPT !.ctx.questions = TRUE] \in BudgetedStates
    BY <1>1 DEF BudgetedStates, States, Contexts
  <2> QED
    BY <1>1, <1>2, <2>1, PausesBudgeted, RoutesBudgeted DEF PgcGateAsks, st
<1>3. CASE PgcGateWaits(r)
  BY <1>1, <1>3, PausesBudgeted DEF PgcGateWaits, st
<1>4. CASE PgcGateMerges(r)
  <2>1. [st EXCEPT !.ctx.phase = "merge"] \in BudgetedStates
    BY <1>1 DEF BudgetedStates, States, Contexts
  <2> QED
    BY <1>4, <2>1, RoutesBudgeted DEF PgcGateMerges, st
<1>5. CASE PgcNodeAsks(r)
  BY <1>1, <1>5, PausesBudgeted, RoutesBudgeted DEF PgcNodeAsks, st
<1>6. CASE IntakeAsks(r)
  BY <1>1, <1>6, PausesBudgeted DEF IntakeAsks, st
<1>7. CASE IntakeClassifies(r)
  <2>1. [st EXCEPT !.ctx.gatePhase = "awaiting_confirmation"] \in BudgetedStates
    BY <1>1 DEF BudgetedStates, States, Contexts
  <2> QED
    BY <1>7, <2>1, PausesBudgeted DEF IntakeClassifies, st
<1>8. CASE IntakeRejects(r)
  BY <1>1, <1>8, RoutesBudgeted DEF IntakeRejects, st
<1>9. CASE IntakeConfirms(r)
  <2> DEFINE by == IF Spoken(r) THEN "operator" ELSE "default"
             told == [st.ctx EXCEPT !.gatePhase = "complete", !.phase = "review",
                                    !.confirmed = by]
  <2>1. told \in Contexts
    BY <1>1 DEF Contexts
  <2>2. [st EXCEPT !.ctx.gatePhase = "complete", !.ctx.phase = "review",
                   !.ctx.confirmed = by] = [st EXCEPT !.ctx = told]
    BY <1>1 DEF BudgetedStates, States, Contexts
  <2>3. [st EXCEPT !.ctx.gatePhase = "complete", !.ctx.phase = "review",
                   !.ctx.confirmed = by] \in BudgetedStates
    BY <1>1, <2>1, <2>2, ContextBudgeted
  <2> QED
    BY <1>9, <2>3, RoutesBudgeted DEF IntakeConfirms, st
<1>10. CASE IntakeIsComplete(r)
  BY <1>1, <1>10, RoutesBudgeted DEF IntakeIsComplete, st
<1>11. CASE TaskRuns(r)
  <2> DEFINE made == IF st.node \in Producing
                     THEN [st EXCEPT !.ctx.draft = st.ctx.answers] ELSE st
  <2>1. [st EXCEPT !.ctx.draft = st.ctx.answers] \in BudgetedStates
    BY <1>1 DEF BudgetedStates, States, Contexts
  <2>2. made \in BudgetedStates
    BY <1>1, <2>1
  <2> QED
    BY <1>1, <1>11, <2>2, RoutesBudgeted DEF TaskRuns, st
<1>12. CASE QaJudges(r)
  BY <1>1, <1>12, RoutesBudgeted DEF QaJudges, st
<1>13. CASE EndReports(r)
  BY <1>1, <1>13, RoutesBudgeted DEF EndReports, st
<1>14. CASE NodeRaises(r)
  <2>1. Saved(SetFailed(req[r].st)) \in BudgetedStates
    BY SavedBudgeted, SetFailedBudgeted DEF Inv, BudgetedRequests
  <2> QED
    BY <1>14, <2>1, IdleBudgeted, AnswersSeenTyped DEF NodeRaises, FileAnswers, Inv
<1> QED
  BY <1>2, <1>3, <1>4, <1>5, <1>6, <1>7, <1>8, <1>9, <1>10, <1>11, <1>12, <1>13, <1>14
     DEF Executor

LEMMA CommandBudgeted ==
    ASSUME Inv, NEW r \in Requests, Command(r)
    PROVE  Inv'
<1> DEFINE st == req[r].st
<1>1. st \in BudgetedStates /\ st.node \in Nodes /\ st.ctx \in Contexts
  BY DEF Inv, BudgetedRequests, BudgetedStates, States
<1>2. row \in BudgetedStates
  BY DEF Inv
<1> HIDE DEF st
<1>3. CASE Cancels(r)
  <2> DEFINE open == IF ClearEscalation(st).pending
                     THEN ClearPause(ClearEscalation(st)) ELSE ClearEscalation(st)
             done == SetCompleted(open, "cancelled")
  <2>1. open \in BudgetedStates /\ open.node \in Nodes
    BY <1>1, ClearEscalationBudgeted, ClearPauseBudgeted DEF BudgetedStates, States
  <2> HIDE DEF open
  <2>2. done \in BudgetedStates
    BY <2>1, SetCompletedBudgeted DEF Outcomes
  <2>3. RecordExecution(done, open.node) \in BudgetedStates
    BY <2>1, <2>2, RecordExecutionBudgeted
  <2> QED
    BY <1>3, <2>3, SavedBudgeted, AnswerBudgeted DEF Cancels, open, done, st
<1>4. CASE EditsField(r)
  <2>1. [st EXCEPT !.ctx.edited = TRUE] \in BudgetedStates
    BY <1>1 DEF BudgetedStates, States, Contexts
  <2> QED
    BY <1>4, <2>1, SavedBudgeted, AnswerBudgeted DEF EditsField, st
<1>5. CASE Initializes(r)
  <2>1. [st EXCEPT !.ctx.phase = "generating"] \in BudgetedStates
    BY <1>1 DEF BudgetedStates, States, Contexts
  <2> QED
    BY <1>5, <2>1, ClearPauseBudgeted, SavedBudgeted, AnswerBudgeted DEF Initializes, st
<1>6. CASE Resolves(r)
  <2>1. PICK a \in Answers \cup {st.ctx.answers} :
           row' = [row EXCEPT !.pending = FALSE,
                              !.payload = @ /\ ~st.payload,
                              !.status = IF st.status = "running" THEN @ ELSE "running",
                              !.ctx = [st.ctx EXCEPT !.answers = a]]
    BY <1>6 DEF Resolves, st
  <2>2. [st.ctx EXCEPT !.answers = a] \in Contexts
    BY <1>1 DEF Contexts
  <2>3. row' \in BudgetedStates
    BY <1>2, <2>1, <2>2 DEF BudgetedStates, States, Statuses
  <2>4. [Idle EXCEPT !.op = "run", !.pc = "check"] \in BudgetedRequests
    BY IdleBudgeted DEF BudgetedRequests, RequestStates, Points, AllOps
  <2> QED
    BY <1>6, <2>3, <2>4 DEF Resolves, Inv
<1>7. CASE Escalates(r)
  <2>1. row' \in BudgetedStates
    BY <1>2, <1>7, SetCompletedBudgeted DEF Escalates, Outcomes, BudgetedStates, States
  <2> QED
    BY <1>7, <2>1, AnswerBudgeted DEF Escalates
<1> QED
  BY <1>3, <1>4, <1>5, <1>6, <1>7 DEF Command

-----------------------------------------------------------------------------
(***************************************************************************)
(* The theorems                                                             *)
(***************************************************************************)

LEMMA StepBudgeted ==
    ASSUME Inv, [Next]_vars
    PROVE  Inv'
<1>1. ASSUME NEW r \in Requests, Disconnects(r) \/ Crash(r) PROVE Inv'
  BY <1>1, IdleBudgeted DEF Disconnects, Crash, Answered, Inv
<1>2. CASE UNCHANGED vars
  BY <1>2 DEF vars, Inv
<1> QED
  BY <1>1, <1>2, ArrivalBudgeted, SteppingBudgeted, ExecutorBudgeted, CommandBudgeted
     DEF Next

\* The invariant holds at the start and every step keeps it.
THEOREM Invariance == Spec => []Inv
<1>1. Init => Inv
  BY NewStateBudgeted, IdleBudgeted DEF Init, Inv
<1>2. Inv /\ [Next]_vars => Inv'
  BY StepBudgeted
<1> QED
  BY <1>1, <1>2, PTL DEF Spec

\* TypeOK: every save, column update and request of plan_executor.py and its
\* routes leaves a row the persistence layer can load again, and copies that
\* are executions of the plan.
THEOREM TypeCorrect == Spec => []TypeOK
<1>1. Inv => TypeOK
  BY DEF Inv, TypeOK, BudgetedStates, BudgetedRequests
<1> QED
  BY <1>1, Invariance, PTL

\* RetryBudget: the circuit breaker of _handle_result holds for every plan
\* whose rejection edges are guarded, however many requests execute steps of
\* one execution on copies of it and in whatever order their saves land.
THEOREM BudgetKept == Spec => []RetryBudget
<1>1. Inv => RetryBudget
  BY DEF Inv, RetryBudget, BudgetedStates
<1> QED
  BY <1>1, Invariance, PTL

-----------------------------------------------------------------------------
(***************************************************************************)
(* Outcomes and choices: what a row says of itself, whoever wrote it last   *)
(***************************************************************************)

\* A plan's outcome stands at the end node it belongs to.
Ended(st) ==
    st.terminal \in PlanOutcomes =>
        st.node \in EndNodes /\ EndOutcome[st.node] = st.terminal

HonestStates == {st \in BudgetedStates : Ended(st)}

Honest ==
    /\ Inv
    /\ row \in HonestStates
    /\ \A r \in Requests : req[r].st \in HonestStates

\* Most mutators leave a state where it was, and its outcome.
LEMMA StandsHonest ==
    ASSUME NEW st \in BudgetedStates, Ended(st), NEW new \in BudgetedStates,
           new.node = st.node, new.terminal = st.terminal
    PROVE  new \in HonestStates
BY DEF HonestStates, Ended

LEMMA NewStateHonest == NewState \in HonestStates /\ Idle.st \in HonestStates
<1>1. NewState \in HonestStates
  BY NewStateBudgeted, OutcomeAssumption DEF NewState, HonestStates, Ended
<1> QED
  BY <1>1 DEF Idle

LEMMA RecordExecutionHonest ==
    ASSUME NEW st \in HonestStates, NEW n \in Nodes
    PROVE  RecordExecution(st, n) \in HonestStates
<1> DEFINE new == RecordExecution(st, n)
<1>1. st \in BudgetedStates /\ Ended(st)
  BY DEF HonestStates
<1>2. new \in BudgetedStates
  BY <1>1, RecordExecutionBudgeted
<1>3. /\ new.node = st.node /\ new.terminal = st.terminal /\ new.offered = st.offered
      /\ new.status = st.status /\ new.pending = st.pending
  BY <1>1 DEF RecordExecution, BudgetedStates, States
<1> HIDE DEF new
<1>4. new \in HonestStates
  BY <1>1, <1>2, <1>3, StandsHonest
<1> QED
  BY <1>4 DEF new

LEMMA SetPausedHonest ==
    ASSUME NEW st \in HonestStates, NEW payload \in BOOLEAN
    PROVE  SetPaused(st, payload) \in HonestStates
<1>1. st \in BudgetedStates /\ Ended(st) /\ SetPaused(st, payload) \in BudgetedStates
  BY SetPausedBudgeted DEF HonestStates
<1>2. LET new == SetPaused(st, payload) IN
      /\ new.node = st.node /\ new.terminal = st.terminal /\ new.offered = st.offered
      /\ new.pending
  BY <1>1 DEF SetPaused, BudgetedStates, States
<1> QED
  BY <1>1, <1>2, StandsHonest

LEMMA ClearPauseHonest ==
    ASSUME NEW st \in HonestStates
    PROVE  ClearPause(st) \in HonestStates
<1>1. st \in BudgetedStates /\ Ended(st) /\ ClearPause(st) \in BudgetedStates
  BY ClearPauseBudgeted DEF HonestStates
<1>2. LET new == ClearPause(st) IN
      /\ new.node = st.node /\ new.terminal = st.terminal /\ new.offered = st.offered
      /\ new.status # "paused"
  BY <1>1 DEF ClearPause, BudgetedStates, States
<1> QED
  BY <1>1, <1>2, StandsHonest

LEMMA SetFailedHonest ==
    ASSUME NEW st \in HonestStates
    PROVE  SetFailed(st) \in HonestStates
<1> DEFINE failed == [st EXCEPT !.status = "failed"]
<1>1. st \in BudgetedStates /\ Ended(st) /\ failed \in BudgetedStates /\ st.node \in Nodes
  BY DEF HonestStates, BudgetedStates, States, Statuses
<1>2. /\ failed.node = st.node /\ failed.terminal = st.terminal
      /\ failed.offered = st.offered /\ failed.status # "paused"
  BY <1>1 DEF BudgetedStates, States
<1>3. failed \in HonestStates
  BY <1>1, <1>2, StandsHonest
<1> QED
  BY <1>1, <1>3, RecordExecutionHonest DEF SetFailed

LEMMA SavedHonest ==
    ASSUME NEW st \in HonestStates
    PROVE  Saved(st) \in HonestStates
<1>1. st \in BudgetedStates /\ Ended(st) /\ Saved(st) \in BudgetedStates
  BY SavedBudgeted DEF HonestStates
<1>2. Saved(st).node = st.node /\ Saved(st).terminal = st.terminal
  BY <1>1 DEF Saved, BudgetedStates, States
<1> QED
  BY <1>1, <1>2, StandsHonest

LEMMA TrackedHonest ==
    ASSUME NEW st \in HonestStates, NEW outcome
    PROVE  Tracked(st, outcome) \in HonestStates
<1> DEFINE new == Tracked(st, outcome)
<1>1. st \in BudgetedStates /\ Ended(st)
  BY DEF HonestStates
<1>2. new \in BudgetedStates
  BY <1>1, TrackedBudgeted
<1>3. /\ new.node = st.node /\ new.terminal = st.terminal /\ new.offered = st.offered
      /\ new.status = st.status /\ new.pending = st.pending
  BY <1>1 DEF Tracked, BudgetedStates, States
<1> HIDE DEF new
<1>4. new \in HonestStates
  BY <1>1, <1>2, <1>3, StandsHonest
<1> QED
  BY <1>4 DEF new

LEMMA ContextHonest ==
    ASSUME NEW st \in HonestStates, NEW ctx \in Contexts
    PROVE  [st EXCEPT !.ctx = ctx] \in HonestStates
<1> DEFINE new == [st EXCEPT !.ctx = ctx]
<1>1. st \in BudgetedStates /\ Ended(st)
  BY DEF HonestStates
<1>2. new \in BudgetedStates
  BY <1>1, ContextBudgeted
<1>3. /\ new.node = st.node /\ new.terminal = st.terminal /\ new.offered = st.offered
      /\ new.status = st.status /\ new.pending = st.pending
  BY <1>1 DEF BudgetedStates, States
<1> HIDE DEF new
<1>4. new \in HonestStates
  BY <1>1, <1>2, <1>3, StandsHonest
<1> QED
  BY <1>4 DEF new

LEMMA RunningHonest ==
    ASSUME NEW st \in BudgetedStates, Ended(st)
    PROVE  [st EXCEPT !.status = "running"] \in HonestStates
<1> DEFINE new == [st EXCEPT !.status = "running"]
<1>1. /\ new \in BudgetedStates
      /\ new.node = st.node /\ new.terminal = st.terminal /\ new.offered = st.offered
      /\ new.status # "paused"
  BY DEF BudgetedStates, States, Statuses
<1> HIDE DEF new
<1>2. new \in HonestStates
  BY <1>1, StandsHonest
<1> QED
  BY <1>2 DEF new

\* Completing with an outcome that is no end's, or the end's own.
LEMMA SetCompletedHonest ==
    ASSUME NEW st \in BudgetedStates, Ended(st), NEW outcome \in Outcomes,
           outcome \in PlanOutcomes =>
               st.node \in EndNodes /\ EndOutcome[st.node] = outcome
    PROVE  SetCompleted(st, outcome) \in HonestStates
<1> DEFINE new == SetCompleted(st, outcome)
<1>1. /\ new \in BudgetedStates
      /\ new.node = st.node /\ new.terminal = outcome /\ new.offered = st.offered
      /\ new.status # "paused"
  BY SetCompletedBudgeted DEF SetCompleted, BudgetedStates, States
<1> HIDE DEF new
<1>2. new \in HonestStates
  BY <1>1 DEF HonestStates, Ended
<1> QED
  BY <1>2 DEF new

\* A step of request r that leaves it and the row honest.
LEMMA HonestBy ==
    ASSUME Honest, Inv', NEW r \in Requests, NEW q, req' = [req EXCEPT ![r] = q],
           q.st \in HonestStates, row' \in HonestStates
    PROVE  Honest'
<1>1. req'[r] = q /\ \A s \in Requests \ {r} : req'[s] = req[s]
  BY DEF Honest, Inv
<1> QED
  BY <1>1 DEF Honest

LEMMA AfterStepHonest ==
    ASSUME NEW q \in BudgetedRequests, NEW st
    PROVE  AfterStep(q, st).st = NewState
<1> DEFINE next == [q EXCEPT !.st = NewState, !.input = NoInput, !.answered = NoAnswers]
<1>1. /\ next.st = NewState
      /\ [next EXCEPT !.op = "run", !.pc = "check"].st = NewState
      /\ [next EXCEPT !.pc = "load"].st = NewState
  BY DEF BudgetedRequests, RequestStates
<1> HIDE DEF next
<1> QED
  BY <1>1 DEF AfterStep, Idle, next

LEMMA CommitHonest ==
    ASSUME Honest, Inv', NEW r \in Requests, NEW st \in HonestStates, Commit(r, st)
    PROVE  Honest'
<1> DEFINE q == AfterStep(req[r], st)
<1>1. req[r] \in BudgetedRequests /\ req' = [req EXCEPT ![r] = q]
  BY DEF Honest, Inv, Commit
<1>2. q.st \in HonestStates
  BY <1>1, AfterStepHonest, NewStateHonest
<1>3. row' \in HonestStates
  BY SavedHonest DEF Commit
<1> HIDE DEF q
<1> QED
  BY <1>1, <1>2, <1>3, HonestBy

LEMMA IdleHonest ==
    ASSUME Honest, Inv', NEW r \in Requests, req' = [req EXCEPT ![r] = Idle],
           row' \in HonestStates
    PROVE  Honest'
<1>1. Idle.st \in HonestStates
  BY NewStateHonest
<1> QED
  BY <1>1, HonestBy

\* Nothing leaves an end node, so a plan's outcome is not carried elsewhere.
LEMMA MovedHonest ==
    ASSUME NEW st \in HonestStates, NEW outcome, NEW e \in Selected(st, outcome),
           e.to # NoNode
    PROVE  [st EXCEPT !.node = e.to] \in HonestStates
<1> DEFINE new == [st EXCEPT !.node = e.to]
<1>1. st \in BudgetedStates /\ Ended(st)
  BY DEF HonestStates
<1>2. st.node \notin EndNodes /\ e.to \in Nodes
  BY SelectedEdge, OutcomeAssumption, PlanAssumption
<1>3. /\ new \in BudgetedStates /\ new.terminal = st.terminal /\ new.offered = st.offered
      /\ new.status = st.status /\ new.pending = st.pending
  BY <1>1, <1>2 DEF BudgetedStates, States
<1> HIDE DEF new
<1>4. new \in HonestStates
  BY <1>1, <1>2, <1>3 DEF HonestStates, Ended
<1> QED
  BY <1>4 DEF new

LEMMA IncrementHonest ==
    ASSUME NEW st \in HonestStates, NEW n \in Nodes, st.retries[n] < MaxRetries
    PROVE  IncrementRetry(st, n) \in HonestStates
<1> DEFINE new == IncrementRetry(st, n)
<1>1. st \in BudgetedStates /\ Ended(st)
  BY DEF HonestStates
<1>2. new \in BudgetedStates
  BY <1>1, IncrementRetryBudgeted
<1>3. /\ new.node = st.node /\ new.terminal = st.terminal /\ new.offered = st.offered
      /\ new.status = st.status /\ new.pending = st.pending
  BY <1>1 DEF IncrementRetry, BudgetedStates, States
<1> HIDE DEF new
<1>4. new \in HonestStates
  BY <1>1, <1>2, <1>3, StandsHonest
<1> QED
  BY <1>4 DEF new

LEMMA SetEscalationHonest ==
    ASSUME NEW st \in HonestStates, NEW outcome, NEW e \in Selected(st, outcome),
           e.options # {}
    PROVE  SetEscalation(st, e.options) \in HonestStates
<1> DEFINE new == SetEscalation(st, e.options)
<1>1. st \in BudgetedStates /\ Ended(st)
  BY DEF HonestStates
<1>2. e.options \in SUBSET Options
  BY SelectedEdge, OptionsAssumption
<1>3. new \in BudgetedStates /\ new.node = st.node /\ new.terminal = st.terminal
  BY <1>1, <1>2, SetEscalationBudgeted DEF SetEscalation, BudgetedStates, States
<1> HIDE DEF new
<1>4. new \in HonestStates
  BY <1>1, <1>3, StandsHonest
<1> QED
  BY <1>4 DEF new

LEMMA CompletedHonest ==
    ASSUME NEW st \in HonestStates, NEW outcome, NEW e \in Selected(st, outcome),
           e.to \in EndNodes
    PROVE  Completed(st, e) \in HonestStates
<1> DEFINE there == [st EXCEPT !.node = e.to]
<1>1. e.to # NoNode /\ EndOutcome[e.to] \in Outcomes
  BY PlanAssumption DEF EndNodes, Outcomes, PlanOutcomes
<1>2. there \in HonestStates
  BY <1>1, MovedHonest
<1>3. there.node = e.to
  BY DEF HonestStates, BudgetedStates, States
<1> QED
  BY <1>1, <1>2, <1>3, SetCompletedHonest DEF Completed, HonestStates

LEMMA RoutesHonest ==
    ASSUME Honest, Inv', NEW r \in Requests, NEW st0 \in HonestStates, NEW outcome,
           Routes(r, st0, outcome)
    PROVE  Honest'
<1> DEFINE st == Tracked(st0, outcome)
<1>1. st \in HonestStates
  BY TrackedHonest
<1>2. FindsNoEdge(r, st, outcome) \/ \E x \in Selected(st, outcome) :
         \/ StaysPut(r, st, x) \/ Advances(r, st, x, outcome)
         \/ CompletesUnpublished(r, st, x) \/ CompletesPublishing(r, st, x)
  BY DEF Routes
<1> HIDE DEF st
<1>3. CASE FindsNoEdge(r, st, outcome)
  BY <1>1, <1>3, SetFailedHonest, CommitHonest DEF FindsNoEdge
<1>4. ASSUME NEW x \in Selected(st, outcome), StaysPut(r, st, x) PROVE Honest'
  <2>1. (IF x.options = {} THEN st ELSE SetEscalation(st, x.options)) \in HonestStates
    BY <1>1, SetEscalationHonest
  <2> QED
    BY <1>4, <2>1, CommitHonest DEF StaysPut
<1>5. ASSUME NEW x \in Selected(st, outcome), Advances(r, st, x, outcome) PROVE Honest'
  <2> DEFINE next == [st EXCEPT !.node = x.to]
  <2>1. next \in HonestStates /\ next.retries = st.retries
    BY <1>1, <1>5, MovedHonest DEF Advances, HonestStates, BudgetedStates, States
  <2>2. CASE IsQaGate(st.node) /\ outcome \in Rejections /\ st.gen # NoNode
    <3>1. st.retries[st.gen] < MaxRetries /\ st.gen \in Nodes
      BY <1>1, <1>5, <2>2, LoopsWithinBudget
         DEF Advances, HonestStates, BudgetedStates, States
    <3>2. IncrementRetry(next, st.gen) \in HonestStates
      BY <2>1, <3>1, IncrementHonest
    <3> QED
      BY <1>5, <2>2, <3>2, CommitHonest DEF Advances
  <2>3. CASE ~(IsQaGate(st.node) /\ outcome \in Rejections /\ st.gen # NoNode)
    BY <1>5, <2>1, <2>3, CommitHonest DEF Advances
  <2> QED
    BY <2>2, <2>3
<1>6. ASSUME NEW x \in Selected(st, outcome), CompletesUnpublished(r, st, x) PROVE Honest'
  BY <1>1, <1>6, CompletedHonest, CommitHonest DEF CompletesUnpublished
<1>7. ASSUME NEW x \in Selected(st, outcome), CompletesPublishing(r, st, x) PROVE Honest'
  <2> DEFINE q == [req[r] EXCEPT !.pc = "save", !.st = Completed(st, x),
                                 !.answered = NoAnswers]
  <2>1. /\ req' = [req EXCEPT ![r] = q] /\ UNCHANGED row
        /\ req[r] \in BudgetedRequests
    BY <1>7 DEF CompletesPublishing, Honest, Inv
  <2>2. q.st = Completed(st, x)
    BY <2>1 DEF BudgetedRequests, RequestStates
  <2>3. Completed(st, x) \in HonestStates
    BY <1>1, <1>7, CompletedHonest DEF CompletesPublishing
  <2> HIDE DEF q
  <2> QED
    BY <2>1, <2>2, <2>3, HonestBy DEF Honest
<1> QED
  BY <1>2, <1>3, <1>4, <1>5, <1>6, <1>7

LEMMA ArrivalHonest ==
    ASSUME Honest, Inv', NEW r \in Requests, Arrival(r)
    PROVE  Honest'
<1>1. row \in HonestStates /\ UNCHANGED row
  BY DEF Honest, Arrival, BeginWork, SubmitInput, BeginCommand
<1>2. CASE BeginWork(r)
  <2>1. PICK op \in Ops \cap {"step", "run", "events"} :
           req' = [req EXCEPT ![r] = [Idle EXCEPT !.op = op,
                                        !.pc = IF op = "run" THEN "check" ELSE "load"]]
    BY <1>2 DEF BeginWork, Arrives
  <2> DEFINE q == [Idle EXCEPT !.op = op, !.pc = IF op = "run" THEN "check" ELSE "load"]
  <2>2. q.st = Idle.st
    BY <2>1 DEF Idle
  <2>3. req' = [req EXCEPT ![r] = q]
    BY <2>1
  <2> HIDE DEF q
  <2> QED
    BY <1>1, <2>2, <2>3, NewStateHonest, HonestBy
<1>3. CASE SubmitInput(r)
  <2>1. PICK op \in Ops \cap {"input", "message"} :
           \E i : LET files == op = "input" /\ row.payload /\ i \in Answers IN
                  req' = [req EXCEPT ![r] =
                            [Idle EXCEPT !.op = op, !.pc = "load", !.input = i,
                                         !.answered = IF files THEN i ELSE NoAnswers]]
    BY <1>3 DEF SubmitInput, Arrives
  <2>2. PICK i, a : req' = [req EXCEPT ![r] =
                              [Idle EXCEPT !.op = op, !.pc = "load", !.input = i,
                                           !.answered = a]]
    BY <2>1
  <2> DEFINE q == [Idle EXCEPT !.op = op, !.pc = "load", !.input = i, !.answered = a]
  <2>3. q.st = Idle.st
    BY DEF Idle
  <2>4. req' = [req EXCEPT ![r] = q]
    BY <2>2
  <2> HIDE DEF q
  <2> QED
    BY <1>1, <2>3, <2>4, NewStateHonest, HonestBy
<1>4. CASE BeginCommand(r)
  <2>1. PICK op \in Ops :
           req' = [req EXCEPT ![r] = [Idle EXCEPT !.op = op, !.pc = "command", !.st = row]]
    BY <1>4 DEF BeginCommand, Arrives
  <2> DEFINE q == [Idle EXCEPT !.op = op, !.pc = "command", !.st = row]
  <2>2. q.st = row
    BY DEF Idle
  <2> HIDE DEF q
  <2> QED
    BY <1>1, <2>1, <2>2, HonestBy DEF q
<1> QED
  BY <1>2, <1>3, <1>4 DEF Arrival

\* Loading for a step: resumed or not, the copy is running.
LEMMA LoadedHonest ==
    ASSUME NEW st \in HonestStates, NEW input, NEW filed \in Seq(Answers)
    PROVE  WithFiledAnswers([Resumed(st, input) EXCEPT !.status = "running"], filed)
              \in HonestStates
<1> DEFINE on  == [Resumed(st, input) EXCEPT !.status = "running"]
           new == WithFiledAnswers(on, filed)
<1>1. Resumed(st, input) \in HonestStates
  BY ClearPauseHonest DEF Resumed
<1>2. on \in HonestStates
  BY <1>1, RunningHonest DEF HonestStates
<1>3. on \in BudgetedStates /\ Ended(on)
  BY <1>2 DEF HonestStates
<1>4. new \in BudgetedStates
  BY LoadedBudgeted DEF HonestStates
<1> HIDE DEF on
<1>5. /\ new.node = on.node /\ new.terminal = on.terminal /\ new.offered = on.offered
      /\ new.status = on.status /\ new.pending = on.pending
  BY <1>3 DEF WithFiledAnswers, BudgetedStates, States
<1> HIDE DEF new
<1>6. new \in HonestStates
  BY <1>3, <1>4, <1>5, StandsHonest
<1> QED
  BY <1>6 DEF new, on

LEMMA SteppingHonest ==
    ASSUME Honest, Inv', NEW r \in Requests, Stepping(r)
    PROVE  Honest'
<1> DEFINE q == req[r]
<1>1. /\ row \in HonestStates
      /\ q \in BudgetedRequests /\ q.st \in HonestStates
      /\ AnswersSeen(r) \in Seq(Answers)
  BY AnswersSeenTyped DEF Honest, Inv
<1> HIDE DEF q
<1>2. CASE RunEnds(r)
  BY <1>1, <1>2, IdleHonest DEF RunEnds
<1>3. CASE RunContinues(r)
  <2> DEFINE p == [q EXCEPT !.pc = "load", !.steps = @ + 1]
  <2>1. req' = [req EXCEPT ![r] = p] /\ UNCHANGED row
    BY <1>3 DEF RunContinues, q, Honest, Inv
  <2>2. p.st = q.st
    BY <1>1 DEF BudgetedRequests, RequestStates
  <2> HIDE DEF p
  <2> QED
    BY <1>1, <2>1, <2>2, HonestBy
<1>4. CASE StepReturns(r)
  <2> DEFINE p == AfterStep(q, row)
  <2>1. req' = [req EXCEPT ![r] = p] /\ UNCHANGED row
    BY <1>4 DEF StepReturns, q
  <2>2. p.st = NewState
    BY <1>1, AfterStepHonest
  <2> HIDE DEF p
  <2> QED
    BY <1>1, <2>1, <2>2, NewStateHonest, HonestBy
<1>5. CASE StepExecutes(r)
  <2> DEFINE st == WithFiledAnswers([Resumed(row, q.input) EXCEPT !.status = "running"],
                                    AnswersSeen(r))
             p  == [q EXCEPT !.pc = "exec", !.st = st]
  <2>1. req' = [req EXCEPT ![r] = p] /\ UNCHANGED row
    BY <1>5 DEF StepExecutes, q, Honest, Inv
  <2>2. st \in HonestStates
    BY <1>1, LoadedHonest
  <2> HIDE DEF st
  <2>3. p.st = st
    BY <1>1 DEF BudgetedRequests, RequestStates
  <2> HIDE DEF p
  <2> QED
    BY <1>1, <2>1, <2>2, <2>3, HonestBy
<1>6. CASE PgcNodeAnswered(r)
  <2> DEFINE a == q.input
             open == ClearPause(row)
             c == IF Len(AnswersSeen(r)) = 1 THEN a ELSE NoAnswers
             told == [open.ctx EXCEPT !.answers = a, !.clarified = c]
             st == [open EXCEPT !.ctx = told]
             p == [q EXCEPT !.input = NoInput, !.answered = NoAnswers]
  <2>1. a \in Answers /\ open \in HonestStates
    BY <1>1, <1>6, ClearPauseHonest DEF PgcNodeAnswered, AnswersPgcNode, q
  <2>2. open.ctx \in Contexts
    BY <2>1 DEF HonestStates, BudgetedStates, States
  <2>3. told \in Contexts
    BY <2>1, <2>2 DEF Contexts
  <2> HIDE DEF open, c
  <2>4. [open EXCEPT !.ctx.answers = a, !.ctx.clarified = c] = st
    BY <2>1, <2>2 DEF HonestStates, BudgetedStates, States, Contexts
  <2>5. st \in HonestStates
    BY <2>1, <2>3, ContextHonest
  <2> HIDE DEF told
  <2>6. PICK e \in Selected(st, "success") :
           e.to # NoNode /\ row' = Saved([st EXCEPT !.node = e.to])
    BY <1>6, <2>4 DEF PgcNodeAnswered, open, c, q
  <2> HIDE DEF st
  <2>7. row' \in HonestStates
    BY <2>5, <2>6, MovedHonest, SavedHonest
  <2>8. req' = [req EXCEPT ![r] = p] /\ q.pc = "load"
    BY <1>6 DEF PgcNodeAnswered, At, q, Honest, Inv
  <2>9. p.st = q.st
    BY <1>1 DEF BudgetedRequests, RequestStates
  <2> HIDE DEF p
  <2> QED
    BY <1>1, <2>7, <2>8, <2>9, HonestBy
<1>7. CASE SavePublished(r)
  <2> DEFINE p == [q EXCEPT !.pc = "spawn"]
  <2>1. req' = [req EXCEPT ![r] = p] /\ row' = Saved(q.st)
    BY <1>7 DEF SavePublished, q, Honest, Inv
  <2>2. p.st = q.st
    BY <1>1 DEF BudgetedRequests, RequestStates
  <2> HIDE DEF p
  <2>3. row' \in HonestStates
    BY <1>1, <2>1, SavedHonest
  <2> QED
    BY <1>1, <2>1, <2>2, <2>3, HonestBy
<1>8. CASE SaveCompleted(r)
  BY <1>1, <1>8, CommitHonest DEF SaveCompleted, q
<1> QED
  BY <1>2, <1>3, <1>4, <1>5, <1>6, <1>7, <1>8 DEF Stepping

LEMMA PausesHonest ==
    ASSUME Honest, Inv', NEW r \in Requests, NEW st \in HonestStates,
           NEW payload \in BOOLEAN, Pauses(r, st, payload)
    PROVE  Honest'
BY SetPausedHonest, CommitHonest DEF Pauses

LEMMA ExecutorHonest ==
    ASSUME Honest, Inv', NEW r \in Requests, Executor(r)
    PROVE  Honest'
<1> DEFINE st == Recorded(r)
<1>1. req[r].st \in HonestStates /\ req[r].st.node \in Nodes
  BY DEF Honest, HonestStates, BudgetedStates, States
<1>2. st \in HonestStates /\ st.ctx \in Contexts
  BY <1>1, RecordExecutionHonest DEF Recorded, HonestStates, BudgetedStates, States
<1> HIDE DEF st
<1>3. ASSUME NEW ctx \in Contexts PROVE [st EXCEPT !.ctx = ctx] \in HonestStates
  BY <1>2, <1>3, ContextHonest
<1>4. st \in States
  BY <1>2 DEF HonestStates, BudgetedStates
<1>5. CASE PgcGateAsks(r)
  <2>1. [st EXCEPT !.ctx.questions = TRUE] \in HonestStates
    <3>1. [st.ctx EXCEPT !.questions = TRUE] \in Contexts
      BY <1>2 DEF Contexts
    <3> QED
      BY <1>3, <1>4, <3>1 DEF States
  <2> QED
    BY <1>2, <1>5, <2>1, PausesHonest, RoutesHonest DEF PgcGateAsks, st
<1>6. CASE PgcGateWaits(r)
  BY <1>2, <1>6, PausesHonest DEF PgcGateWaits, st
<1>7. CASE PgcGateMerges(r)
  <2>1. [st EXCEPT !.ctx.phase = "merge"] \in HonestStates
    <3>1. [st.ctx EXCEPT !.phase = "merge"] \in Contexts
      BY <1>2 DEF Contexts
    <3> QED
      BY <1>3, <1>4, <3>1 DEF States
  <2> QED
    BY <1>7, <2>1, RoutesHonest DEF PgcGateMerges, st
<1>8. CASE PgcNodeAsks(r)
  BY <1>2, <1>8, PausesHonest, RoutesHonest DEF PgcNodeAsks, st
<1>9. CASE IntakeAsks(r)
  BY <1>2, <1>9, PausesHonest DEF IntakeAsks, st
<1>10. CASE IntakeClassifies(r)
  <2>1. [st EXCEPT !.ctx.gatePhase = "awaiting_confirmation"] \in HonestStates
    <3>1. [st.ctx EXCEPT !.gatePhase = "awaiting_confirmation"] \in Contexts
      BY <1>2 DEF Contexts
    <3> QED
      BY <1>3, <1>4, <3>1 DEF States
  <2> QED
    BY <1>10, <2>1, PausesHonest DEF IntakeClassifies, st
<1>11. CASE IntakeRejects(r)
  BY <1>2, <1>11, RoutesHonest DEF IntakeRejects, st
<1>12. CASE IntakeConfirms(r)
  <2> DEFINE by == IF Spoken(r) THEN "operator" ELSE "default"
             told == [st.ctx EXCEPT !.gatePhase = "complete", !.phase = "review",
                                    !.confirmed = by]
  <2>1. told \in Contexts
    BY <1>2 DEF Contexts
  <2>2. [st EXCEPT !.ctx.gatePhase = "complete", !.ctx.phase = "review",
                   !.ctx.confirmed = by] = [st EXCEPT !.ctx = told]
    BY <1>2, <1>4 DEF States, Contexts
  <2> QED
    BY <1>3, <1>12, <2>1, <2>2, RoutesHonest DEF IntakeConfirms, st
<1>13. CASE IntakeIsComplete(r)
  BY <1>2, <1>13, RoutesHonest DEF IntakeIsComplete, st
<1>14. CASE TaskRuns(r)
  <2> DEFINE made == IF st.node \in Producing
                     THEN [st EXCEPT !.ctx.draft = st.ctx.answers] ELSE st
  <2>1. [st EXCEPT !.ctx.draft = st.ctx.answers] \in HonestStates
    <3>1. [st.ctx EXCEPT !.draft = st.ctx.answers] \in Contexts
      BY <1>2 DEF Contexts
    <3> QED
      BY <1>3, <1>4, <3>1 DEF States
  <2>2. made \in HonestStates
    BY <1>2, <2>1
  <2> QED
    BY <1>2, <1>14, <2>2, RoutesHonest DEF TaskRuns, st
<1>15. CASE QaJudges(r)
  BY <1>2, <1>15, RoutesHonest DEF QaJudges, st
<1>16. CASE EndReports(r)
  BY <1>2, <1>16, RoutesHonest DEF EndReports, st
<1>17. CASE NodeRaises(r)
  <2>1. Saved(SetFailed(req[r].st)) \in HonestStates
    BY <1>1, SavedHonest, SetFailedHonest
  <2> QED
    BY <1>17, <2>1, IdleHonest DEF NodeRaises
<1> QED
  BY <1>5, <1>6, <1>7, <1>8, <1>9, <1>10, <1>11, <1>12, <1>13, <1>14, <1>15, <1>16, <1>17
     DEF Executor

LEMMA CommandHonest ==
    ASSUME Honest, Inv', NEW r \in Requests, Command(r)
    PROVE  Honest'
<1> DEFINE st == req[r].st
<1>1. /\ st \in BudgetedStates /\ Ended(st) /\ st.node \in Nodes /\ st.ctx \in Contexts
      /\ row \in BudgetedStates /\ Ended(row)
      /\ row' \in BudgetedStates
  BY DEF Honest, HonestStates, BudgetedStates, States, Inv, Command, Cancels,
         EditsField, Initializes, Resolves, Escalates, Commanded, At
<1>2. st \in HonestStates /\ row \in HonestStates
  BY DEF Honest
<1>3. "cancelled" \notin PlanOutcomes /\ "escalated" \notin PlanOutcomes
  BY OutcomeAssumption
<1> HIDE DEF st
<1>4. CASE Cancels(r)
  <2> DEFINE quiet == ClearEscalation(st)
             open == IF quiet.pending THEN ClearPause(quiet) ELSE quiet
             done == SetCompleted(open, "cancelled")
  <2>1. quiet \in BudgetedStates /\ quiet.node = st.node /\ quiet.terminal = st.terminal
        /\ quiet.offered = {}
    BY <1>1, ClearEscalationBudgeted DEF ClearEscalation, BudgetedStates, States
  <2> HIDE DEF quiet
  <2>2. open \in BudgetedStates /\ open.node = st.node /\ open.terminal = st.terminal
        /\ open.offered = {}
    BY <2>1, ClearPauseBudgeted DEF ClearPause, BudgetedStates, States
  <2> HIDE DEF open
  <2>3. Ended(open)
    BY <1>1, <2>2 DEF Ended
  <2>4. done \in HonestStates
    BY <1>3, <2>2, <2>3, SetCompletedHonest DEF Outcomes
  <2>5. RecordExecution(done, open.node) \in HonestStates
    BY <1>1, <2>2, <2>4, RecordExecutionHonest
  <2>6. row' = Saved(RecordExecution(done, open.node)) /\ req' = [req EXCEPT ![r] = Idle]
    BY <1>4 DEF Cancels, Answered, open, quiet, st
  <2> QED
    BY <2>5, <2>6, SavedHonest, IdleHonest
<1>5. CASE EditsField(r)
  <2>1. [st EXCEPT !.ctx.edited = TRUE] \in HonestStates
    <3>1. [st.ctx EXCEPT !.edited = TRUE] \in Contexts
      BY <1>1 DEF Contexts
    <3> QED
      BY <1>1, <1>2, <3>1, ContextHonest DEF BudgetedStates, States
  <2> QED
    BY <1>5, <2>1, SavedHonest, IdleHonest DEF EditsField, Answered, st
<1>6. CASE Initializes(r)
  <2>1. [st EXCEPT !.ctx.phase = "generating"] \in HonestStates
    <3>1. [st.ctx EXCEPT !.phase = "generating"] \in Contexts
      BY <1>1 DEF Contexts
    <3> QED
      BY <1>1, <1>2, <3>1, ContextHonest DEF BudgetedStates, States
  <2> QED
    BY <1>6, <2>1, ClearPauseHonest, SavedHonest, IdleHonest DEF Initializes, Answered, st
<1>7. CASE Resolves(r)
  <2>1. PICK a :
           row' = [row EXCEPT !.pending = FALSE,
                              !.payload = @ /\ ~st.payload,
                              !.status = IF st.status = "running" THEN @ ELSE "running",
                              !.ctx = [st.ctx EXCEPT !.answers = a]]
    BY <1>7 DEF Resolves, st
  <2>2. /\ row'.node = row.node /\ row'.terminal = row.terminal
    BY <1>1, <2>1 DEF BudgetedStates, States
  <2>3. row' \in HonestStates
    BY <1>1, <2>2 DEF HonestStates, Ended
  <2> DEFINE q == [Idle EXCEPT !.op = "run", !.pc = "check"]
  <2>4. q.st = Idle.st /\ req' = [req EXCEPT ![r] = q]
    BY <1>7 DEF Resolves, Idle
  <2> HIDE DEF q
  <2> QED
    BY <2>3, <2>4, NewStateHonest, HonestBy
<1>8. CASE Escalates(r)
  <2>1. row' = [SetCompleted(row, "escalated") EXCEPT !.pending = FALSE, !.payload = FALSE]
    BY <1>8 DEF Escalates
  <2>2. /\ row'.node = row.node /\ row'.terminal = "escalated"
        /\ row'.offered = row.offered /\ row'.status = "completed"
    BY <1>1, <2>1 DEF SetCompleted, BudgetedStates, States
  <2>3. row' \in HonestStates
    BY <1>1, <1>3, <2>2 DEF HonestStates, Ended
  <2> QED
    BY <1>8, <2>3, IdleHonest DEF Escalates, Answered
<1> QED
  BY <1>4, <1>5, <1>6, <1>7, <1>8 DEF Command

LEMMA HonestKept == Spec => []Honest
<1>1. Init => Honest
  BY NewStateBudgeted, IdleBudgeted, NewStateHonest DEF Init, Inv, Honest, Idle
<1>2. Honest /\ [Next]_vars => Honest'
  <2> SUFFICES ASSUME Honest, [Next]_vars PROVE Honest'
    OBVIOUS
  <2>1. Inv'
    BY StepBudgeted DEF Honest
  <2>2. ASSUME NEW r \in Requests, Disconnects(r) \/ Crash(r) PROVE Honest'
    <3>1. req' = [req EXCEPT ![r] = Idle] /\ UNCHANGED row
      BY <2>2 DEF Disconnects, Crash, Answered
    <3> QED
      BY <2>1, <3>1, IdleHonest DEF Honest
  <2>3. CASE UNCHANGED vars
    BY <2>1, <2>3 DEF vars, Honest
  <2> QED
    BY <2>1, <2>2, <2>3, ArrivalHonest, SteppingHonest, ExecutorHonest, CommandHonest
       DEF Next
<1> QED
  BY <1>1, <1>2, PTL DEF Spec

\* OutcomeOfItsEnd: no interleaving of executor saves, commands and interrupt
\* resolutions, each from a copy of its own, leaves a plan's outcome on an
\* execution that stands anywhere else than at that outcome's end node.
THEOREM OutcomeStandsAtItsEnd == Spec => []OutcomeOfItsEnd
<1>1. Honest => OutcomeOfItsEnd
  BY DEF Honest, HonestStates, Ended, OutcomeOfItsEnd
<1> QED
  BY <1>1, HonestKept, PTL

-----------------------------------------------------------------------------
(***************************************************************************)
(* Every shipped plan at once.  The plans have the same course: a gate that *)
(* waits for the operator, a writer, a judge that sends what it rejects to  *)
(* a rewriter, and ends.  With one request at a time the row stays as the   *)
(* request found it while it awaits a node, so the invariant says what a    *)
(* row and a copy may hold at each node (OnCourse), and how the request in  *)
(* flight stands to the row (Underway).                                     *)
(***************************************************************************)

Gates     == {"pgc_gate", "intake_gate", "pgc"}
Writers   == {"generation", "intake_generation", "old_generation"}
Judges    == {"qa_gate", "intake_qa", "old_qa"}
Rewriters == {"remediation", "intake_remediation", "old_remediation"}
Ends      == {"end_stabilized", "end_blocked", "intake_stabilized", "intake_blocked",
              "intake_abandoned", "old_complete", "old_failed"}

\* The writer of a node's plan, whose rejections the plan counts.
Author(n) ==
    IF n \in DiscoveryNodes THEN "generation"
    ELSE IF n \in IntakeNodes THEN "intake_generation" ELSE "old_generation"

Refused(st) == st.retries[Author(st.node)]

\* What answers and classification the node a state stands at presupposes.
Informed(st) ==
    /\ st.ctx.draft # NoAnswers /\ st.ctx.confirmed # "default"
    /\ st.node \notin IntakeNodes =>
          st.ctx.phase # "review" /\ (st.node \notin Gates => st.ctx.answers # NoAnswers)
    /\ st.node \in DiscoveryNodes => (st.ctx.answers # NoAnswers => st.ctx.questions)

\* When an execution may be waiting, and for what.
Waiting(st) ==
    /\ st.pending => st.node \in Gates
    /\ st.pending /\ st.node \in DiscoveryNodes =>
          st.ctx.answers = NoAnswers /\ st.ctx.questions /\ st.status \notin Finished
    /\ st.pending /\ st.node \in IntakeNodes => st.status = "paused"
    /\ st.status = "paused" =>
          st.pending \/ (st.node = "qa_gate" /\ Refused(st) = MaxRetries)

OnCourse(st) ==
    /\ st \in BudgetedStates
    /\ {st.gen, st.made, st.task} \subseteq {NoNode, Author(st.node)}
    /\ st.node \in Judges \cup Rewriters =>
          /\ st.task = Author(st.node)
          /\ st.task \in Producing => st.made = st.task
    /\ st.node \in Ends => st.status = "completed"
    /\ st.offered = {}
    /\ Informed(st) /\ Waiting(st)

AtRest(st) == st.status \in Finished \cup {"paused"}

Awaiting(st) == st.node = "intake_gate" /\ st.ctx.gatePhase = "awaiting_confirmation"

\* Executions of nodes still to come before the run ends, at most.
ToGo(st) ==
    IF st.node \in Gates THEN 7
    ELSE IF st.node \in Writers THEN 6
    ELSE IF st.node \in Judges THEN 5 - 2 * Refused(st)
    ELSE IF st.node \in Rewriters THEN 6 - 2 * Refused(st)
    ELSE 0

\* A request q, while the row is db.
Underway(q, db) ==
    /\ q.pc = "idle" => q.op = "none"
    /\ q.pc = "check" => q.op = "run"
    /\ db.node \in IntakeNodes =>
          /\ q.op = "message" => q.input \in Answers
          /\ q.op \in {"none", "message", "run", "edit", "cancel", "escalate"}
          /\ q.pc = "load" => q.op = "message" \/ ~AtRest(db)
    /\ q.pc = "exec" =>
          /\ OnCourse(q.st) /\ q.st.status = "running" /\ db.status \notin Finished
          /\ q.st.node = db.node /\ q.st.retries = db.retries
          /\ Awaiting(q.st) => q.input \in Answers
    /\ q.pc = "save" =>
          /\ OnCourse(q.st) /\ q.st.node \in Ends /\ Author(q.st.node) = Author(db.node)
          /\ db.status \notin Finished
    /\ q.pc = "spawn" => Saved(q.st) = db /\ db.status = "completed"
    /\ q.pc = "command" => q.st = db /\ Admits(q.op, db)
    /\ q.steps <= 7 /\ (q.op # "run" => q.steps = 0)
    /\ q.pc = "check" /\ ~AtRest(db) => q.steps + ToGo(db) <= 7
    /\ q.pc \in {"load", "exec"} => q.steps = 0 \/ q.steps + ToGo(db) <= 8

Coursing ==
    /\ Inv
    /\ OnCourse(row) /\ row.gen = NoNode
    /\ Awaiting(row) => AtRest(row)
    /\ \A r \in Requests : Underway(req[r], row)

-----------------------------------------------------------------------------
\* The library's nodes, plan by plan.
LEMMA LibraryPlans ==
    /\ DiscoveryNodes = {"pgc_gate", "generation", "qa_gate", "remediation",
                         "end_stabilized", "end_blocked"}
    /\ IntakeNodes = {"intake_gate", "intake_generation", "intake_qa",
                      "intake_remediation", "intake_stabilized", "intake_blocked",
                      "intake_abandoned"}
    /\ LegacyNodes = {"pgc", "old_generation", "old_qa", "old_remediation",
                      "old_complete", "old_failed"}
BY DEF DiscoveryNodes, IntakeNodes, LegacyNodes, DiscoveryKind, IntakeKind, LegacyKind

\* The part each node has in its plan.
Parts(n) ==
    /\ n \in Gates => n \notin Writers \cup Judges \cup Rewriters \cup Ends
    /\ n \in Writers => n \notin Judges \cup Rewriters \cup Ends
    /\ n \in Judges => n \notin Rewriters \cup Ends
    /\ n \in Rewriters => n \notin Ends
    /\ n \in Gates \cup Writers \cup Judges \cup Rewriters \cup Ends
    /\ n \in DiscoveryNodes \cup IntakeNodes \cup LegacyNodes

\* Its type, as the executor sees it.
Typed(n) ==
    /\ n \in Writers \cup Rewriters <=> Kind[n] = "task"
    /\ n \in Judges <=> IsQaGate(n)
    /\ n \in Ends <=> Kind[n] = "end"
    /\ Kind[n] = "pgc_gate" <=> n = "pgc_gate"
    /\ Kind[n] = "intake_gate" <=> n = "intake_gate"
    /\ Kind[n] = "pgc" <=> n = "pgc"
    /\ n \in Ends <=> n \in EndNodes

\* The writer whose work it concerns.
Authored(n) ==
    /\ Author(n) \in Writers /\ Author(n) \in Nodes
    /\ n \in Writers => Author(n) = n
    /\ n \in Writers \cup Rewriters => (n \in Producing <=> Author(n) \in Producing)
    /\ n \in DiscoveryNodes <=> Author(n) = "generation"
    /\ n \in IntakeNodes <=> Author(n) = "intake_generation"
    /\ n \in LegacyNodes <=> Author(n) = "old_generation"

LEMMA LibraryNames ==
    ASSUME SideBySide
    PROVE  /\ Nodes = DiscoveryNodes \cup IntakeNodes \cup LegacyNodes
           /\ Producing = {"generation", "remediation", "old_generation", "old_remediation"}
           /\ MaxRetries = 2
BY DEF SideBySide, LibraryNodes, LibraryTasks, Library, DiscoveryTasks, LegacyTasks,
       BreakerLimit

LEMMA LibraryKinds ==
    ASSUME SideBySide, NEW n \in Nodes
    PROVE  Kind[n] = IF n \in DiscoveryNodes THEN DiscoveryKind[n]
                     ELSE IF n \in IntakeNodes THEN IntakeKind[n]
                     ELSE LegacyKind[n]
BY LibraryNames DEF SideBySide, LibraryKind, Library

LEMMA NodeParts ==
    ASSUME SideBySide, NEW n \in Nodes
    PROVE  Parts(n)
BY LibraryNames, LibraryPlans DEF Parts, Gates, Writers, Judges, Rewriters, Ends

LEMMA NodeTypes ==
    ASSUME SideBySide, NEW n \in Nodes
    PROVE  Typed(n)
<1>1. CASE n \in DiscoveryNodes
  <2>1. Kind[n] = DiscoveryKind[n]
    BY <1>1, LibraryKinds
  <2> QED
    BY <1>1, <2>1, LibraryPlans
    DEF Typed, DiscoveryKind, Writers, Judges, Rewriters, Ends, IsQaGate, EndNodes
<1>2. CASE n \in IntakeNodes
  <2>1. Kind[n] = IntakeKind[n]
    BY <1>2, LibraryKinds, LibraryPlans
  <2> QED
    BY <1>2, <2>1, LibraryPlans
    DEF Typed, IntakeKind, Writers, Judges, Rewriters, Ends, IsQaGate, EndNodes
<1>3. CASE n \in LegacyNodes
  <2>1. Kind[n] = LegacyKind[n]
    BY <1>3, LibraryKinds, LibraryPlans
  <2> QED
    BY <1>3, <2>1, LibraryPlans
    DEF Typed, LegacyKind, Writers, Judges, Rewriters, Ends, IsQaGate, EndNodes
<1> QED
  BY <1>1, <1>2, <1>3, LibraryNames

LEMMA NodeAuthors ==
    ASSUME SideBySide, NEW n \in Nodes
    PROVE  Authored(n)
BY LibraryNames, LibraryPlans DEF Authored, Author, Writers, Rewriters

-----------------------------------------------------------------------------
\* What every edge of the library does.
Leg(x) ==
    /\ x.to # NoNode => Author(x.to) = Author(x.from)
    /\ \/ /\ x.from \in Gates /\ x.to \in Writers \cup Ends /\ x.options = {}
          /\ x.outcome \in {"qualified", "success", "out_of_scope"}
          /\ x.from = "pgc_gate" => x.outcome = "qualified"
          /\ x.from = "pgc" => x.to \in Writers
       \/ x.from \in Gates /\ x.outcome \in {"needs_user_input", "needs_clarification"}
       \/ x.from \in Writers \cup Rewriters /\ x.to \in Judges \cup Ends /\ x.options = {}
       \/ x.from \in Judges /\ x.to \in Ends /\ x.options = {}
       \/ /\ x.from \in Judges /\ x.outcome \in Rejections /\ x.to \in Rewriters
          /\ retries("lt") \in x.conditions
       \/ /\ x.from = "qa_gate" /\ x.outcome \in Rejections /\ x.to = NoNode
          /\ retries("gte") \in x.conditions /\ x.options # {}

LEMMA PlanAuthors ==
    /\ \A n \in DiscoveryNodes : Author(n) = "generation"
    /\ \A n \in IntakeNodes : Author(n) = "intake_generation"
    /\ \A n \in LegacyNodes : Author(n) = "old_generation"
BY LibraryPlans DEF Author

LEMMA NowhereIsNoNode == Nowhere = NoNode
BY DEF Nowhere, NoNode

LEMMA DiscoveryLegs ==
    ASSUME NEW i \in DOMAIN DiscoveryEdges, NEW x, x = DiscoveryEdges[i]
    PROVE  Leg(x)
<1>1. i \in 1 .. 9
  BY DEF DiscoveryEdges
<1>2. CASE i \in {1, 2, 3, 4, 5, 8, 9}
  <2>1. \/ x = edge("pgc_gate", "qualified", "generation")
        \/ x = edge("pgc_gate", "needs_user_input", Nowhere)
        \/ x = edge("generation", "success", "qa_gate")
        \/ x = edge("generation", "failed", "end_blocked")
        \/ x = edge("qa_gate", "pass", "end_stabilized")
        \/ x = edge("remediation", "success", "qa_gate")
        \/ x = edge("remediation", "failed", "end_blocked")
    BY <1>2 DEF DiscoveryEdges
  <2>2. x.options = {}
    BY <2>1 DEF edge
  <2>3. x.to # NoNode => Author(x.to) = Author(x.from)
    <3>1. x.from \in DiscoveryNodes /\ (x.to = NoNode \/ x.to \in DiscoveryNodes)
      BY <2>1, LibraryPlans, NowhereIsNoNode DEF edge
    <3> QED
      BY <3>1, PlanAuthors
  <2>4. \/ /\ x.from \in Gates /\ x.to \in Writers \cup Ends
           /\ x.outcome \in {"qualified", "success", "out_of_scope"}
           /\ x.from = "pgc_gate" => x.outcome = "qualified"
           /\ x.from = "pgc" => x.to \in Writers
        \/ x.from \in Gates /\ x.outcome \in {"needs_user_input", "needs_clarification"}
        \/ x.from \in Writers \cup Rewriters /\ x.to \in Judges \cup Ends
        \/ x.from \in Judges /\ x.to \in Ends
    BY <2>1 DEF edge, Gates, Writers, Rewriters, Judges, Ends
  <2> QED
    BY <2>2, <2>3, <2>4 DEF Leg
<1>3. CASE i = 6
  <2>1. x = [edge("qa_gate", "fail", "remediation") EXCEPT !.conditions = {retries("lt")}]
    BY <1>3 DEF DiscoveryEdges
  <2> QED
    BY <2>1, LibraryPlans DEF edge, Leg, Judges, Rewriters, Rejections, Author
<1>4. CASE i = 7
  <2>1. x = [edge("qa_gate", "fail", Nowhere) EXCEPT !.conditions = {retries("gte")},
                                                    !.options = {"retry", "abandon"}]
    BY <1>4 DEF DiscoveryEdges
  <2> QED
    BY <2>1, LibraryPlans, NowhereIsNoNode DEF edge, Leg, Rejections
<1> QED
  BY <1>1, <1>2, <1>3, <1>4

LEMMA IntakeLegs ==
    ASSUME NEW i \in DOMAIN IntakeEdges, NEW x, x = IntakeEdges[i]
    PROVE  Leg(x)
<1>1. i \in 1 .. 10
  BY DEF IntakeEdges
<1>2. CASE i \notin {7, 8}
  <2>1. \/ x = edge("intake_gate", "qualified", "intake_generation")
        \/ x = edge("intake_gate", "needs_clarification", Nowhere)
        \/ x = edge("intake_gate", "out_of_scope", "intake_abandoned")
        \/ x = edge("intake_generation", "success", "intake_qa")
        \/ x = edge("intake_generation", "failed", "intake_blocked")
        \/ x = edge("intake_qa", "success", "intake_stabilized")
        \/ x = edge("intake_remediation", "success", "intake_qa")
        \/ x = edge("intake_remediation", "failed", "intake_blocked")
    BY <1>1, <1>2 DEF IntakeEdges
  <2>2. x.options = {}
    BY <2>1 DEF edge
  <2>3. x.to # NoNode => Author(x.to) = Author(x.from)
    <3>1. x.from \in IntakeNodes /\ (x.to = NoNode \/ x.to \in IntakeNodes)
      BY <2>1, LibraryPlans, NowhereIsNoNode DEF edge
    <3> QED
      BY <3>1, PlanAuthors
  <2>4. \/ /\ x.from \in Gates /\ x.to \in Writers \cup Ends
           /\ x.outcome \in {"qualified", "success", "out_of_scope"}
           /\ x.from = "pgc_gate" => x.outcome = "qualified"
           /\ x.from = "pgc" => x.to \in Writers
        \/ x.from \in Gates /\ x.outcome \in {"needs_user_input", "needs_clarification"}
        \/ x.from \in Writers \cup Rewriters /\ x.to \in Judges \cup Ends
        \/ x.from \in Judges /\ x.to \in Ends
    BY <2>1 DEF edge, Gates, Writers, Rewriters, Judges, Ends
  <2> QED
    BY <2>2, <2>3, <2>4 DEF Leg
<1>3. CASE i = 7
  <2>1. x = [edge("intake_qa", "failed", "intake_remediation")
                EXCEPT !.conditions = {retries("lt")}]
    BY <1>3 DEF IntakeEdges
  <2> QED
    BY <2>1, LibraryPlans DEF edge, Leg, Judges, Rewriters, Rejections, Author
<1>4. CASE i = 8
  <2>1. x = [edge("intake_qa", "failed", "intake_blocked")
                EXCEPT !.conditions = {retries("gte")}]
    BY <1>4 DEF IntakeEdges
  <2> QED
    BY <2>1, LibraryPlans DEF edge, Leg, Judges, Ends, Author
<1> QED
  BY <1>1, <1>2, <1>3, <1>4

LEMMA LegacyLegs ==
    ASSUME NEW i \in DOMAIN LegacyEdges, NEW x, x = LegacyEdges[i]
    PROVE  Leg(x)
<1>1. i \in 1 .. 9
  BY DEF LegacyEdges
<1>2. CASE i \notin {6, 7}
  <2>1. \/ x = edge("pgc", "success", "old_generation")
        \/ x = edge("pgc", "needs_user_input", Nowhere)
        \/ x = edge("old_generation", "success", "old_qa")
        \/ x = edge("old_generation", "failed", "old_failed")
        \/ x = edge("old_qa", "success", "old_complete")
        \/ x = edge("old_remediation", "success", "old_qa")
        \/ x = edge("old_remediation", "failed", "old_failed")
    BY <1>1, <1>2 DEF LegacyEdges
  <2>2. x.options = {}
    BY <2>1 DEF edge
  <2>3. x.to # NoNode => Author(x.to) = Author(x.from)
    <3>1. x.from \in LegacyNodes /\ (x.to = NoNode \/ x.to \in LegacyNodes)
      BY <2>1, LibraryPlans, NowhereIsNoNode DEF edge
    <3> QED
      BY <3>1, PlanAuthors
  <2>4. \/ /\ x.from \in Gates /\ x.to \in Writers \cup Ends
           /\ x.outcome \in {"qualified", "success", "out_of_scope"}
           /\ x.from = "pgc_gate" => x.outcome = "qualified"
           /\ x.from = "pgc" => x.to \in Writers
        \/ x.from \in Gates /\ x.outcome \in {"needs_user_input", "needs_clarification"}
        \/ x.from \in Writers \cup Rewriters /\ x.to \in Judges \cup Ends
        \/ x.from \in Judges /\ x.to \in Ends
    BY <2>1 DEF edge, Gates, Writers, Rewriters, Judges, Ends
  <2> QED
    BY <2>2, <2>3, <2>4 DEF Leg
<1>3. CASE i = 6
  <2>1. x = [edge("old_qa", "failed", "old_remediation") EXCEPT !.conditions = {retries("lt")}]
    BY <1>3 DEF LegacyEdges
  <2> QED
    BY <2>1, LibraryPlans DEF edge, Leg, Judges, Rewriters, Rejections, Author
<1>4. CASE i = 7
  <2>1. x = [edge("old_qa", "failed", "old_failed") EXCEPT !.conditions = {retries("gte")}]
    BY <1>4 DEF LegacyEdges
  <2> QED
    BY <2>1, LibraryPlans DEF edge, Leg, Judges, Ends, Author
<1> QED
  BY <1>1, <1>2, <1>3, <1>4

\* What holds of the elements of two sequences holds of those of their join.
LEMMA JoinedElements ==
    ASSUME NEW S, NEW a \in Seq(S), NEW b \in Seq(S), NEW i \in DOMAIN (a \o b)
    PROVE  \/ i \in DOMAIN a /\ (a \o b)[i] = a[i]
           \/ \E j \in DOMAIN b : (a \o b)[i] = b[j]
<1>1. DOMAIN a = 1 .. Len(a) /\ DOMAIN b = 1 .. Len(b) /\ Len(a) \in Nat /\ Len(b) \in Nat
  OBVIOUS
<1>2. a \o b \in Seq(S) /\ Len(a \o b) = Len(a) + Len(b)
  OBVIOUS
<1>3. i \in 1 .. Len(a) + Len(b)
  BY <1>2
<1>4. CASE i <= Len(a)
  BY <1>1, <1>3, <1>4
<1>5. CASE i > Len(a)
  <2>1. i - Len(a) \in DOMAIN b
    BY <1>1, <1>3, <1>5
  <2>2. (a \o b)[i] = b[i - Len(a)]
    BY <1>1, <1>3, <1>5
  <2> QED
    BY <2>1, <2>2
<1> QED
  BY <1>1, <1>3, <1>4, <1>5

\* A list of edges is a sequence over its own elements.
Elements(s) == {s[k] : k \in DOMAIN s}

LEMMA EdgesListed ==
    /\ DiscoveryEdges \in Seq(Elements(DiscoveryEdges))
    /\ IntakeEdges \in Seq(Elements(IntakeEdges))
    /\ LegacyEdges \in Seq(Elements(LegacyEdges))
<1>1. ASSUME NEW s, NEW n \in Nat, s = [k \in 1 .. n |-> s[k]]
      PROVE  s \in Seq(Elements(s))
  <2>1. s \in [1 .. n -> Elements(s)]
    BY <1>1 DEF Elements
  <2> QED
    BY <2>1
<1>2. DiscoveryEdges = [k \in 1 .. 9 |-> DiscoveryEdges[k]]
  BY DEF DiscoveryEdges
<1>3. IntakeEdges = [k \in 1 .. 10 |-> IntakeEdges[k]]
  BY DEF IntakeEdges
<1>4. LegacyEdges = [k \in 1 .. 9 |-> LegacyEdges[k]]
  BY DEF LegacyEdges
<1> QED
  BY <1>1, <1>2, <1>3, <1>4

\* Every edge of the library is an edge of one of its plans.
LEMMA LibraryLegs ==
    ASSUME SideBySide, NEW i \in DOMAIN Edges, NEW x, x = Edges[i]
    PROVE  Leg(x)
<1> DEFINE both == DiscoveryEdges \o IntakeEdges
           all == Elements(DiscoveryEdges) \cup Elements(IntakeEdges)
                     \cup Elements(LegacyEdges)
<1>1. Edges = both \o LegacyEdges
  BY DEF SideBySide, LibraryEdges, Library
<1>2. /\ DiscoveryEdges \in Seq(all) /\ IntakeEdges \in Seq(all)
      /\ LegacyEdges \in Seq(all)
  BY EdgesListed
<1> HIDE DEF all
<1>3. both \in Seq(all)
  BY <1>2
<1> HIDE DEF both
<1>4. \/ i \in DOMAIN both /\ x = both[i]
      \/ \E j \in DOMAIN LegacyEdges : x = LegacyEdges[j]
  BY <1>1, <1>2, <1>3, JoinedElements
<1>5. ASSUME NEW j \in DOMAIN both, x = both[j] PROVE Leg(x)
  <2>1. \/ j \in DOMAIN DiscoveryEdges /\ x = DiscoveryEdges[j]
        \/ \E k \in DOMAIN IntakeEdges : x = IntakeEdges[k]
    BY <1>2, <1>5, JoinedElements DEF both
  <2> QED
    BY <2>1, DiscoveryLegs, IntakeLegs
<1> QED
  BY <1>4, <1>5, LegacyLegs

-----------------------------------------------------------------------------
\* A node of the library, all at once.
LEMMA NodeFacts ==
    ASSUME SideBySide, NEW n \in Nodes
    PROVE  Parts(n) /\ Typed(n) /\ Authored(n)
BY NodeParts, NodeTypes, NodeAuthors

LEMMA PartsInPlan ==
    ASSUME SideBySide
    PROVE  /\ Gates \cup Writers \cup Judges \cup Rewriters \cup Ends = Nodes
           /\ NoNode \notin Gates \cup Writers \cup Judges \cup Rewriters \cup Ends
<1>1. Gates \cup Writers \cup Judges \cup Rewriters \cup Ends = Nodes
  BY LibraryNames, LibraryPlans DEF Gates, Writers, Judges, Rewriters, Ends
<1> QED
  BY <1>1, PlanAssumption

\* The rejections a state counts.
LEMMA RefusedCount ==
    ASSUME SideBySide, NEW st \in BudgetedStates
    PROVE  Refused(st) \in Nat /\ Refused(st) <= 2
<1>1. st.node \in Nodes /\ st.retries \in [Nodes -> Nat]
      /\ \A n \in Nodes : st.retries[n] <= MaxRetries
  BY DEF BudgetedStates, States
<1>2. Author(st.node) \in Nodes
  BY <1>1, NodeFacts DEF Authored
<1> QED
  BY <1>1, <1>2, LibraryNames DEF Refused

\* A copy whose node has been written down in its history.
Written(st) ==
    st.node \in Writers \cup Judges \cup Rewriters =>
        /\ st.task = Author(st.node)
        /\ st.task \in Producing => st.made = st.task

\* Two states that differ in their history at most.
SameBut(st, new) ==
    /\ new.node = st.node /\ new.status = st.status /\ new.retries = st.retries
    /\ new.ctx = st.ctx /\ new.pending = st.pending /\ new.offered = st.offered

LEMMA HistoryOnCourse ==
    ASSUME SideBySide, NEW st, OnCourse(st)
    PROVE  /\ OnCourse(RecordExecution(st, st.node))
           /\ Written(RecordExecution(st, st.node))
           /\ SameBut(st, RecordExecution(st, st.node))
           /\ RecordExecution(st, st.node).gen = st.gen
<1> DEFINE new == RecordExecution(st, st.node)
           n == st.node
<1>1. st \in BudgetedStates /\ n \in Nodes
  BY DEF OnCourse, BudgetedStates, States
<1>2. Parts(n) /\ Typed(n) /\ Authored(n)
  BY <1>1, NodeFacts
<1>3. new \in BudgetedStates
  BY <1>1, RecordExecutionBudgeted
<1>4. SameBut(st, new) /\ new.gen = st.gen
  BY <1>1 DEF SameBut, RecordExecution, BudgetedStates, States
<1>5. CASE Kind[n] # "task"
  <2>1. new = st
    BY <1>5 DEF RecordExecution
  <2>2. n \notin Writers \cup Rewriters
    BY <1>2, <1>5 DEF Typed
  <2>3. Written(st)
    BY <2>2 DEF Written, OnCourse
  <2> QED
    BY <1>4, <2>1, <2>3
<1>6. CASE Kind[n] = "task"
  <2>1. /\ new.made = IF st.made = NoNode /\ n \in Producing THEN n ELSE st.made
        /\ new.task = IF st.task = NoNode THEN n ELSE st.task
    BY <1>1, <1>6 DEF RecordExecution, BudgetedStates, States
  <2>2. /\ st.made \in {NoNode, Author(n)} /\ st.task \in {NoNode, Author(n)}
        /\ n \in Rewriters =>
              st.task = Author(n) /\ (st.task \in Producing => st.made = st.task)
    BY DEF OnCourse
  <2>3. n \in Writers \cup Rewriters /\ Author(n) # NoNode
    BY <1>2, <1>6, PartsInPlan DEF Typed, Authored
  <2>4. /\ new.made \in {NoNode, Author(n)} /\ new.task = Author(n)
        /\ new.task \in Producing => new.made = new.task
    <3>1. CASE n \in Writers
      <4>1. n = Author(n)
        BY <1>2, <3>1 DEF Authored
      <4>2. new.task = Author(n)
        BY <2>1, <2>2, <4>1
      <4>3. new.made \in {NoNode, Author(n)}
        BY <2>1, <2>2, <4>1
      <4>4. n \in Producing => new.made = Author(n)
        BY <2>1, <2>2, <4>1
      <4> QED
        BY <4>1, <4>2, <4>3, <4>4
    <3>2. CASE n \in Rewriters
      <4>1. st.task = Author(n) /\ (Author(n) \in Producing => st.made = Author(n))
        BY <2>2, <3>2
      <4>2. new.task = Author(n)
        BY <2>1, <2>3, <4>1
      <4>3. n \in Producing <=> Author(n) \in Producing
        BY <1>2, <2>3 DEF Authored
      <4>4. new.made = st.made
        BY <2>1, <2>3, <4>1, <4>3
      <4> QED
        BY <2>2, <4>1, <4>2, <4>4
    <3> QED
      BY <2>3, <3>1, <3>2
  <2>5. Written(new)
    BY <1>4, <2>4 DEF Written, SameBut
  <2>6. OnCourse(new)
    <3>1. Informed(new)
      BY <1>4 DEF SameBut, OnCourse, Informed
    <3>2. Waiting(new)
      BY <1>4 DEF SameBut, OnCourse, Waiting, Refused
    <3> QED
      BY <1>3, <1>4, <2>4, <3>1, <3>2 DEF SameBut, OnCourse
  <2> QED
    BY <1>4, <2>5, <2>6
<1> QED
  BY <1>5, <1>6

\* A rejection is charged to the writer.
LEMMA ChargedToAuthor ==
    ASSUME SideBySide, NEW st, OnCourse(st), Written(st), NEW outcome
    PROVE  /\ OnCourse(Tracked(st, outcome)) /\ Written(Tracked(st, outcome))
           /\ SameBut(st, Tracked(st, outcome))
           /\ st.node \in Judges /\ outcome \in Rejections =>
                 Tracked(st, outcome).gen = Author(st.node)
<1> DEFINE new == Tracked(st, outcome)
           n == st.node
<1>1. st \in BudgetedStates /\ n \in Nodes
  BY DEF OnCourse, BudgetedStates, States
<1>2. Parts(n) /\ Typed(n) /\ Authored(n)
  BY <1>1, NodeFacts
<1>3. CASE n \notin Judges \/ outcome \notin Rejections
  <2>1. new = st
    BY <1>2, <1>3 DEF Tracked, Typed
  <2> QED
    BY <1>3, <2>1 DEF SameBut
<1>4. CASE n \in Judges /\ outcome \in Rejections
  <2>1. Author(n) # NoNode
    BY <1>2, PartsInPlan DEF Authored
  <2>2. GeneratingNode(st) = Author(n)
    BY <1>4, <2>1 DEF Written, OnCourse, GeneratingNode
  <2>3. new = [st EXCEPT !.gen = Author(n)]
    BY <1>2, <1>4, <2>1, <2>2 DEF Tracked, Typed
  <2>4. new \in BudgetedStates
    BY <1>1, TrackedBudgeted
  <2>5. /\ SameBut(st, new) /\ new.gen = Author(n)
        /\ new.made = st.made /\ new.task = st.task
    BY <1>1, <2>3 DEF SameBut, BudgetedStates, States
  <2> HIDE DEF new, n
  <2>6. Informed(new) /\ Waiting(new)
    BY <2>5 DEF SameBut, OnCourse, Informed, Waiting, Refused
  <2>7. OnCourse(new) /\ Written(new)
    BY <2>4, <2>5, <2>6 DEF SameBut, OnCourse, Written, n
  <2> QED
    BY <2>5, <2>7 DEF new, n
<1> QED
  BY <1>3, <1>4

-----------------------------------------------------------------------------
\* What a node executor reports, for a copy it has worked on.
Reporting(st, outcome) ==
    /\ OnCourse(st) /\ Written(st) /\ st.status = "running"
    /\ outcome \notin {"needs_user_input", "needs_clarification"}
    /\ st.node = "pgc" => outcome = "failed"
    /\ st.pending => st.node = "pgc"
    /\ st.node = "pgc_gate" /\ outcome = "qualified" => st.ctx.answers # NoAnswers

\* How a step takes the state a request worked on to the one it saves.
Onward(old, new) ==
    /\ Author(new.node) = Author(old.node)
    /\ AtRest(new) \/ (~Awaiting(new) /\ ToGo(new) < ToGo(old))

\* The request returns, the row being the state it worked on.
Returned(r, old) ==
    \E new, q :
        /\ OnCourse(new) /\ new.gen = NoNode /\ Onward(old, new)
        /\ q \in {Idle, AfterStep(req[r], new)}
        /\ row' = new /\ req' = [req EXCEPT ![r] = q]

\* The request has published a document that the row does not know of yet.
Publishing(r, old) ==
    \E new :
        /\ OnCourse(new) /\ new.node \in Ends /\ Author(new.node) = Author(old.node)
        /\ row' = row
        /\ req' = [req EXCEPT ![r].pc = "save", ![r].st = new, ![r].answered = NoAnswers]

\* A save forgets what the table has no column for.
LEMMA SavedOnCourse ==
    ASSUME SideBySide, NEW st, OnCourse([st EXCEPT !.offered = {}, !.gen = NoNode]),
           NEW old, Onward(old, [st EXCEPT !.offered = {}, !.gen = NoNode]),
           st \in BudgetedStates, NEW r \in Requests, Commit(r, st)
    PROVE  Returned(r, old)
<1> DEFINE new == [st EXCEPT !.offered = {}, !.gen = NoNode]
<1>1. row' = new
  BY LibraryNames DEF Commit, Saved
<1>2. new.status = st.status /\ new.gen = NoNode
  BY DEF BudgetedStates, States
<1>3. AfterStep(req[r], st) = AfterStep(req[r], new)
  BY <1>2 DEF AfterStep
<1>4. req' = [req EXCEPT ![r] = AfterStep(req[r], new)]
  BY <1>3 DEF Commit
<1> HIDE DEF new
<1> QED
  BY <1>1, <1>2, <1>4 DEF Returned, new

\* Most states saved are on course before the save already, and stay so.
LEMMA ForgottenOnCourse ==
    ASSUME SideBySide, NEW st, OnCourse(st), NEW old, Onward(old, st),
           NEW new, new = [st EXCEPT !.offered = {}, !.gen = NoNode]
    PROVE  OnCourse(new) /\ new.gen = NoNode /\ Onward(old, new) /\ SameBut(st, new)
<1>1. st \in BudgetedStates /\ new \in BudgetedStates
  BY SavedBudgeted, LibraryNames DEF OnCourse, Saved
<1>2. SameBut(st, new) /\ new.gen = NoNode /\ new.made = st.made /\ new.task = st.task
  BY <1>1 DEF SameBut, OnCourse, BudgetedStates, States
<1>3. Informed(new) /\ Waiting(new)
  BY <1>2 DEF SameBut, OnCourse, Informed, Waiting, Refused
<1>4. OnCourse(new)
  BY <1>1, <1>2, <1>3 DEF SameBut, OnCourse
<1>5. Onward(old, new)
  BY <1>2 DEF SameBut, Onward, AtRest, Awaiting, ToGo, Refused
<1> QED
  BY <1>2, <1>4, <1>5

LEMMA KeptOnCourse ==
    ASSUME SideBySide, NEW st, OnCourse(st), NEW old, Onward(old, st),
           NEW r \in Requests, Commit(r, st)
    PROVE  Returned(r, old)
BY ForgottenOnCourse, SavedOnCourse DEF OnCourse

\* A copy that failed, or that a pause or an end was written into.
LEMMA FailedOnCourse ==
    ASSUME SideBySide, NEW st, OnCourse(st), st.status = "running",
           st.pending => st.node = "pgc"
    PROVE  OnCourse(SetFailed(st)) /\ Onward(st, SetFailed(st))
<1> DEFINE failed == [st EXCEPT !.status = "failed"]
           n == st.node
<1>1. st \in BudgetedStates /\ n \in Nodes
  BY DEF OnCourse, BudgetedStates, States
<1>2. failed \in BudgetedStates
  BY <1>1 DEF BudgetedStates, States, Statuses
<1>3. /\ failed.node = n /\ failed.status = "failed" /\ failed.ctx = st.ctx
      /\ failed.pending = st.pending /\ failed.offered = st.offered
      /\ failed.gen = st.gen /\ failed.made = st.made /\ failed.task = st.task
  BY <1>1 DEF BudgetedStates, States
<1> HIDE DEF failed
<1>4. n = "pgc" => n \notin DiscoveryNodes \cup IntakeNodes
  BY LibraryPlans
<1>5. Informed(failed) /\ Waiting(failed)
  BY <1>3, <1>4 DEF OnCourse, Informed, Waiting
<1>6. n \notin Ends
  BY DEF OnCourse
<1>7. OnCourse(failed)
  BY <1>2, <1>3, <1>5, <1>6 DEF OnCourse
<1>8. /\ SetFailed(st) = RecordExecution(failed, failed.node)
  BY <1>3 DEF SetFailed, failed
<1>9. OnCourse(SetFailed(st)) /\ SameBut(failed, SetFailed(st))
  BY <1>7, <1>8, HistoryOnCourse
<1> QED
  BY <1>3, <1>9 DEF SameBut, Onward, AtRest, Finished

\* Where an outcome leads, by the part of the node that reported it.
LEMMA LegTaken ==
    ASSUME SideBySide, NEW st \in BudgetedStates, NEW outcome, NEW e \in Selected(st, outcome)
    PROVE  /\ Leg(e) /\ e.from = st.node /\ e.outcome = outcome
           /\ e.to \in Nodes \cup {NoNode}
           /\ e.options \subseteq Options
           /\ \A c \in e.conditions : Holds(c, st)
<1>1. PICK i \in DOMAIN Edges :
         /\ e = Edges[i] /\ e.from = st.node /\ e.outcome = outcome
         /\ \A c \in e.conditions : Holds(c, st)
  BY SelectedEdge
<1>2. Leg(e)
  BY <1>1, LibraryLegs
<1> QED
  BY <1>1, <1>2, PlanAssumption, OptionsAssumption

\* An outcome, ready to be routed.
Routing(st, outcome) ==
    /\ Reporting(st, outcome)
    /\ st.node \in Judges /\ outcome \in Rejections => st.gen = Author(st.node)

\* The one edge that goes nowhere and is taken trips the breaker.
LEMMA StopsOnCourse ==
    ASSUME SideBySide, NEW st, NEW outcome, Routing(st, outcome),
           NEW e \in Selected(st, outcome), NEW r \in Requests, StaysPut(r, st, e)
    PROVE  Returned(r, st)
<1> DEFINE n == st.node
           stopped == SetEscalation(st, e.options)
           new == [stopped EXCEPT !.offered = {}, !.gen = NoNode]
<1>1. st \in BudgetedStates /\ n \in Nodes /\ OnCourse(st)
  BY DEF Routing, Reporting, OnCourse, BudgetedStates, States
<1>2. /\ Leg(e) /\ e.from = n /\ e.outcome = outcome /\ e.options \subseteq Options
      /\ \A c \in e.conditions : Holds(c, st)
  BY <1>1, LegTaken
<1>3. e.to = NoNode
  BY DEF StaysPut
<1>4. /\ n = "qa_gate" /\ outcome \in Rejections
      /\ retries("gte") \in e.conditions /\ e.options # {}
  BY <1>2, <1>3, PartsInPlan DEF Leg, Routing, Reporting
<1>5. n \in Judges /\ st.gen = Author(n)
  BY <1>4 DEF Judges, Routing
<1>6. Author(n) # NoNode
  BY <1>1, NodeFacts, PartsInPlan DEF Authored
<1>7. st.retries[Author(n)] >= 2
  <2>1. Holds(retries("gte"), st)
    BY <1>2, <1>4
  <2> QED
    BY <2>1, <1>5, <1>6 DEF Holds, retries, Compare, RetryKey, BreakerLimit
<1>8. Refused(st) = MaxRetries
  BY <1>1, <1>7, RefusedCount, LibraryNames DEF Refused
<1>9. Commit(r, stopped)
  BY <1>4 DEF StaysPut
<1>10. stopped \in BudgetedStates /\ new \in BudgetedStates
  BY <1>1, <1>2, SetEscalationBudgeted, SavedBudgeted, LibraryNames DEF Saved
<1>11. /\ new.node = n /\ new.status = "paused" /\ new.ctx = st.ctx
       /\ new.pending = st.pending /\ new.offered = {} /\ new.retries = st.retries
       /\ new.gen = NoNode /\ new.made = st.made /\ new.task = st.task
  BY <1>1 DEF SetEscalation, BudgetedStates, States
<1> HIDE DEF new
<1>12. ~st.pending
  BY <1>5, <1>1, NodeFacts, LibraryPlans DEF Routing, Reporting, Judges
<1>13. Informed(new) /\ Waiting(new)
  BY <1>1, <1>4, <1>8, <1>11, <1>12 DEF OnCourse, Informed, Waiting, Refused
<1>14. n \notin Ends
  BY DEF Routing, Reporting, OnCourse
<1>15. OnCourse(new)
  BY <1>1, <1>10, <1>11, <1>13, <1>14 DEF OnCourse
<1>16. Onward(st, new)
  BY <1>11 DEF Onward, AtRest
<1> QED
  BY <1>9, <1>10, <1>15, <1>16, SavedOnCourse DEF new

\* An execution that moves on is one step nearer to its end.
LEMMA AdvancesOnCourse ==
    ASSUME SideBySide, NEW st, NEW outcome, Routing(st, outcome),
           NEW e \in Selected(st, outcome), NEW r \in Requests,
           Advances(r, st, e, outcome)
    PROVE  Returned(r, st)
<1> DEFINE n == st.node
           next == [st EXCEPT !.node = e.to]
           counts == n \in Judges /\ outcome \in Rejections
           new == IF counts THEN IncrementRetry(next, Author(n)) ELSE next
<1>1. st \in BudgetedStates /\ n \in Nodes /\ OnCourse(st) /\ st.status = "running"
  BY DEF Routing, Reporting, OnCourse, BudgetedStates, States
<1>2. /\ Leg(e) /\ e.from = n /\ e.outcome = outcome
      /\ \A c \in e.conditions : Holds(c, st)
      /\ e.to \in Nodes /\ e.to # NoNode
  BY <1>1, LegTaken DEF Advances
<1>3. e.to \notin Ends
  BY <1>2, NodeFacts DEF Advances, Typed
<1>4. Parts(n) /\ Typed(n) /\ Authored(n) /\ Parts(e.to) /\ Typed(e.to) /\ Authored(e.to)
  BY <1>1, <1>2, NodeFacts
<1>5. Author(e.to) = Author(n) /\ Author(n) # NoNode
  BY <1>2, <1>4, PartsInPlan DEF Leg, Authored
<1>6. \/ n \in Gates /\ e.to \in Writers
      \/ n \in Writers \cup Rewriters /\ e.to \in Judges
      \/ counts /\ e.to \in Rewriters /\ retries("lt") \in e.conditions
  BY <1>2, <1>3, PartsInPlan DEF Leg, Routing, Reporting
<1>7. Commit(r, new)
  BY <1>4, <1>5 DEF Advances, Typed, Routing
<1>8. /\ next \in BudgetedStates /\ next.node = e.to /\ next.status = "running"
      /\ next.ctx = st.ctx /\ next.pending = st.pending /\ next.offered = st.offered
      /\ next.gen = st.gen /\ next.made = st.made /\ next.task = st.task
      /\ next.retries = st.retries
  BY <1>1, <1>2 DEF BudgetedStates, States
<1>9. counts => st.retries[Author(n)] < 2 /\ e.to \in Rewriters
  <2> SUFFICES ASSUME counts PROVE st.retries[Author(n)] < 2 /\ e.to \in Rewriters
    OBVIOUS
  <2>1. e.to \in Rewriters /\ retries("lt") \in e.conditions
    BY <1>4, <1>6 DEF Parts
  <2>2. Holds(retries("lt"), st)
    BY <1>2, <2>1
  <2>3. RetryKey(st) = Author(n)
    BY <1>5 DEF RetryKey, Routing
  <2> QED
    BY <2>1, <2>2, <2>3 DEF Holds, retries, Compare, BreakerLimit
<1>10. /\ new \in BudgetedStates
       /\ new.node = e.to /\ new.status = "running" /\ new.ctx = st.ctx
       /\ new.pending = st.pending /\ new.offered = st.offered
       /\ new.gen = st.gen /\ new.made = st.made /\ new.task = st.task
       /\ Refused(new) = IF counts THEN Refused(st) + 1 ELSE Refused(st)
  <2>1. CASE ~counts
    BY <1>5, <1>8, <2>1 DEF Refused
  <2>2. CASE counts
    <3>1. Author(n) \in Nodes
      BY <1>4 DEF Authored
    <3>2. next.retries[Author(n)] < MaxRetries
      BY <1>8, <1>9, <2>2, LibraryNames
    <3>3. IncrementRetry(next, Author(n)) \in BudgetedStates
      BY <1>8, <3>1, <3>2, IncrementRetryBudgeted
    <3> HIDE DEF next
    <3>4. /\ new = [next EXCEPT !.retries[Author(n)] = @ + 1]
          /\ next.retries \in [Nodes -> Nat]
      BY <1>8, <2>2 DEF IncrementRetry, BudgetedStates, States
    <3>5. /\ new.node = next.node /\ new.status = next.status /\ new.ctx = next.ctx
          /\ new.pending = next.pending /\ new.offered = next.offered
          /\ new.gen = next.gen /\ new.made = next.made /\ new.task = next.task
          /\ new.retries = [next.retries EXCEPT ![Author(n)] = @ + 1]
      BY <1>8, <3>4 DEF BudgetedStates, States
    <3>6. new.retries[Author(n)] = st.retries[Author(n)] + 1
      BY <1>8, <3>1, <3>4, <3>5
    <3> QED
      BY <1>5, <1>8, <2>2, <3>3, <3>5, <3>6 DEF Refused
  <2> QED
    BY <2>1, <2>2
<1> HIDE DEF new, next, counts
<1>11. ~st.pending /\ (n \in Gates => n # "pgc")
  <2>1. n = "pgc" => n \in Gates /\ outcome = "failed"
    BY DEF Routing, Reporting, Gates
  <2>2. n # "pgc"
    BY <1>2, <1>3, <1>4, <2>1, PartsInPlan DEF Leg, Parts
  <2> QED
    BY <2>2 DEF Routing, Reporting
<1>12. n \in DiscoveryNodes /\ n \in Gates => st.ctx.answers # NoAnswers
  <2> SUFFICES ASSUME n \in DiscoveryNodes, n \in Gates PROVE st.ctx.answers # NoAnswers
    OBVIOUS
  <2>1. n = "pgc_gate"
    BY LibraryPlans DEF Gates
  <2>2. outcome = "qualified"
    BY <1>2, <1>4, <1>5, <2>1 DEF Leg, Parts, Routing, Reporting
  <2> QED
    BY <2>1, <2>2 DEF Routing, Reporting
<1>13. e.to \notin Gates /\ (e.to \in DiscoveryNodes <=> n \in DiscoveryNodes)
       /\ (e.to \in IntakeNodes <=> n \in IntakeNodes)
  BY <1>3, <1>4, <1>5, <1>6 DEF Parts, Authored
<1>14. Informed(new)
  <2>1. n \in Gates /\ n \notin IntakeNodes => n \in DiscoveryNodes
    BY <1>4, <1>11, LibraryPlans DEF Gates, Parts
  <2> QED
    BY <1>1, <1>10, <1>12, <1>13, <2>1 DEF OnCourse, Informed
<1>15. Waiting(new)
  BY <1>10, <1>11 DEF Waiting
<1>16. e.to \in Judges \cup Rewriters => n \notin Gates
  BY <1>4, <1>6 DEF Parts, counts
<1>17. OnCourse(new)
  <2>1. n \in Writers \cup Judges \cup Rewriters \/ n \in Gates
    BY <1>3, <1>4, <1>6 DEF counts
  <2>2. e.to \in Judges \cup Rewriters =>
           st.task = Author(n) /\ (st.task \in Producing => st.made = st.task)
    BY <1>16, <2>1 DEF Routing, Reporting, Written
  <2> QED
    BY <1>1, <1>3, <1>5, <1>10, <1>14, <1>15, <2>2 DEF OnCourse
<1>18. Onward(st, new)
  <2>1. Refused(st) \in Nat
    BY <1>1, RefusedCount
  <2>2. e.to # "intake_gate"
    BY <1>13 DEF Gates
  <2>3. ToGo(new) < ToGo(st)
    <3>1. CASE n \in Gates /\ e.to \in Writers
      BY <1>4, <1>10, <3>1 DEF ToGo, Parts
    <3>2. CASE n \in Writers /\ e.to \in Judges
      <4>1. ~counts
        BY <1>4, <3>2 DEF Parts, counts
      <4> QED
        BY <1>4, <1>10, <2>1, <3>2, <4>1 DEF ToGo, Parts
    <3>3. CASE n \in Rewriters /\ e.to \in Judges
      <4>1. ~counts
        BY <1>4, <3>3 DEF Parts, counts
      <4> QED
        BY <1>4, <1>10, <2>1, <3>3, <4>1 DEF ToGo, Parts
    <3>4. CASE counts /\ e.to \in Rewriters
      <4>1. n \in Judges
        BY <3>4 DEF counts
      <4> QED
        BY <1>4, <1>10, <2>1, <3>4, <4>1 DEF ToGo, Parts
    <3> QED
      BY <1>6, <3>1, <3>2, <3>3, <3>4
  <2> QED
    BY <1>5, <1>10, <2>2, <2>3 DEF Onward, Awaiting
<1> QED
  BY <1>7, <1>17, <1>18, KeptOnCourse

\* An execution that reaches an end of its plan stays on course.
LEMMA EndsOnCourse ==
    ASSUME SideBySide, NEW st, NEW outcome, Routing(st, outcome),
           NEW e \in Selected(st, outcome), e.to \in EndNodes
    PROVE  /\ OnCourse(Completed(st, e)) /\ Completed(st, e).node \in Ends
           /\ Author(Completed(st, e).node) = Author(st.node)
           /\ Onward(st, Completed(st, e))
<1> DEFINE n == st.node
           new == Completed(st, e)
<1>1. st \in BudgetedStates /\ n \in Nodes /\ OnCourse(st)
  BY DEF Routing, Reporting, OnCourse, BudgetedStates, States
<1>2. Leg(e) /\ e.from = n /\ e.outcome = outcome /\ e.to \in Nodes /\ e.to # NoNode
  BY <1>1, LegTaken, PlanAssumption DEF EndNodes
<1>3. Parts(n) /\ Typed(n) /\ Authored(n) /\ Parts(e.to) /\ Typed(e.to) /\ Authored(e.to)
  BY <1>1, <1>2, NodeFacts
<1>4. e.to \in Ends /\ Author(e.to) = Author(n)
  BY <1>2, <1>3 DEF Leg, Typed
<1>5. new \in BudgetedStates
  BY <1>1, CompletedBudgeted
<1>6. /\ new.node = e.to /\ new.status = "completed" /\ new.ctx = st.ctx
      /\ new.pending = st.pending /\ new.offered = st.offered /\ new.gen = st.gen
      /\ new.made = st.made /\ new.task = st.task
  BY <1>1 DEF Completed, SetCompleted, BudgetedStates, States
<1> HIDE DEF new
<1>7. n = "pgc" => n \in Gates /\ outcome = "failed"
  BY DEF Routing, Reporting, Gates
<1>8. n # "pgc"
  BY <1>2, <1>3, <1>4, <1>7, PartsInPlan DEF Leg, Parts
<1>9. ~st.pending
  BY <1>8 DEF Routing, Reporting
<1>10. Waiting(new)
  BY <1>6, <1>9 DEF Waiting
<1>11. n \in Gates /\ n \notin IntakeNodes => st.ctx.answers # NoAnswers
  <2> SUFFICES ASSUME n \in Gates, n \notin IntakeNodes PROVE st.ctx.answers # NoAnswers
    OBVIOUS
  <2>1. n = "pgc_gate"
    BY <1>8, LibraryPlans DEF Gates
  <2>2. outcome = "qualified"
    BY <1>2, <1>3, <1>4, <2>1, PartsInPlan DEF Leg, Parts, Routing, Reporting
  <2> QED
    BY <2>1, <2>2 DEF Routing, Reporting
<1>12. Informed(new)
  BY <1>1, <1>3, <1>4, <1>6, <1>11 DEF OnCourse, Informed, Authored
<1>13. OnCourse(new)
  BY <1>1, <1>3, <1>4, <1>5, <1>6, <1>10, <1>12 DEF OnCourse, Parts
<1> QED
  BY <1>4, <1>6, <1>13 DEF Onward, AtRest, Finished, new

\* Whatever a node reports, the request saves a state that is on course, or has
\* published a document.
LEMMA RoutesOnCourse ==
    ASSUME SideBySide, NEW old, NEW st, NEW outcome, NEW r \in Requests,
           Reporting(st, outcome), Routes(r, st, outcome),
           old.node = st.node, old.retries = st.retries
    PROVE  Returned(r, old) \/ Publishing(r, old)
<1> DEFINE tracked == Tracked(st, outcome)
<1>1. /\ OnCourse(tracked) /\ Written(tracked) /\ SameBut(st, tracked)
      /\ st.node \in Judges /\ outcome \in Rejections => tracked.gen = Author(st.node)
  BY ChargedToAuthor DEF Reporting
<1>2. FindsNoEdge(r, tracked, outcome)
      \/ \E e \in Selected(tracked, outcome) :
            StaysPut(r, tracked, e) \/ Advances(r, tracked, e, outcome)
            \/ CompletesUnpublished(r, tracked, e) \/ CompletesPublishing(r, tracked, e)
  BY DEF Routes
<1> HIDE DEF tracked
<1>3. Routing(tracked, outcome)
  BY <1>1 DEF Routing, Reporting, SameBut
<1>4. tracked.node = old.node /\ tracked.retries = old.retries
  BY <1>1 DEF SameBut
<1>5. \A new : Onward(tracked, new) => Onward(old, new)
  BY <1>4 DEF Onward, ToGo, Refused
<1>6. Returned(r, tracked) => Returned(r, old)
  BY <1>5 DEF Returned
<1>7. CASE FindsNoEdge(r, tracked, outcome)
  <2>1. OnCourse(SetFailed(tracked)) /\ Onward(tracked, SetFailed(tracked))
    BY <1>1, <1>3, FailedOnCourse DEF Routing, Reporting
  <2> QED
    BY <1>6, <1>7, <2>1, KeptOnCourse DEF FindsNoEdge
<1>8. ASSUME NEW e \in Selected(tracked, outcome), StaysPut(r, tracked, e)
      PROVE  Returned(r, old)
  BY <1>3, <1>6, <1>8, StopsOnCourse
<1>9. ASSUME NEW e \in Selected(tracked, outcome), Advances(r, tracked, e, outcome)
      PROVE  Returned(r, old)
  BY <1>3, <1>6, <1>9, AdvancesOnCourse
<1>10. ASSUME NEW e \in Selected(tracked, outcome), CompletesUnpublished(r, tracked, e)
       PROVE  Returned(r, old)
  BY <1>3, <1>6, <1>10, EndsOnCourse, KeptOnCourse DEF CompletesUnpublished
<1>11. ASSUME NEW e \in Selected(tracked, outcome), CompletesPublishing(r, tracked, e)
       PROVE  Publishing(r, old)
  <2>1. PICK new : new = Completed(tracked, e)
    OBVIOUS
  <2>2. OnCourse(new) /\ new.node \in Ends /\ Author(new.node) = Author(old.node)
    BY <1>3, <1>4, <1>11, <2>1, EndsOnCourse DEF CompletesPublishing
  <2>3. /\ row' = row
        /\ req' = [req EXCEPT ![r].pc = "save", ![r].st = new, ![r].answered = NoAnswers]
    BY <1>11, <2>1 DEF CompletesPublishing
  <2> QED
    BY <2>2, <2>3 DEF Publishing
<1> QED
  BY <1>2, <1>7, <1>8, <1>9, <1>10, <1>11

-----------------------------------------------------------------------------
\* What a node may write into the context of a state.
Tellable(st, ctx) ==
    /\ ctx \in Contexts
    /\ ctx.draft # NoAnswers /\ ctx.confirmed # "default"
    /\ st.node \notin IntakeNodes =>
          ctx.phase # "review" /\ (st.node \notin Gates => ctx.answers # NoAnswers)
    /\ st.node \in DiscoveryNodes => (ctx.answers # NoAnswers => ctx.questions)
    /\ st.pending /\ st.node \in DiscoveryNodes => ctx.answers = NoAnswers /\ ctx.questions

LEMMA ToldOnCourse ==
    ASSUME NEW st, OnCourse(st), Written(st), NEW ctx, Tellable(st, ctx),
           NEW new, new = [st EXCEPT !.ctx = ctx]
    PROVE  /\ OnCourse(new) /\ Written(new) /\ new.ctx = ctx
           /\ new.node = st.node /\ new.retries = st.retries /\ new.status = st.status
           /\ new.pending = st.pending
<1>1. st \in BudgetedStates /\ ctx \in Contexts
  BY DEF OnCourse, Tellable
<1>2. new \in BudgetedStates
  BY <1>1, ContextBudgeted
<1>3. /\ new.node = st.node /\ new.retries = st.retries /\ new.status = st.status
      /\ new.pending = st.pending /\ new.ctx = ctx /\ new.offered = st.offered
      /\ new.gen = st.gen /\ new.made = st.made /\ new.task = st.task
  BY <1>1 DEF BudgetedStates, States
<1>4. Informed(new) /\ Waiting(new)
  BY <1>3 DEF OnCourse, Tellable, Informed, Waiting, Refused
<1> QED
  BY <1>2, <1>3, <1>4 DEF OnCourse, Written

\* A gate pauses the execution.
LEMMA PausedOnCourse ==
    ASSUME SideBySide, NEW st, OnCourse(st), st.node \in Gates, NEW payload \in BOOLEAN,
           st.node \in DiscoveryNodes => st.ctx.answers = NoAnswers /\ st.ctx.questions,
           NEW old, old.node = st.node, NEW r \in Requests, Pauses(r, st, payload)
    PROVE  Returned(r, old)
<1> DEFINE new == SetPaused(st, payload)
<1>1. st \in BudgetedStates /\ st.node \in Nodes
  BY DEF OnCourse, BudgetedStates, States
<1>2. new \in BudgetedStates
  BY <1>1, SetPausedBudgeted
<1>3. /\ new.node = st.node /\ new.retries = st.retries /\ new.status = "paused"
      /\ new.pending /\ new.ctx = st.ctx /\ new.offered = st.offered
      /\ new.gen = st.gen /\ new.made = st.made /\ new.task = st.task
  BY <1>1 DEF SetPaused, BudgetedStates, States
<1>4. Commit(r, new)
  BY DEF Pauses
<1> HIDE DEF new
<1>5. Informed(new) /\ Waiting(new)
  BY <1>3 DEF OnCourse, Informed, Waiting, Finished
<1>6. st.node \notin Ends
  BY <1>1, NodeFacts DEF Parts
<1>7. OnCourse(new)
  BY <1>2, <1>3, <1>5, <1>6 DEF OnCourse
<1>8. Onward(old, new)
  BY <1>3 DEF Onward, AtRest
<1> QED
  BY <1>4, <1>7, <1>8, KeptOnCourse

\* What a request that awaits a node executor holds.
Executes(r) ==
    LET st == req[r].st IN
    OnCourse(st) /\ st.status = "running" /\ (Awaiting(st) => Spoken(r))

LEMMA RecordedOnCourse ==
    ASSUME SideBySide, NEW r \in Requests, Executes(r), NEW st, st = Recorded(r)
    PROVE  /\ OnCourse(st) /\ Written(st) /\ st.status = "running"
           /\ st.node = req[r].st.node /\ st.retries = req[r].st.retries
           /\ st.ctx = req[r].st.ctx /\ st.pending = req[r].st.pending
           /\ st \in BudgetedStates /\ st.ctx \in Contexts /\ st.node \in Nodes
           /\ st.node \notin Ends
           /\ st.pending => st.node \in {"pgc_gate", "pgc"}
<1>1. /\ OnCourse(st) /\ Written(st) /\ SameBut(req[r].st, st)
  BY HistoryOnCourse DEF Executes, Recorded
<1>2. st \in BudgetedStates /\ st.ctx \in Contexts /\ st.node \in Nodes
  BY <1>1 DEF OnCourse, BudgetedStates, States
<1>3. st.status = "running"
  BY <1>1 DEF SameBut, Executes
<1>4. st.node \notin Ends
  BY <1>1, <1>3 DEF OnCourse
<1>5. st.pending => st.node \in {"pgc_gate", "pgc"}
  BY <1>1, <1>3, LibraryPlans DEF OnCourse, Waiting, Gates
<1> QED
  BY <1>1, <1>2, <1>3, <1>4, <1>5 DEF SameBut

LEMMA GateExecutes ==
    ASSUME SideBySide, NEW r \in Requests, Executes(r),
           \/ PgcGateAsks(r) \/ PgcGateWaits(r) \/ PgcGateMerges(r) \/ PgcNodeAsks(r)
    PROVE  Returned(r, req[r].st) \/ Publishing(r, req[r].st)
<1> DEFINE old == req[r].st
<1>1. PICK st : st = Recorded(r)
  OBVIOUS
<1>2. /\ OnCourse(st) /\ Written(st) /\ st.status = "running"
      /\ st.node = old.node /\ st.retries = old.retries /\ st.ctx = old.ctx
      /\ st.pending = old.pending /\ st \in BudgetedStates /\ st.ctx \in Contexts
      /\ st.node \in Nodes
      /\ st.pending => st.node \in {"pgc_gate", "pgc"}
  BY <1>1, RecordedOnCourse
<1>3. Typed(st.node)
  BY <1>2, NodeFacts
<1>4. Informed(st) /\ Waiting(st)
  BY <1>2 DEF OnCourse
<1>5. "pgc_gate" \in Gates /\ "pgc_gate" \in DiscoveryNodes /\ "pgc_gate" \notin IntakeNodes
      /\ "pgc" \in Gates /\ "pgc" \notin DiscoveryNodes /\ "pgc" \notin IntakeNodes
  BY LibraryPlans DEF Gates
<1> HIDE DEF old
<1>6. CASE PgcGateAsks(r)
  <2>1. st.node = "pgc_gate" /\ ~st.ctx.questions
    BY <1>2, <1>3, <1>6 DEF PgcGateAsks, Executing, Typed, old
  <2>2. ~st.pending /\ st.ctx.answers = NoAnswers
    BY <1>4, <1>5, <2>1 DEF Informed, Waiting
  <2>3. ASSUME Routes(r, st, "failed") PROVE Returned(r, old) \/ Publishing(r, old)
    <3>1. Reporting(st, "failed")
      BY <1>2, <2>1, <2>2 DEF Reporting
    <3> QED
      BY <1>2, <2>3, <3>1, RoutesOnCourse
  <2>4. ASSUME Pauses(r, [st EXCEPT !.ctx.questions = TRUE], TRUE) PROVE Returned(r, old)
    <3>1. PICK ctx : ctx = [st.ctx EXCEPT !.questions = TRUE]
      OBVIOUS
    <3>2. PICK asked : asked = [st EXCEPT !.ctx = ctx]
      OBVIOUS
    <3>3. /\ ctx \in Contexts /\ ctx.questions /\ ctx.answers = st.ctx.answers
          /\ ctx.draft = st.ctx.draft /\ ctx.phase = st.ctx.phase
          /\ ctx.confirmed = st.ctx.confirmed
      BY <1>2, <3>1 DEF Contexts
    <3>4. Tellable(st, ctx)
      BY <1>4, <1>5, <2>1, <2>2, <3>3 DEF Tellable, Informed
    <3>5. OnCourse(asked) /\ asked.ctx = ctx /\ asked.node = st.node
      BY <1>2, <3>2, <3>4, ToldOnCourse
    <3>6. Pauses(r, asked, TRUE)
      BY <1>2, <2>4, <3>1, <3>2 DEF BudgetedStates, States
    <3> QED
      BY <1>2, <1>5, <2>1, <2>2, <3>3, <3>5, <3>6, PausedOnCourse
  <2> QED
    BY <1>1, <1>6, <2>3, <2>4 DEF PgcGateAsks, old
<1>7. CASE PgcGateWaits(r)
  <2>1. st.node = "pgc_gate" /\ st.ctx.questions /\ st.ctx.answers = NoAnswers
    BY <1>2, <1>3, <1>7 DEF PgcGateWaits, Executing, HasMerge, Typed, old
  <2>2. Pauses(r, st, FALSE)
    BY <1>1, <1>7 DEF PgcGateWaits
  <2> QED
    BY <1>2, <1>5, <2>1, <2>2, PausedOnCourse DEF old
<1>8. CASE PgcGateMerges(r)
  <2>1. st.node = "pgc_gate" /\ st.ctx.questions /\ st.ctx.answers # NoAnswers
    BY <1>2, <1>3, <1>8 DEF PgcGateMerges, Executing, HasMerge, Typed, old
  <2>2. ~st.pending
    BY <1>4, <1>5, <2>1 DEF Waiting
  <2>3. PICK ctx : ctx = [st.ctx EXCEPT !.phase = "merge"]
    OBVIOUS
  <2>4. PICK new : new = [st EXCEPT !.ctx = ctx]
    OBVIOUS
  <2>5. /\ ctx \in Contexts /\ ctx.questions = st.ctx.questions
        /\ ctx.answers = st.ctx.answers /\ ctx.draft = st.ctx.draft /\ ctx.phase = "merge"
        /\ ctx.confirmed = st.ctx.confirmed
    BY <1>2, <2>3 DEF Contexts
  <2>6. Tellable(st, ctx)
    BY <1>4, <1>5, <2>1, <2>2, <2>5 DEF Tellable, Informed
  <2>7. /\ OnCourse(new) /\ Written(new) /\ new.ctx = ctx /\ new.node = st.node
        /\ new.retries = st.retries /\ new.status = st.status /\ new.pending = st.pending
    BY <1>2, <2>4, <2>6, ToldOnCourse
  <2>8. Routes(r, new, "qualified")
    BY <1>1, <1>2, <1>8, <2>3, <2>4 DEF PgcGateMerges, BudgetedStates, States
  <2>9. Reporting(new, "qualified")
    BY <1>2, <2>1, <2>2, <2>5, <2>7 DEF Reporting
  <2> QED
    BY <1>2, <2>7, <2>8, <2>9, RoutesOnCourse DEF old
<1>9. CASE PgcNodeAsks(r)
  <2>1. st.node = "pgc"
    BY <1>2, <1>3, <1>9 DEF PgcNodeAsks, Executing, Typed, old
  <2>2. ASSUME Routes(r, st, "failed") PROVE Returned(r, old) \/ Publishing(r, old)
    <3>1. Reporting(st, "failed")
      BY <1>2, <2>1 DEF Reporting
    <3> QED
      BY <1>2, <2>2, <3>1, RoutesOnCourse
  <2>3. ASSUME Pauses(r, st, TRUE) PROVE Returned(r, old)
    BY <1>2, <1>5, <2>1, <2>3, PausedOnCourse
  <2> QED
    BY <1>1, <1>9, <2>2, <2>3 DEF PgcNodeAsks, old
<1> QED
  BY <1>6, <1>7, <1>8, <1>9 DEF old

LEMMA IntakeExecutes ==
    ASSUME SideBySide, NEW r \in Requests, Executes(r),
           \/ IntakeAsks(r) \/ IntakeClassifies(r) \/ IntakeRejects(r)
           \/ IntakeConfirms(r) \/ IntakeIsComplete(r)
    PROVE  Returned(r, req[r].st) \/ Publishing(r, req[r].st)
<1> DEFINE old == req[r].st
<1>1. PICK st : st = Recorded(r)
  OBVIOUS
<1>2. /\ OnCourse(st) /\ Written(st) /\ st.status = "running"
      /\ st.node = old.node /\ st.retries = old.retries /\ st.ctx = old.ctx
      /\ st.pending = old.pending /\ st \in BudgetedStates /\ st.ctx \in Contexts
      /\ st.node \in Nodes
      /\ st.pending => st.node \in {"pgc_gate", "pgc"}
  BY <1>1, RecordedOnCourse
<1>3. Informed(st) /\ Waiting(st)
  BY <1>2 DEF OnCourse
<1>4. st.node = "intake_gate"
  <2>1. Executing(r, {"intake_gate"})
    BY DEF IntakeAsks, IntakeClassifies, IntakeRejects, IntakeConfirms, IntakeIsComplete
  <2> QED
    BY <1>2, <2>1, NodeFacts DEF Executing, Typed
<1>5. st.node \in Gates /\ st.node \in IntakeNodes /\ st.node \notin DiscoveryNodes
      /\ ~st.pending
  BY <1>2, <1>4, LibraryPlans DEF Gates
<1> HIDE DEF old
<1>6. ASSUME NEW outcome \in {"out_of_scope", "failed"}, Routes(r, st, outcome)
      PROVE  Returned(r, old) \/ Publishing(r, old)
  <2>1. Reporting(st, outcome)
    BY <1>2, <1>4, <1>5 DEF Reporting
  <2> QED
    BY <1>2, <1>6, <2>1, RoutesOnCourse
<1>7. CASE IntakeAsks(r)
  <2>1. Pauses(r, st, FALSE)
    BY <1>1, <1>7 DEF IntakeAsks
  <2> QED
    BY <1>2, <1>5, <2>1, PausedOnCourse DEF old
<1>8. CASE IntakeClassifies(r)
  <2>1. PICK ctx : ctx = [st.ctx EXCEPT !.gatePhase = "awaiting_confirmation"]
    OBVIOUS
  <2>2. PICK new : new = [st EXCEPT !.ctx = ctx]
    OBVIOUS
  <2>3. /\ ctx \in Contexts /\ ctx.draft = st.ctx.draft /\ ctx.confirmed = st.ctx.confirmed
    BY <1>2, <2>1 DEF Contexts
  <2>4. Tellable(st, ctx)
    BY <1>3, <1>5, <2>3 DEF Tellable, Informed
  <2>5. OnCourse(new) /\ new.node = st.node
    BY <1>2, <2>2, <2>4, ToldOnCourse
  <2>6. Pauses(r, new, FALSE)
    BY <1>1, <1>2, <1>8, <2>1, <2>2 DEF IntakeClassifies, BudgetedStates, States
  <2> QED
    BY <1>2, <1>5, <2>5, <2>6, PausedOnCourse DEF old
<1>9. CASE IntakeRejects(r)
  BY <1>1, <1>6, <1>9 DEF IntakeRejects, old
<1>10. CASE IntakeConfirms(r)
  <2>1. Spoken(r)
    BY <1>2, <1>4, <1>10 DEF IntakeConfirms, Executes, Awaiting, old
  <2>2. PICK ctx : ctx = [st.ctx EXCEPT !.gatePhase = "complete", !.phase = "review",
                                        !.confirmed = "operator"]
    OBVIOUS
  <2>3. PICK new : new = [st EXCEPT !.ctx = ctx]
    OBVIOUS
  <2>4. /\ ctx \in Contexts /\ ctx.draft = st.ctx.draft /\ ctx.confirmed = "operator"
    BY <1>2, <2>2 DEF Contexts
  <2>5. Tellable(st, ctx)
    BY <1>3, <1>5, <2>4 DEF Tellable, Informed
  <2>6. /\ OnCourse(new) /\ Written(new) /\ new.node = st.node
        /\ new.retries = st.retries /\ new.status = st.status /\ new.pending = st.pending
    BY <1>2, <2>3, <2>5, ToldOnCourse
  <2>7. new = [st EXCEPT !.ctx.gatePhase = "complete", !.ctx.phase = "review",
                         !.ctx.confirmed = "operator"]
    BY <1>2, <2>2, <2>3 DEF BudgetedStates, States, Contexts
  <2>8. Routes(r, new, "qualified")
    BY <1>1, <1>10, <2>1, <2>7 DEF IntakeConfirms
  <2>9. Reporting(new, "qualified")
    BY <1>2, <1>4, <1>5, <2>6 DEF Reporting
  <2> QED
    BY <1>2, <2>6, <2>8, <2>9, RoutesOnCourse DEF old
<1>11. CASE IntakeIsComplete(r)
  BY <1>1, <1>6, <1>11 DEF IntakeIsComplete, old
<1> QED
  BY <1>7, <1>8, <1>9, <1>10, <1>11

LEMMA WorkExecutes ==
    ASSUME SideBySide, NEW r \in Requests, Executes(r),
           TaskRuns(r) \/ QaJudges(r) \/ EndReports(r) \/ NodeRaises(r)
    PROVE  Returned(r, req[r].st) \/ Publishing(r, req[r].st)
<1> DEFINE old == req[r].st
<1>1. PICK st : st = Recorded(r)
  OBVIOUS
<1>2. /\ OnCourse(st) /\ Written(st) /\ st.status = "running"
      /\ st.node = old.node /\ st.retries = old.retries /\ st.ctx = old.ctx
      /\ st.pending = old.pending /\ st \in BudgetedStates /\ st.ctx \in Contexts
      /\ st.node \in Nodes /\ st.node \notin Ends
      /\ st.pending => st.node \in {"pgc_gate", "pgc"}
  BY <1>1, RecordedOnCourse
<1>3. Informed(st) /\ Waiting(st) /\ Parts(st.node) /\ Typed(st.node) /\ Authored(st.node)
  BY <1>2, NodeFacts DEF OnCourse
<1>4. "pgc_gate" \in Gates /\ "pgc" \in Gates
  BY DEF Gates
<1> HIDE DEF old
<1>5. ASSUME NEW outcome \in {"success", "failed", "pass", "fail"}, NEW new, OnCourse(new),
             Written(new), new.status = st.status, new.node = st.node,
             new.retries = st.retries, new.pending = st.pending, st.node \notin Gates,
             Routes(r, new, outcome)
      PROVE  Returned(r, old) \/ Publishing(r, old)
  <2>1. Reporting(new, outcome)
    BY <1>2, <1>4, <1>5 DEF Reporting
  <2> QED
    BY <1>2, <1>5, <2>1, RoutesOnCourse
<1>6. CASE TaskRuns(r)
  <2>1. st.node \in Writers \cup Rewriters /\ st.node \notin Gates
    BY <1>2, <1>3, <1>6 DEF TaskRuns, Executing, Typed, Parts, old
  <2>2. PICK ctx : ctx = [st.ctx EXCEPT !.draft = st.ctx.answers]
    OBVIOUS
  <2>3. PICK new : new = [st EXCEPT !.ctx = ctx]
    OBVIOUS
  <2>4. CASE Routes(r, st, "failed")
    BY <1>2, <1>5, <2>1, <2>4 DEF old
  <2>5. CASE Routes(r, st, "success")
    BY <1>2, <1>5, <2>1, <2>5 DEF old
  <2>6. CASE st.node \in Producing /\ Routes(r, new, "success")
    <3>1. st.node \notin IntakeNodes
      BY <2>6, LibraryNames, LibraryPlans
    <3>2. st.ctx.answers # NoAnswers
      BY <1>3, <2>1, <3>1 DEF Informed
    <3>3. /\ ctx \in Contexts /\ ctx.draft = st.ctx.answers /\ ctx.phase = st.ctx.phase
          /\ ctx.confirmed = st.ctx.confirmed /\ ctx.answers = st.ctx.answers
          /\ ctx.questions = st.ctx.questions
      BY <1>2, <2>2 DEF Contexts
    <3>4. ~st.pending
      BY <1>2, <1>4, <2>1
    <3>5. Tellable(st, ctx)
      BY <1>3, <3>1, <3>2, <3>3, <3>4 DEF Tellable, Informed
    <3>6. /\ OnCourse(new) /\ Written(new) /\ new.node = st.node
          /\ new.retries = st.retries /\ new.status = st.status /\ new.pending = st.pending
      BY <1>2, <2>3, <3>5, ToldOnCourse
    <3> QED
      BY <1>5, <2>1, <2>6, <3>6 DEF old
  <2>7. new = [st EXCEPT !.ctx.draft = st.ctx.answers]
    BY <1>2, <2>2, <2>3 DEF BudgetedStates, States
  <2> QED
    BY <1>1, <1>6, <2>4, <2>5, <2>6, <2>7 DEF TaskRuns, old
<1>7. CASE QaJudges(r)
  <2>1. st.node \in Judges /\ st.node \notin Gates
    BY <1>2, <1>3, <1>7 DEF QaJudges, Executing, Typed, Parts, IsQaGate, old
  <2>2. PICK outcome \in {"success", "failed", "pass", "fail"} : Routes(r, st, outcome)
    BY <1>1, <1>7 DEF QaJudges
  <2> QED
    BY <1>2, <1>5, <2>1, <2>2 DEF old
<1>8. CASE EndReports(r)
  BY <1>2, <1>3, <1>8 DEF EndReports, Executing, Typed, old
<1>9. CASE NodeRaises(r)
  <2>1. OnCourse(old) /\ old.status = "running" /\ old \in BudgetedStates
    BY DEF Executes, OnCourse, old
  <2>2. old.pending => old.node = "pgc"
    <3>1. old.node # "pgc_gate" \/ ~old.pending
      <4> SUFFICES ASSUME old.node = "pgc_gate" PROVE ~old.pending
        OBVIOUS
      <4>1. old.ctx.answers # NoAnswers
        BY <1>2, <1>3, <1>9 DEF NodeRaises, MayRaise, HasMerge, Typed, Judges, old
      <4>2. "pgc_gate" \in DiscoveryNodes
        BY LibraryPlans
      <4> QED
        BY <2>1, <4>1, <4>2 DEF OnCourse, Waiting
    <3> QED
      BY <1>2, <3>1
  <2>3. PICK failed : failed = SetFailed(old)
    OBVIOUS
  <2>4. OnCourse(failed) /\ Onward(old, failed)
    BY <2>1, <2>2, <2>3, FailedOnCourse
  <2>5. PICK new : new = [failed EXCEPT !.offered = {}, !.gen = NoNode]
    OBVIOUS
  <2>6. row' = new /\ req' = [req EXCEPT ![r] = Idle]
    BY <1>9, <2>3, <2>5, LibraryNames DEF NodeRaises, Saved, old
  <2>7. OnCourse(new) /\ new.gen = NoNode /\ Onward(old, new)
    BY <2>4, <2>5, ForgottenOnCourse
  <2> QED
    BY <2>6, <2>7 DEF Returned, old
<1> QED
  BY <1>6, <1>7, <1>8, <1>9 DEF old

-----------------------------------------------------------------------------
\* The row stays, but for the interpretation the user edits.
StaysButForEdits == row' = row \/ (OnIntake /\ row' = [row EXCEPT !.ctx.edited = TRUE])

\* A step that keeps the course, and leaves a finished execution alone.
Proceeds ==
    /\ Coursing'
    /\ ~OnLegacy /\ row.status \in Finished => StaysButForEdits

LEMMA RowProceeds ==
    ASSUME OneRequest, Coursing, Inv', NEW r \in Requests, NEW q,
           req' = [req EXCEPT ![r] = q],
           NEW db, row' = db, OnCourse(db), db.gen = NoNode, Awaiting(db) => AtRest(db),
           Underway(q, db), ~OnLegacy /\ row.status \in Finished => StaysButForEdits
    PROVE  Proceeds
<1>1. \A s \in Requests : req'[s] = q
  BY DEF OneRequest, Coursing, Inv
<1> HIDE DEF OnCourse, Underway, Inv, Awaiting, AtRest
<1>2. OnCourse(row') /\ row'.gen = NoNode /\ (Awaiting(row') => AtRest(row'))
  OBVIOUS
<1>3. \A s \in Requests : Underway(req'[s], row')
  BY <1>1
<1> QED
  BY <1>2, <1>3 DEF Proceeds, Coursing

LEMMA AloneProceeds ==
    ASSUME OneRequest, Coursing, Inv', NEW r \in Requests, NEW q,
           req' = [req EXCEPT ![r] = q],
           NEW db, row' = db, OnCourse(db), db.gen = NoNode, Awaiting(db) => AtRest(db),
           Underway(q, db), ~OnLegacy /\ row.status \in Finished => row' = row
    PROVE  Proceeds
BY RowProceeds DEF StaysButForEdits

LEMMA ToGoBounded ==
    ASSUME SideBySide, NEW st, OnCourse(st)
    PROVE  /\ ToGo(st) \in 0 .. 7
           /\ st.status # "completed" => ToGo(st) > 0
<1>1. st \in BudgetedStates /\ st.node \in Nodes
  BY DEF OnCourse, BudgetedStates, States
<1>2. Refused(st) \in 0 .. 2
  BY <1>1, RefusedCount
<1>3. Parts(st.node)
  BY <1>1, NodeFacts
<1>4. st.status # "completed" => st.node \notin Ends
  BY DEF OnCourse
<1> QED
  BY <1>2, <1>3, <1>4 DEF ToGo, Parts

LEMMA IdleUnderway ==
    ASSUME NEW db
    PROVE  Underway(Idle, db)
BY DEF Underway, Idle

\* Where a request goes once execute_step has returned, the row being db.
LEMMA AfterStepUnderway ==
    ASSUME SideBySide, NEW q \in BudgetedRequests, NEW db, OnCourse(db),
           q.steps <= 7, q.op # "run" => q.steps = 0,
           ~AtRest(db) => q.steps + ToGo(db) <= 7,
           db.node \in IntakeNodes => q.op \notin {"events", "step", "input"}
    PROVE  Underway(AfterStep(q, db), db)
<1> DEFINE next == [q EXCEPT !.st = NewState, !.input = NoInput, !.answered = NoAnswers]
<1>1. PICK new : new = AfterStep(q, db)
  OBVIOUS
<1>2. /\ next.op = q.op /\ next.steps = q.steps
      /\ [next EXCEPT !.op = "run", !.pc = "check"].op = "run"
      /\ [next EXCEPT !.op = "run", !.pc = "check"].pc = "check"
      /\ [next EXCEPT !.op = "run", !.pc = "check"].steps = q.steps
      /\ [next EXCEPT !.pc = "load"].op = q.op
      /\ [next EXCEPT !.pc = "load"].pc = "load"
      /\ [next EXCEPT !.pc = "load"].steps = q.steps
  BY DEF BudgetedRequests, RequestStates
<1>3. \/ new.op = "run" /\ new.pc = "check" /\ new.steps = q.steps
      \/ /\ new.op = q.op /\ q.op = "events" /\ new.pc = "load" /\ new.steps = q.steps
         /\ q.op # "run"
      \/ new = Idle
  BY <1>1, <1>2 DEF AfterStep
<1>4. q.steps \in Nat /\ ToGo(db) \in 0 .. 7
  BY ToGoBounded DEF BudgetedRequests, RequestStates
<1>5. CASE new.op = "run" /\ new.pc = "check" /\ new.steps = q.steps
  BY <1>1, <1>4, <1>5 DEF Underway
<1>6. CASE /\ new.op = q.op /\ q.op = "events" /\ new.pc = "load" /\ new.steps = q.steps
           /\ q.op # "run"
  BY <1>1, <1>4, <1>6 DEF Underway
<1>7. CASE new = Idle
  BY <1>1, <1>7, IdleUnderway
<1> QED
  BY <1>3, <1>5, <1>6, <1>7

\* What a step of request r may rely on.
LEMMA Relying ==
    ASSUME Coursing, NEW r \in Requests
    PROVE  /\ OnCourse(row) /\ row \in BudgetedStates /\ row.gen = NoNode
           /\ row.offered = {} /\ row.node \in Nodes
           /\ Awaiting(row) => AtRest(row)
           /\ req[r] \in BudgetedRequests /\ Underway(req[r], row)
           /\ req \in [Requests -> BudgetedRequests]
<1>1. OnCourse(row) /\ row.gen = NoNode /\ (Awaiting(row) => AtRest(row))
  BY DEF Coursing
<1>2. row \in BudgetedStates /\ row.offered = {}
  BY <1>1 DEF OnCourse
<1>3. row.node \in Nodes
  BY <1>2 DEF BudgetedStates, States
<1>4. req \in [Requests -> BudgetedRequests] /\ Underway(req[r], row)
  BY DEF Coursing, Inv
<1> QED
  BY <1>1, <1>2, <1>3, <1>4

LEMMA ReturnProceeds ==
    ASSUME SideBySide, OneRequest, Coursing, Inv', NEW r \in Requests,
           req[r].pc = "exec", Returned(r, req[r].st)
    PROVE  Proceeds
<1> DEFINE old == req[r].st
           q == req[r]
<1>1. q \in BudgetedRequests /\ Underway(q, row) /\ row.node \in Nodes
  BY Relying
<1>2. /\ OnCourse(old) /\ row.status \notin Finished
      /\ old.node = row.node /\ old.retries = row.retries
      /\ q.steps <= 7 /\ (q.op # "run" => q.steps = 0)
      /\ q.steps = 0 \/ q.steps + ToGo(row) <= 8
      /\ row.node \in IntakeNodes => q.op \notin {"events", "step", "input"}
  BY <1>1 DEF Underway
<1>3. PICK new, p :
        /\ OnCourse(new) /\ new.gen = NoNode /\ Onward(old, new)
        /\ p \in {Idle, AfterStep(q, new)}
        /\ row' = new /\ req' = [req EXCEPT ![r] = p]
  BY DEF Returned
<1>4. ToGo(old) = ToGo(row) /\ ToGo(old) \in 0 .. 7 /\ ToGo(new) \in 0 .. 7 /\ q.steps \in Nat
  BY <1>1, <1>2, <1>3, ToGoBounded DEF ToGo, Refused, BudgetedRequests, RequestStates
<1>5. Awaiting(new) => AtRest(new)
  BY <1>3 DEF Onward
<1>6. ~AtRest(new) => q.steps + ToGo(new) <= 7
  BY <1>2, <1>3, <1>4 DEF Onward
<1>7. new.node \in IntakeNodes => row.node \in IntakeNodes
  <2>1. new.node \in Nodes /\ Author(new.node) = Author(row.node)
    BY <1>2, <1>3 DEF OnCourse, BudgetedStates, States, Onward
  <2> QED
    BY <1>1, <2>1, NodeFacts DEF Authored
<1> HIDE DEF q, old
<1>8. Underway(p, new)
  <2>1. Underway(AfterStep(q, new), new)
    BY <1>1, <1>2, <1>3, <1>6, <1>7, AfterStepUnderway
  <2> QED
    BY <1>3, <2>1, IdleUnderway
<1> QED
  BY <1>2, <1>3, <1>5, <1>8, AloneProceeds

LEMMA PublishingProceeds ==
    ASSUME SideBySide, OneRequest, Coursing, Inv', NEW r \in Requests,
           req[r].pc = "exec", Publishing(r, req[r].st)
    PROVE  Proceeds
<1> DEFINE old == req[r].st
<1>1. /\ req[r] \in BudgetedRequests /\ Underway(req[r], row)
      /\ OnCourse(row) /\ row.gen = NoNode /\ (Awaiting(row) => AtRest(row))
      /\ req \in [Requests -> BudgetedRequests]
  BY Relying
<1>2. PICK new :
        /\ OnCourse(new) /\ new.node \in Ends /\ Author(new.node) = Author(old.node)
        /\ row' = row
        /\ req' = [req EXCEPT ![r].pc = "save", ![r].st = new, ![r].answered = NoAnswers]
  BY DEF Publishing
<1>3. PICK p : p = [req[r] EXCEPT !.pc = "save", !.st = new, !.answered = NoAnswers]
  OBVIOUS
<1>4. req' = [req EXCEPT ![r] = p]
  BY <1>1, <1>2, <1>3
<1>5. p.pc = "save" /\ p.st = new /\ p.op = req[r].op /\ p.steps = req[r].steps
      /\ p.input = req[r].input
  BY <1>1, <1>3 DEF BudgetedRequests, RequestStates
<1>6. row.status \notin Finished /\ old.node = row.node
  BY <1>1 DEF Underway
<1>7. Underway(p, row)
  BY <1>1, <1>2, <1>5, <1>6 DEF Underway
<1> QED
  BY <1>1, <1>2, <1>4, <1>7, AloneProceeds

LEMMA ExecutorProceeds ==
    ASSUME SideBySide, OneRequest, Coursing, Inv', NEW r \in Requests, Executor(r)
    PROVE  Proceeds
<1>1. req[r].pc = "exec"
  BY DEF Executor, PgcGateAsks, PgcGateWaits, PgcGateMerges, PgcNodeAsks, IntakeAsks,
         IntakeClassifies, IntakeRejects, IntakeConfirms, IntakeIsComplete, TaskRuns,
         QaJudges, EndReports, NodeRaises, Executing, At
<1>2. Executes(r)
  BY <1>1, Relying DEF Underway, Executes, Spoken
<1>3. Returned(r, req[r].st) \/ Publishing(r, req[r].st)
  BY <1>2, GateExecutes, IntakeExecutes, WorkExecutes DEF Executor
<1> QED
  BY <1>1, <1>3, ReturnProceeds, PublishingProceeds

LEMMA ArrivalProceeds ==
    ASSUME SideBySide, OneRequest, OperatorDriven, Coursing, Inv', NEW r \in Requests,
           Arrival(r), AsDriven
    PROVE  Proceeds
<1>1. /\ req[r] \in BudgetedRequests /\ Underway(req[r], row)
      /\ OnCourse(row) /\ row.gen = NoNode /\ (Awaiting(row) => AtRest(row))
      /\ req \in [Requests -> BudgetedRequests] /\ row.node \in Nodes
  BY Relying
<1>2. ToGo(row) \in 0 .. 7
  BY <1>1, ToGoBounded
<1>3. ASSUME NEW q, Arrives(r, q), q.op # "none", UNCHANGED row,
             q.op \in {"message", "run", "edit", "cancel", "escalate"} => Underway(q, row),
             row.node \notin IntakeNodes => Underway(q, row)
      PROVE  Proceeds
  <2>1. req[r].op = "none" /\ req'[r] = q /\ req' = [req EXCEPT ![r] = q]
    BY <1>1, <1>3 DEF Arrives, Underway
  <2>2. \/ OnDiscovery
        \/ OnIntake /\ q.op \in IntakeOps
        \/ OnLegacy
    BY <1>3, <2>1 DEF AsDriven
  <2>3. row.node \in IntakeNodes => q.op \in {"message", "run", "edit", "cancel", "escalate"}
    BY <2>2, LibraryPlans DEF OnDiscovery, OnIntake, OnLegacy, OperatorDriven
  <2>4. Underway(q, row)
    BY <1>3, <2>3
  <2> QED
    BY <1>1, <1>3, <2>1, <2>4, AloneProceeds
<1>4. CASE BeginWork(r)
  <2>1. PICK op \in {"step", "run", "events"} :
           Arrives(r, [Idle EXCEPT !.op = op, !.pc = IF op = "run" THEN "check" ELSE "load"])
    BY <1>4 DEF BeginWork
  <2>2. PICK q : q = [Idle EXCEPT !.op = op, !.pc = IF op = "run" THEN "check" ELSE "load"]
    OBVIOUS
  <2>3. /\ q.op = op /\ q.pc = (IF op = "run" THEN "check" ELSE "load") /\ q.steps = 0
    BY <2>2 DEF Idle
  <2>4. Arrives(r, q) /\ UNCHANGED row
    BY <1>4, <2>1, <2>2 DEF BeginWork
  <2>5. row.node \notin IntakeNodes => Underway(q, row)
    BY <1>2, <2>1, <2>3 DEF Underway
  <2>6. op = "run" => Underway(q, row)
    BY <1>2, <2>3 DEF Underway
  <2>7. q.op # "none" /\ (q.op \in {"message", "run", "edit", "cancel", "escalate"}
                            => Underway(q, row))
    BY <2>1, <2>3, <2>6
  <2> QED
    BY <1>3, <2>4, <2>5, <2>7
<1>5. CASE SubmitInput(r)
  <2>1. PICK op \in {"input", "message"}, i \in Inputs, a \in Inputs \cup {NoAnswers} :
           /\ op = "message" => i \in Answers
           /\ Arrives(r, [Idle EXCEPT !.op = op, !.pc = "load", !.input = i, !.answered = a])
    BY <1>5 DEF SubmitInput, Inputs
  <2>2. PICK q : q = [Idle EXCEPT !.op = op, !.pc = "load", !.input = i, !.answered = a]
    OBVIOUS
  <2>3. q.op = op /\ q.pc = "load" /\ q.steps = 0 /\ q.input = i
    BY <2>2 DEF Idle
  <2>4. Arrives(r, q) /\ UNCHANGED row
    BY <1>5, <2>1, <2>2 DEF SubmitInput
  <2>5. row.node \notin IntakeNodes \/ op = "message" => Underway(q, row)
    BY <1>2, <2>1, <2>3 DEF Underway
  <2>6. q.op # "none" /\ (q.op \in {"message", "run", "edit", "cancel", "escalate"}
                            => Underway(q, row))
    BY <2>1, <2>3, <2>5
  <2> QED
    BY <1>3, <2>4, <2>5, <2>6
<1>6. CASE BeginCommand(r)
  <2>1. PICK op \in Commands :
           /\ Admits(op, row)
           /\ Arrives(r, [Idle EXCEPT !.op = op, !.pc = "command", !.st = row])
    BY <1>6 DEF BeginCommand
  <2>2. PICK q : q = [Idle EXCEPT !.op = op, !.pc = "command", !.st = row]
    OBVIOUS
  <2>3. q.op = op /\ q.pc = "command" /\ q.steps = 0 /\ q.st = row
    BY <2>2 DEF Idle
  <2>4. Arrives(r, q) /\ UNCHANGED row
    BY <1>6, <2>1, <2>2 DEF BeginCommand
  <2>5. op \notin {"none", "run", "message"}
    BY <2>1 DEF Commands
  <2>6. /\ row.node \notin IntakeNodes => Underway(q, row)
        /\ q.op \in {"message", "run", "edit", "cancel", "escalate"} => Underway(q, row)
        /\ q.op # "none"
    BY <2>1, <2>3, <2>5 DEF Underway
  <2> QED
    BY <1>3, <2>4, <2>6
<1> QED
  BY <1>4, <1>5, <1>6 DEF Arrival

\* Marking the copy running, whatever the row was.
LEMMA MarkedOnCourse ==
    ASSUME SideBySide, OnCourse(row), row.status \notin Finished,
           NEW input \in Inputs,
           row.node \in IntakeNodes /\ AtRest(row) => input \in Answers,
           NEW st, st = [Resumed(row, input) EXCEPT !.status = "running"]
    PROVE  /\ OnCourse(st) /\ st.status = "running" /\ st.node = row.node
           /\ st.retries = row.retries /\ st.ctx = row.ctx
<1>1. row \in BudgetedStates /\ row.node \notin Ends
  BY DEF OnCourse, Finished
<1>2. PICK on : on = Resumed(row, input)
  OBVIOUS
<1>3. /\ on \in BudgetedStates /\ on.node = row.node /\ on.retries = row.retries
      /\ on.ctx = row.ctx /\ on.gen = row.gen /\ on.made = row.made /\ on.task = row.task
      /\ on.offered = row.offered
      /\ on.pending <=> (row.pending /\ input = NoInput)
  <2>1. CASE row.pending /\ input # NoInput
    <3>1. on = ClearPause(row)
      BY <1>2, <2>1 DEF Resumed
    <3>2. on \in BudgetedStates
      BY <1>1, <3>1, ClearPauseBudgeted
    <3> QED
      BY <1>1, <2>1, <3>1, <3>2 DEF ClearPause, BudgetedStates, States
  <2>2. CASE ~(row.pending /\ input # NoInput)
    <3>1. on = row
      BY <1>2, <2>2 DEF Resumed
    <3>2. row.pending <=> (row.pending /\ input = NoInput)
      BY <2>2
    <3> QED
      BY <1>1, <3>1, <3>2
  <2> QED
    BY <2>1, <2>2
<1>4. st = [on EXCEPT !.status = "running"]
  BY <1>2
<1>5. /\ st \in BudgetedStates /\ st.node = row.node /\ st.retries = row.retries
      /\ st.status = "running" /\ st.ctx = row.ctx /\ st.gen = row.gen
      /\ st.made = row.made /\ st.task = row.task /\ st.offered = row.offered
      /\ st.pending <=> (row.pending /\ input = NoInput)
  BY <1>3, <1>4 DEF BudgetedStates, States, Statuses
<1>6. st.pending => row.node \notin IntakeNodes
  <2> SUFFICES ASSUME st.pending, row.node \in IntakeNodes PROVE FALSE
    OBVIOUS
  <2>1. row.status = "paused"
    BY <1>5 DEF OnCourse, Waiting
  <2>2. input \in Answers /\ NoInput \notin Answers
    BY <2>1, ExecutorAssumption DEF AtRest
  <2> QED
    BY <1>5, <2>2
<1>7. Informed(st) /\ Waiting(st)
  BY <1>5, <1>6 DEF OnCourse, Informed, Waiting, Finished
<1> QED
  BY <1>1, <1>5, <1>7 DEF OnCourse

\* Loading the answers filed for a judge.
LEMMA FiledOnCourse ==
    ASSUME SideBySide, NEW st, OnCourse(st), NEW filed \in Seq(Answers),
           NEW new, new = WithFiledAnswers(st, filed)
    PROVE  /\ OnCourse(new) /\ new.status = st.status /\ new.node = st.node
           /\ new.retries = st.retries /\ (Awaiting(new) => Awaiting(st))
<1>1. st \in BudgetedStates /\ st.node \in Nodes /\ st.ctx \in Contexts
  BY DEF OnCourse, BudgetedStates, States
<1>2. CASE ~(IsQaGate(st.node) /\ st.ctx.clarified = NoAnswers /\ Len(filed) = 1)
  <2>1. new = st
    BY <1>2 DEF WithFiledAnswers
  <2> QED
    BY <2>1
<1>3. CASE IsQaGate(st.node) /\ st.ctx.clarified = NoAnswers /\ Len(filed) = 1
  <2>1. filed[1] \in Answers /\ filed[1] # NoAnswers
    <3>1. Len(filed) = 1
      BY <1>3
    <3>2. filed[1] \in Answers
      BY <3>1
    <3> QED
      BY <3>2, ExecutorAssumption
  <2>2. PICK ctx : ctx = [st.ctx EXCEPT !.questions = TRUE, !.answers = filed[1],
                                        !.clarified = filed[1]]
    OBVIOUS
  <2>3. /\ ctx \in Contexts /\ ctx.questions /\ ctx.answers = filed[1]
        /\ ctx.draft = st.ctx.draft /\ ctx.confirmed = st.ctx.confirmed
        /\ ctx.phase = st.ctx.phase
    BY <1>1, <2>1, <2>2 DEF Contexts
  <2>4. st.node \in Judges /\ st.node \notin Gates
    BY <1>1, <1>3, NodeFacts DEF Typed, Parts
  <2>5. ~st.pending
    BY <2>4 DEF OnCourse, Waiting
  <2>6. Tellable(st, ctx)
    BY <2>1, <2>3, <2>5 DEF OnCourse, Informed, Tellable
  <2>7. new = [st EXCEPT !.ctx = ctx]
    <3>1. new = [st EXCEPT !.ctx.questions = TRUE, !.ctx.answers = filed[1],
                           !.ctx.clarified = filed[1]]
      BY <1>3 DEF WithFiledAnswers
    <3> QED
      BY <1>1, <2>2, <3>1 DEF BudgetedStates, States, Contexts
  <2>8. Written(st)
    BY <2>4 DEF OnCourse, Written
  <2>9. /\ OnCourse(new) /\ new.status = st.status /\ new.node = st.node
        /\ new.retries = st.retries
    BY <2>6, <2>7, <2>8, ToldOnCourse
  <2>10. st.node # "intake_gate"
    BY <2>4 DEF Gates
  <2> QED
    BY <2>9, <2>10 DEF Awaiting
<1> QED
  BY <1>2, <1>3

\* The earlier plan's pgc node is left with the operator's answers.
LEMMA AnswerProceeds ==
    ASSUME SideBySide, OneRequest, Coursing, Inv', NEW r \in Requests, PgcNodeAnswered(r)
    PROVE  Proceeds
<1> DEFINE q == req[r]
<1>1. /\ q \in BudgetedRequests /\ Underway(q, row)
      /\ OnCourse(row) /\ row.gen = NoNode /\ row \in BudgetedStates
      /\ req \in [Requests -> BudgetedRequests] /\ row.node \in Nodes
  BY Relying
<1>2. /\ q.pc = "load" /\ row.status \notin Finished
      /\ Kind[row.node] = "pgc" /\ row.pending /\ q.input \in Answers
  BY DEF PgcNodeAnswered, At, AnswersPgcNode
<1>3. row.node = "pgc"
  BY <1>1, <1>2, NodeFacts DEF Typed
<1>4. q.input # NoAnswers
  BY <1>2, ExecutorAssumption
<1>5. PICK c \in {q.input, NoAnswers} :
         \E e \in Selected([ClearPause(row) EXCEPT !.ctx.answers = q.input,
                                                   !.ctx.clarified = c], "success") :
            /\ e.to # NoNode
            /\ row' = Saved([[ClearPause(row) EXCEPT !.ctx.answers = q.input,
                                                     !.ctx.clarified = c] EXCEPT !.node = e.to])
  BY DEF PgcNodeAnswered
<1>6. PICK ctx : ctx = [row.ctx EXCEPT !.answers = q.input, !.clarified = c]
  OBVIOUS
<1>7. PICK st : st = [ClearPause(row) EXCEPT !.ctx = ctx]
  OBVIOUS
<1>8. /\ ctx \in Contexts /\ ctx.answers = q.input /\ ctx.draft = row.ctx.draft
      /\ ctx.confirmed = row.ctx.confirmed /\ ctx.phase = row.ctx.phase
  <2>1. row.ctx \in Contexts
    BY <1>1 DEF BudgetedStates, States
  <2> QED
    BY <1>2, <1>6, <2>1 DEF Contexts
<1>9. ClearPause(row) \in BudgetedStates
  BY <1>1, ClearPauseBudgeted
<1>10. /\ ClearPause(row).ctx = row.ctx /\ ClearPause(row).node = row.node
       /\ ClearPause(row).status = "running" /\ ~ClearPause(row).pending
       /\ ClearPause(row).gen = row.gen /\ ClearPause(row).made = row.made
       /\ ClearPause(row).task = row.task /\ ClearPause(row).offered = row.offered
       /\ ClearPause(row).retries = row.retries
  BY <1>1 DEF ClearPause, BudgetedStates, States
<1>11. st = [ClearPause(row) EXCEPT !.ctx.answers = q.input, !.ctx.clarified = c]
  BY <1>6, <1>7, <1>9, <1>10 DEF BudgetedStates, States
<1>12. /\ st \in BudgetedStates /\ st.ctx = ctx /\ st.node = "pgc" /\ st.status = "running"
       /\ ~st.pending /\ st.gen = NoNode /\ st.made = row.made /\ st.task = row.task
       /\ st.offered = row.offered /\ st.retries = row.retries
  <2>1. st \in BudgetedStates
    BY <1>7, <1>8, <1>9, ContextBudgeted
  <2> QED
    BY <1>1, <1>3, <1>7, <1>9, <1>10, <2>1 DEF BudgetedStates, States
<1>13. PICK e \in Selected(st, "success") :
          e.to # NoNode /\ row' = Saved([st EXCEPT !.node = e.to])
  BY <1>5, <1>11
<1>14. /\ Leg(e) /\ e.from = "pgc" /\ e.outcome = "success" /\ e.to \in Nodes
  BY <1>12, <1>13, LegTaken
<1>15. "pgc" \in Gates /\ Parts("pgc") /\ "pgc" \in LegacyNodes
  BY <1>1, <1>3, NodeFacts, LibraryPlans DEF Gates
<1>16. e.to \in Writers /\ Author(e.to) = Author("pgc")
  BY <1>13, <1>14, <1>15 DEF Leg, Parts
<1>17. Parts(e.to) /\ Authored(e.to) /\ Authored("pgc")
  BY <1>1, <1>3, <1>14, NodeFacts
<1>18. PICK new : new = [st EXCEPT !.node = e.to]
  OBVIOUS
<1>19. /\ new \in BudgetedStates /\ new.ctx = ctx /\ new.node = e.to
       /\ new.status = "running" /\ ~new.pending /\ new.gen = NoNode
       /\ new.made = row.made /\ new.task = row.task /\ new.offered = row.offered
       /\ new.retries = row.retries
  BY <1>12, <1>14, <1>18 DEF BudgetedStates, States
<1>20. e.to \in LegacyNodes /\ e.to \notin IntakeNodes /\ e.to \notin DiscoveryNodes
  BY <1>15, <1>16, <1>17, LibraryPlans DEF Authored
<1>21. Informed(new) /\ Waiting(new)
  BY <1>1, <1>3, <1>4, <1>8, <1>15, <1>19, <1>20, LibraryPlans
     DEF OnCourse, Informed, Waiting
<1>22. OnCourse(new)
  BY <1>1, <1>3, <1>16, <1>17, <1>19, <1>21 DEF OnCourse, Parts
<1>23. row' = new
  BY <1>13, <1>18, <1>19, <1>1, LibraryNames DEF Saved, OnCourse, BudgetedStates, States
<1>24. PICK p : p = [q EXCEPT !.input = NoInput, !.answered = NoAnswers]
  OBVIOUS
<1>25. req' = [req EXCEPT ![r] = p]
  BY <1>1, <1>24 DEF PgcNodeAnswered
<1>26. p.op = q.op /\ p.pc = "load" /\ p.steps = q.steps /\ q.steps \in Nat
  BY <1>1, <1>2, <1>24 DEF BudgetedRequests, RequestStates
<1> HIDE DEF q
<1>27. ToGo(new) = 6 /\ ToGo(row) = 7
  BY <1>3, <1>15, <1>16, <1>17, <1>19 DEF ToGo, Parts
<1>28. Underway(p, new)
  BY <1>1, <1>2, <1>19, <1>20, <1>26, <1>27 DEF Underway
<1>29. ~Awaiting(new)
  BY <1>16, <1>19 DEF Awaiting, Writers
<1> QED
  BY <1>2, <1>19, <1>22, <1>23, <1>25, <1>28, <1>29, AloneProceeds

LEMMA SteppingProceeds ==
    ASSUME SideBySide, OneRequest, Coursing, Inv', NEW r \in Requests, Stepping(r)
    PROVE  Proceeds
<1> DEFINE q == req[r]
<1>1. /\ q \in BudgetedRequests /\ Underway(q, row)
      /\ OnCourse(row) /\ row.gen = NoNode /\ row \in BudgetedStates
      /\ Awaiting(row) => AtRest(row)
      /\ req \in [Requests -> BudgetedRequests] /\ row.node \in Nodes
  BY Relying
<1>2. q.steps \in Nat /\ q.steps <= 7 /\ (q.op # "run" => q.steps = 0)
  BY <1>1 DEF BudgetedRequests, RequestStates, Underway
<1>3. ToGo(row) \in 0 .. 7 /\ (row.status # "completed" => ToGo(row) > 0)
  BY <1>1, ToGoBounded
<1>4. ASSUME NEW p, req' = [req EXCEPT ![r] = p], row' = row, Underway(p, row)
      PROVE  Proceeds
  BY <1>1, <1>4, AloneProceeds
<1>5. CASE RunEnds(r)
  BY <1>4, <1>5, IdleUnderway DEF RunEnds
<1>6. CASE RunContinues(r)
  <2>1. q.pc = "check" /\ ~AtRest(row) /\ row.status \notin Finished /\ row' = row
    BY <1>6 DEF RunContinues, At, AtRest
  <2>2. PICK p : p = [q EXCEPT !.pc = "load", !.steps = @ + 1]
    OBVIOUS
  <2>3. req' = [req EXCEPT ![r] = p]
    BY <1>1, <1>6, <2>2 DEF RunContinues
  <2>4. p.pc = "load" /\ p.op = q.op /\ p.steps = q.steps + 1 /\ p.input = q.input
    BY <1>1, <2>2 DEF BudgetedRequests, RequestStates
  <2>5. q.op = "run" /\ q.steps + ToGo(row) <= 7
    BY <1>1, <2>1 DEF Underway
  <2>6. row.status # "completed"
    BY <2>1 DEF Finished
  <2> HIDE DEF q
  <2>7. p.steps <= 7 /\ p.steps + ToGo(row) <= 8
    BY <1>2, <1>3, <2>4, <2>5, <2>6
  <2>8. Underway(p, row)
    BY <1>2, <2>1, <2>4, <2>5, <2>7 DEF Underway
  <2> QED
    BY <1>4, <2>1, <2>3, <2>8
<1>7. CASE StepReturns(r)
  <2>1. q.pc = "load" /\ row.status \in Finished /\ row' = row
        /\ req' = [req EXCEPT ![r] = AfterStep(q, row)]
    BY <1>7 DEF StepReturns, At
  <2>2. AtRest(row)
    BY <2>1 DEF AtRest
  <2>3. row.node \in IntakeNodes => q.op \notin {"events", "step", "input"}
    BY <1>1 DEF Underway
  <2>4. Underway(AfterStep(q, row), row)
    BY <1>1, <1>2, <2>2, <2>3, AfterStepUnderway
  <2> QED
    BY <1>4, <2>1, <2>4
<1>8. CASE StepExecutes(r)
  <2>1. q.pc = "load" /\ row.status \notin Finished /\ row' = row
    BY <1>8 DEF StepExecutes, At
  <2>2. PICK on : on = [Resumed(row, q.input) EXCEPT !.status = "running"]
    OBVIOUS
  <2>3. PICK st : st = WithFiledAnswers(on, AnswersSeen(r))
    OBVIOUS
  <2>4. row.node \in IntakeNodes /\ AtRest(row) => q.input \in Answers
    BY <1>1, <2>1 DEF Underway
  <2>5. q.input \in Inputs
    BY <1>1 DEF BudgetedRequests, RequestStates
  <2>6. /\ OnCourse(on) /\ on.status = "running" /\ on.node = row.node
        /\ on.retries = row.retries /\ on.ctx = row.ctx
    BY <1>1, <2>1, <2>2, <2>4, <2>5, MarkedOnCourse
  <2>7. AnswersSeen(r) \in Seq(Answers)
    BY AnswersSeenTyped DEF Coursing
  <2>8. /\ OnCourse(st) /\ st.status = "running" /\ st.node = row.node
        /\ st.retries = row.retries /\ (Awaiting(st) => Awaiting(on))
    BY <2>3, <2>6, <2>7, FiledOnCourse
  <2>9. Awaiting(st) => q.input \in Answers
    <3>1. Awaiting(on) => Awaiting(row) /\ row.node \in IntakeNodes
      BY <2>6, LibraryPlans DEF Awaiting
    <3> QED
      BY <1>1, <2>4, <2>8, <3>1
  <2>10. PICK p : p = [q EXCEPT !.pc = "exec", !.st = st]
    OBVIOUS
  <2>11. req' = [req EXCEPT ![r] = p]
    BY <1>1, <1>8, <2>2, <2>3, <2>10 DEF StepExecutes
  <2>12. /\ p.pc = "exec" /\ p.st = st /\ p.op = q.op /\ p.steps = q.steps
         /\ p.input = q.input
    BY <1>1, <2>10 DEF BudgetedRequests, RequestStates
  <2> HIDE DEF q
  <2>13. Underway(p, row)
    BY <1>1, <2>1, <2>8, <2>9, <2>12 DEF Underway
  <2> QED
    BY <1>4, <2>1, <2>11, <2>13
<1>9. CASE PgcNodeAnswered(r)
  BY <1>9, AnswerProceeds
<1>10. CASE SavePublished(r)
  <2>1. /\ q.pc = "save" /\ row' = Saved(q.st)
        /\ req' = [req EXCEPT ![r].pc = "spawn"]
    BY <1>10 DEF SavePublished, At
  <2>2. /\ OnCourse(q.st) /\ q.st.node \in Ends /\ Author(q.st.node) = Author(row.node)
        /\ row.status \notin Finished
    BY <1>1, <2>1 DEF Underway
  <2>3. q.st.status = "completed"
    BY <2>2 DEF OnCourse
  <2>4. PICK new : new = [q.st EXCEPT !.offered = {}, !.gen = NoNode]
    OBVIOUS
  <2>5. Onward(q.st, q.st)
    BY <2>3 DEF Onward, AtRest, Finished
  <2>6. OnCourse(new) /\ new.gen = NoNode /\ SameBut(q.st, new)
    BY <2>2, <2>4, <2>5, ForgottenOnCourse
  <2>7. row' = new /\ Saved(q.st) = new
    BY <2>1, <2>4, LibraryNames DEF Saved
  <2>8. PICK p : p = [q EXCEPT !.pc = "spawn"]
    OBVIOUS
  <2>9. req' = [req EXCEPT ![r] = p]
    BY <1>1, <2>1, <2>8
  <2>10. p.pc = "spawn" /\ p.st = q.st /\ p.op = q.op /\ p.steps = q.steps /\ p.input = q.input
    BY <1>1, <2>8 DEF BudgetedRequests, RequestStates
  <2>11. new.status = "completed" /\ AtRest(new)
    BY <2>3, <2>6 DEF SameBut, AtRest, Finished
  <2>12. new.node \in IntakeNodes <=> row.node \in IntakeNodes
    <3>1. new.node \in Nodes /\ Author(new.node) = Author(row.node)
      BY <2>2, <2>6 DEF SameBut, OnCourse, BudgetedStates, States
    <3> QED
      BY <1>1, <3>1, NodeFacts DEF Authored
  <2> HIDE DEF q
  <2>13. Underway(p, new)
    BY <1>1, <1>2, <2>1, <2>7, <2>10, <2>11, <2>12 DEF Underway
  <2> QED
    BY <2>2, <2>6, <2>7, <2>9, <2>11, <2>13, AloneProceeds
<1>11. CASE SaveCompleted(r)
  <2>1. /\ q.pc = "spawn" /\ row' = Saved(q.st)
        /\ req' = [req EXCEPT ![r] = AfterStep(q, q.st)]
    BY <1>11 DEF SaveCompleted, Commit, At
  <2>2. Saved(q.st) = row /\ row.status = "completed"
    BY <1>1, <2>1 DEF Underway
  <2>3. Saved(q.st).status = q.st.status
    BY <1>1 DEF Saved, BudgetedRequests, BudgetedStates, States
  <2>4. AfterStep(q, q.st) = AfterStep(q, row)
    BY <2>2, <2>3 DEF AfterStep
  <2>5. AtRest(row)
    BY <2>2 DEF AtRest, Finished
  <2>6. row.node \in IntakeNodes => q.op \notin {"events", "step", "input"}
    BY <1>1 DEF Underway
  <2>7. Underway(AfterStep(q, row), row)
    BY <1>1, <1>2, <2>5, <2>6, AfterStepUnderway
  <2> QED
    BY <1>4, <2>1, <2>2, <2>4, <2>7
<1> QED
  BY <1>5, <1>6, <1>7, <1>8, <1>9, <1>10, <1>11 DEF Stepping

\* An operator's command leaves the execution where it is.
\* The user's edits steer nothing.
LEMMA EditedOnCourse ==
    ASSUME NEW st, OnCourse(st), NEW new, new = [st EXCEPT !.ctx.edited = TRUE]
    PROVE  /\ OnCourse(new) /\ new \in BudgetedStates
           /\ new.gen = st.gen /\ new.offered = {} /\ new.status = st.status
           /\ Awaiting(new) = Awaiting(st)
<1>1. st \in BudgetedStates /\ st.ctx \in Contexts
  BY DEF OnCourse, BudgetedStates, States
<1>2. PICK ctx : ctx = [st.ctx EXCEPT !.edited = TRUE]
  OBVIOUS
<1>3. new = [st EXCEPT !.ctx = ctx]
  BY <1>1, <1>2 DEF BudgetedStates, States
<1>4. /\ ctx \in Contexts /\ ctx.questions = st.ctx.questions
      /\ ctx.answers = st.ctx.answers /\ ctx.draft = st.ctx.draft
      /\ ctx.confirmed = st.ctx.confirmed /\ ctx.phase = st.ctx.phase
      /\ ctx.gatePhase = st.ctx.gatePhase
  BY <1>1, <1>2 DEF Contexts
<1>5. new \in BudgetedStates
  BY <1>1, <1>3, <1>4, ContextBudgeted
<1>6. /\ new.node = st.node /\ new.retries = st.retries /\ new.status = st.status
      /\ new.pending = st.pending /\ new.ctx = ctx /\ new.offered = st.offered
      /\ new.gen = st.gen /\ new.made = st.made /\ new.task = st.task
  BY <1>1, <1>3 DEF BudgetedStates, States
<1>7. Informed(new) /\ Waiting(new)
  BY <1>4, <1>6 DEF OnCourse, Informed, Waiting, Refused
<1>8. OnCourse(new)
  BY <1>5, <1>6, <1>7 DEF OnCourse
<1>9. st.offered = {}
  BY DEF OnCourse
<1> QED
  BY <1>4, <1>5, <1>6, <1>8, <1>9 DEF Awaiting

LEMMA CommandedOnCourse ==
    ASSUME SideBySide, NEW st, OnCourse(st), NEW new \in BudgetedStates,
           new.node = st.node, new.retries = st.retries, new.offered = {}, ~new.pending,
           new.status \in {"running", "completed"},
           new.status = "running" => st.node \in Gates,
           new.gen = st.gen, new.made = st.made, new.task = st.task,
           NEW ctx \in {st.ctx, new.ctx}, new.ctx = ctx,
           ctx = st.ctx \/ Tellable([st EXCEPT !.pending = FALSE], ctx)
    PROVE  OnCourse(new)
<1>1. st \in BudgetedStates /\ st.node \in Nodes
  BY DEF OnCourse, BudgetedStates, States
<1>2. /\ [st EXCEPT !.pending = FALSE].node = st.node
      /\ [st EXCEPT !.pending = FALSE].pending = FALSE
  BY <1>1 DEF BudgetedStates, States
<1>3. Informed(new)
  BY <1>2 DEF OnCourse, Informed, Tellable
<1>4. Waiting(new)
  BY DEF Waiting
<1>5. st.node \in Gates => st.node \notin Ends
  BY <1>1, NodeFacts DEF Parts
<1> QED
  BY <1>3, <1>4, <1>5 DEF OnCourse

LEMMA CommandProceeds ==
    ASSUME SideBySide, OneRequest, Coursing, Inv', NEW r \in Requests, Command(r)
    PROVE  Proceeds
<1>1. /\ req[r] \in BudgetedRequests /\ Underway(req[r], row)
      /\ OnCourse(row) /\ row.gen = NoNode /\ row \in BudgetedStates
      /\ row.offered = {}
      /\ Awaiting(row) => AtRest(row)
      /\ req \in [Requests -> BudgetedRequests] /\ row.node \in Nodes
  BY Relying
<1>2. req[r].pc = "command"
  BY DEF Command, Cancels, EditsField, Initializes, Resolves, Escalates,
         Commanded, At
<1>3. req[r].st = row /\ Admits(req[r].op, row)
  BY <1>1, <1>2 DEF Underway
<1>4. /\ row' \in BudgetedStates
      /\ row.ctx \in Contexts
  BY <1>1 DEF Inv, BudgetedStates, States
<1>5. ASSUME OnCourse(row'), row'.gen = NoNode, AtRest(row'), Answered(r),
             ~OnLegacy /\ row.status \in Finished => row' = row
      PROVE  Proceeds
  <2>1. PICK db : db = row'
    OBVIOUS
  <2> QED
    BY <1>5, <2>1, IdleUnderway, AloneProceeds DEF Answered
<1>6. row.pending => row.node \in Gates
      /\ (row.node \in DiscoveryNodes \cup IntakeNodes => row.status \notin Finished)
      /\ (row.node \in DiscoveryNodes => row.ctx.answers = NoAnswers /\ row.ctx.questions)
  BY <1>1 DEF OnCourse, Waiting, Finished
<1>7. ~OnLegacy => row.node \in DiscoveryNodes \cup IntakeNodes
  BY <1>1, LibraryNames DEF OnLegacy
<1>8. CASE Cancels(r)
  <2> DEFINE st   == ClearEscalation(row)
             open == IF st.pending THEN ClearPause(st) ELSE st
             done == SetCompleted(open, "cancelled")
  <2>1. row.status \in {"running", "paused"}
    BY <1>3, <1>8 DEF Cancels, Commanded, Admits
  <2>2. row' = Saved(RecordExecution(done, open.node)) /\ Answered(r)
    BY <1>3, <1>8 DEF Cancels
  <2>3. /\ st \in BudgetedStates /\ st.node = row.node /\ st.retries = row.retries
        /\ st.offered = {} /\ st.gen = row.gen /\ st.made = row.made /\ st.task = row.task
        /\ st.ctx = row.ctx
    BY <1>1, ClearEscalationBudgeted DEF ClearEscalation, BudgetedStates, States
  <2> HIDE DEF st
  <2>4. /\ ClearPause(st) \in BudgetedStates /\ ClearPause(st).node = row.node
        /\ ClearPause(st).retries = row.retries /\ ClearPause(st).offered = {}
        /\ ClearPause(st).gen = row.gen /\ ClearPause(st).made = row.made
        /\ ClearPause(st).task = row.task /\ ClearPause(st).ctx = row.ctx
        /\ ~ClearPause(st).pending
    BY <2>3, ClearPauseBudgeted DEF ClearPause, BudgetedStates, States
  <2>5. /\ open \in BudgetedStates /\ open.node = row.node /\ open.retries = row.retries
        /\ open.offered = {} /\ open.gen = row.gen /\ open.made = row.made
        /\ open.task = row.task /\ open.ctx = row.ctx /\ ~open.pending
    BY <2>3, <2>4
  <2> HIDE DEF open
  <2>6. done \in BudgetedStates
    BY <2>5, SetCompletedBudgeted DEF Outcomes
  <2>7. /\ done.node = row.node /\ done.retries = row.retries
        /\ done.offered = {} /\ done.gen = row.gen /\ done.made = row.made
        /\ done.task = row.task /\ done.ctx = row.ctx /\ ~done.pending
        /\ done.status = "completed"
    BY <2>5 DEF SetCompleted, BudgetedStates, States
  <2> HIDE DEF done
  <2>8. OnCourse(done)
    BY <1>1, <2>6, <2>7, CommandedOnCourse
  <2>9. PICK written : written = RecordExecution(done, done.node)
    OBVIOUS
  <2>10. OnCourse(written) /\ SameBut(done, written)
    BY <2>8, <2>9, HistoryOnCourse
  <2>11. AtRest(written) /\ Onward(written, written)
    BY <2>7, <2>10 DEF SameBut, AtRest, Finished, Onward
  <2>12. PICK new : new = [written EXCEPT !.offered = {}, !.gen = NoNode]
    OBVIOUS
  <2>13. OnCourse(new) /\ new.gen = NoNode /\ SameBut(written, new)
    BY <2>10, <2>11, <2>12, ForgottenOnCourse
  <2>14. row' = new
    BY <2>2, <2>5, <2>7, <2>9, <2>12, LibraryNames DEF Saved
  <2>15. AtRest(new)
    BY <2>11, <2>13 DEF SameBut, AtRest
  <2> QED
    BY <1>5, <2>1, <2>2, <2>13, <2>14, <2>15 DEF Finished
<1>9. CASE EditsField(r)
  <2>1. PICK new : new = [row EXCEPT !.ctx.edited = TRUE]
    OBVIOUS
  <2>2. row' = Saved(new) /\ Answered(r)
    BY <1>3, <1>9, <2>1 DEF EditsField
  <2>3. row.node \in IntakeNodes
    BY <1>1, <1>3, <1>9 DEF EditsField, Commanded, Admits, OnCourse, Informed
  <2>4. /\ OnCourse(new) /\ new.gen = NoNode /\ new.offered = {}
        /\ new \in BudgetedStates /\ new.status = row.status
        /\ Awaiting(new) = Awaiting(row)
    BY <1>1, <2>1, EditedOnCourse
  <2>5. row' = new
    BY <2>2, <2>4, LibraryNames DEF Saved, BudgetedStates, States
  <2>6. Awaiting(new) => AtRest(new)
    BY <1>1, <2>4 DEF AtRest
  <2>7. StaysButForEdits
    BY <2>1, <2>3, <2>5 DEF StaysButForEdits, OnIntake
  <2> QED
    BY <2>2, <2>4, <2>5, <2>6, <2>7, IdleUnderway, RowProceeds DEF Answered
<1>10. CASE Initializes(r)
  <2>1. row.ctx.phase = "review" /\ req[r].op = "initialize"
    BY <1>3, <1>10 DEF Initializes, Commanded, Admits
  <2>2. row.node \in IntakeNodes
    BY <1>1, <2>1 DEF OnCourse, Informed
  <2> QED
    BY <1>1, <2>1, <2>2 DEF Underway
<1>11. CASE Resolves(r)
  <2>1. row.pending /\ req[r].op = "resolve"
    BY <1>3, <1>11 DEF Resolves, Commanded, Admits
  <2>2. row.node \notin IntakeNodes
    BY <1>1, <2>1 DEF Underway
  <2>3. PICK a \in Answers \cup {row.ctx.answers} :
           row' = [row EXCEPT !.pending = FALSE, !.payload = @ /\ ~row.payload,
                              !.status = IF row.status = "running" THEN @ ELSE "running",
                              !.ctx = [row.ctx EXCEPT !.answers = a]]
    BY <1>3, <1>11 DEF Resolves
  <2>4. PICK ctx : ctx = [row.ctx EXCEPT !.answers = a]
    OBVIOUS
  <2>5. PICK new : new = row'
    OBVIOUS
  <2>6. /\ ctx \in Contexts /\ ctx.answers = a /\ ctx.draft = row.ctx.draft
        /\ ctx.confirmed = row.ctx.confirmed /\ ctx.phase = row.ctx.phase
        /\ ctx.questions = row.ctx.questions
    <3>1. a \in Answers \cup {NoAnswers}
      BY <1>4 DEF Contexts
    <3> QED
      BY <1>4, <2>4, <3>1 DEF Contexts
  <2>7. /\ new \in BudgetedStates /\ new.node = row.node /\ new.retries = row.retries
        /\ new.offered = {} /\ ~new.pending /\ new.status = "running"
        /\ new.gen = row.gen /\ new.made = row.made /\ new.task = row.task /\ new.ctx = ctx
    BY <1>1, <1>4, <2>3, <2>4, <2>5 DEF BudgetedStates, States
  <2>8. Tellable([row EXCEPT !.pending = FALSE], ctx)
    <3>1. /\ [row EXCEPT !.pending = FALSE].node = row.node
          /\ [row EXCEPT !.pending = FALSE].pending = FALSE
      BY <1>1 DEF BudgetedStates, States
    <3> QED
      BY <1>1, <1>6, <2>1, <2>2, <2>6, <3>1 DEF OnCourse, Informed, Tellable
  <2>9. OnCourse(new)
    BY <1>1, <1>6, <2>1, <2>7, <2>8, CommandedOnCourse
  <2>10. PICK p : p = [Idle EXCEPT !.op = "run", !.pc = "check"]
    OBVIOUS
  <2>11. p.op = "run" /\ p.pc = "check" /\ p.steps = 0
    BY <2>10 DEF Idle
  <2>12. req' = [req EXCEPT ![r] = p]
    BY <1>11, <2>10 DEF Resolves
  <2>13. ToGo(new) \in 0 .. 7
    BY <2>9, ToGoBounded
  <2>14. Underway(p, new)
    BY <2>11, <2>13 DEF Underway
  <2>15. ~Awaiting(new)
    BY <2>2, <2>7, LibraryPlans DEF Awaiting
  <2> QED
    BY <1>1, <1>6, <1>7, <2>1, <2>5, <2>7, <2>9, <2>12, <2>14, <2>15, AloneProceeds
<1>12. CASE Escalates(r)
  <2>1. row.pending /\ Answered(r)
    BY <1>3, <1>12 DEF Escalates, Commanded, Admits
  <2>2. PICK new : new = row'
    OBVIOUS
  <2>3. /\ new \in BudgetedStates /\ new.node = row.node /\ new.retries = row.retries
        /\ new.offered = {} /\ ~new.pending /\ new.status = "completed"
        /\ new.gen = row.gen /\ new.made = row.made /\ new.task = row.task
        /\ new.ctx = row.ctx
    BY <1>1, <1>4, <1>12, <2>2 DEF Escalates, SetCompleted, BudgetedStates, States
  <2>4. OnCourse(new)
    BY <1>1, <2>3, CommandedOnCourse
  <2>5. AtRest(new)
    BY <2>3 DEF AtRest, Finished
  <2> QED
    BY <1>1, <1>5, <1>6, <1>7, <2>1, <2>2, <2>3, <2>4, <2>5
<1> QED
  BY <1>8, <1>9, <1>10, <1>11, <1>12 DEF Command

\* An execution starts on course, whichever plan it follows.
LEMMA StartOnCourse ==
    ASSUME SideBySide, AnyPlan
    PROVE  Coursing
<1>1. PICK n \in Entries : row = [NewState EXCEPT !.node = n]
  BY DEF AnyPlan
<1>2. n \in Nodes /\ n \in Gates
  <2>1. Library.entries = {"pgc_gate", "intake_gate", "pgc"}
    BY DEF Library
  <2>2. n \in Gates
    BY <2>1 DEF SideBySide, Gates
  <2> QED
    BY <2>2, LibraryNames, LibraryPlans DEF Gates
<1>3. /\ row \in BudgetedStates /\ row.node = n /\ row.status = "pending"
      /\ row.offered = {} /\ row.gen = NoNode /\ row.made = NoNode /\ row.task = NoNode
      /\ ~row.pending
  BY <1>1, <1>2, NewStateBudgeted DEF NewState, BudgetedStates, States
<1>4. row.ctx = NewState.ctx
  BY <1>1, NewStateBudgeted DEF BudgetedStates, States
<1>5. /\ row.ctx.draft = NewState.ctx.draft /\ row.ctx.confirmed = NewState.ctx.confirmed
      /\ row.ctx.phase = NewState.ctx.phase /\ row.ctx.answers = NewState.ctx.answers
      /\ row.ctx.gatePhase = NewState.ctx.gatePhase
  BY <1>4
<1>6. Parts(n)
  BY <1>2, NodeFacts
<1>7. Informed(row)
  <2>1. /\ row.ctx.draft = NoDraft /\ row.ctx.confirmed = "no" /\ row.ctx.phase = "describe"
        /\ row.ctx.answers = NoAnswers
    BY <1>5 DEF NewState
  <2> QED
    BY <1>2, <1>3, <2>1 DEF Informed, NoDraft, NoAnswers
<1>8. Waiting(row)
  BY <1>3 DEF Waiting
<1>9. OnCourse(row)
  BY <1>2, <1>3, <1>6, <1>7, <1>8 DEF OnCourse, Parts
<1>10. ~Awaiting(row)
  BY <1>5 DEF Awaiting, NewState
<1>11. Inv
  BY <1>3, IdleBudgeted DEF AnyPlan, Inv
<1>12. \A r \in Requests : Underway(req[r], row)
  BY IdleUnderway DEF AnyPlan
<1> QED
  BY <1>3, <1>9, <1>10, <1>11, <1>12 DEF Coursing

\* Every step keeps the course.
LEMMA StepProceeds ==
    ASSUME SideBySide, OneRequest, OperatorDriven, Coursing, [Next]_vars, [AsDriven]_vars
    PROVE  Proceeds
<1>1. Inv'
  BY StepBudgeted DEF Coursing
<1>2. CASE UNCHANGED vars
  BY <1>1, <1>2 DEF vars, Proceeds, Coursing, StaysButForEdits
<1>3. ASSUME NEW r \in Requests, Disconnects(r) \/ Crash(r)
      PROVE  Proceeds
  <2>1. req' = [req EXCEPT ![r] = Idle] /\ row' = row
    BY <1>3 DEF Disconnects, Crash, Answered
  <2>2. OnCourse(row) /\ row.gen = NoNode /\ (Awaiting(row) => AtRest(row))
    BY Relying, <1>3
  <2> QED
    BY <1>1, <2>1, <2>2, IdleUnderway, AloneProceeds
<1>4. ASSUME NEW r \in Requests, Arrival(r), AsDriven
      PROVE  Proceeds
  BY <1>1, <1>4, ArrivalProceeds
<1>5. CASE Next /\ AsDriven
  BY <1>1, <1>3, <1>4, <1>5, SteppingProceeds, ExecutorProceeds, CommandProceeds DEF Next
<1> QED
  BY <1>2, <1>5

LEMMA CourseKept ==
    ASSUME SideBySide, OneRequest, OperatorDriven
    PROVE  PlansSpec /\ [][AsDriven]_vars => []Coursing
<1>1. AnyPlan => Coursing
  BY StartOnCourse
<1>2. Coursing /\ [Next]_vars /\ [AsDriven]_vars => Coursing'
  BY StepProceeds DEF Proceeds
<1> QED
  BY <1>1, <1>2, PTL DEF PlansSpec

\* IntakeConfirmedByOperator: whatever the operator sends to an intake, and
\* however often, no classification is confirmed by the default that stands in
\* for a missing reply (IntakeGateProfileExecutor._execute_confirmation_phase):
\* the gate is only entered again with the reply in hand.
THEOREM OperatorConfirmsIntake ==
    ASSUME SideBySide, OneRequest, OperatorDriven
    PROVE  PlansSpec /\ [][AsDriven]_vars => []IntakeConfirmedByOperator
<1>1. Coursing => IntakeConfirmedByOperator
  BY DEF Coursing, OnCourse, Informed, IntakeConfirmedByOperator, ConfirmedByOperator
<1> QED
  BY <1>1, CourseKept, PTL

\* DiscoveryDraftedFromAnswers: in the plans that ask before they write, the
\* writer runs on answers that are there, whether an interrupt brought them
\* (_execute_pgc_gate) or /input did (_handle_pgc_user_answers).
THEOREM AnswersPrecedeDraft ==
    ASSUME SideBySide, OneRequest, OperatorDriven
    PROVE  PlansSpec /\ [][AsDriven]_vars => []DiscoveryDraftedFromAnswers
<1>1. Coursing => DiscoveryDraftedFromAnswers
  BY DEF Coursing, OnCourse, Informed, DiscoveryDraftedFromAnswers, DraftedFromAnswers
<1> QED
  BY <1>1, CourseKept, PTL

\* DiscoveryPausedForAReason: a paused discovery has asked for an answer
\* (_handle_user_input_pause), or stands at its judge with the budget of its
\* writer spent (the non-advancing edge of _handle_result).
THEOREM DiscoveryPausesForAReason ==
    ASSUME SideBySide, OneRequest, OperatorDriven
    PROVE  PlansSpec /\ [][AsDriven]_vars => []DiscoveryPausedForAReason
<1>1. ASSUME Coursing PROVE DiscoveryPausedForAReason
  <2>1. OnCourse(row) /\ row.node \in Nodes /\ row \in BudgetedStates
    BY <1>1 DEF Coursing, OnCourse, BudgetedStates, States
  <2>2. SUFFICES ASSUME row.node = "qa_gate", Refused(row) = MaxRetries
                 PROVE  /\ IsQaGate(row.node)
                        /\ row.retries[GeneratingNode(row)] >= MaxRetries
    BY <2>1 DEF DiscoveryPausedForAReason, PausedForAReason, OnCourse, Waiting
  <2>3. IsQaGate(row.node) /\ Author(row.node) = "generation"
    BY <2>1, <2>2, NodeFacts, LibraryPlans DEF Typed, Judges, Author
  <2>4. row.task = "generation" /\ "generation" \in Producing /\ row.made = "generation"
    BY <2>1, <2>2, <2>3, LibraryNames DEF OnCourse, Judges
  <2>5. "generation" # NoNode
    BY LibraryNames, LibraryPlans, PartsInPlan
  <2>6. GeneratingNode(row) = "generation"
    BY <2>4, <2>5 DEF GeneratingNode
  <2>7. row.retries["generation"] = MaxRetries /\ MaxRetries = 2
    BY <2>2, <2>3, LibraryNames DEF Refused
  <2> QED
    BY <2>3, <2>6, <2>7
<1> QED
  BY <1>1, CourseKept, PTL

\* RunIsShort: a background run executes each node of its plan once, and the
\* judge and the rewriter once more for every retry: run_to_completion_or_pause
\* never reaches max_steps.
THEOREM EveryPlanRunsShort ==
    ASSUME SideBySide, OneRequest, OperatorDriven
    PROVE  PlansSpec /\ [][AsDriven]_vars => []RunIsShort
<1>1. ASSUME Coursing PROVE RunIsShort
  <2>1. MaxRetries = 2
    BY LibraryNames
  <2>2. \A r \in Requests : req[r].steps <= 7
    BY <1>1 DEF Coursing, Underway
  <2> QED
    BY <2>1, <2>2 DEF RunIsShort
<1> QED
  BY <1>1, CourseKept, PTL

\* FinishedStays: execute_step, submit_user_input, the interrupt routes and
\* cancel_execution each turn a finished execution away by a guard of their
\* own; an edit the review phase lets through changes the interpretation and
\* nothing a step reads.
THEOREM FinishedIsLeftAlone ==
    ASSUME SideBySide, OneRequest, OperatorDriven
    PROVE  PlansSpec /\ [][AsDriven]_vars => FinishedStays
<1>1. Coursing /\ [Next]_vars /\ [AsDriven]_vars
         => [~OnLegacy /\ row.status \in Finished =>
               row' = row \/ (OnIntake /\ row' = [row EXCEPT !.ctx.edited = TRUE])]_row
  BY StepProceeds DEF Proceeds, StaysButForEdits
<1> QED
  BY <1>1, CourseKept, PTL DEF PlansSpec, FinishedStays
=============================================================================
