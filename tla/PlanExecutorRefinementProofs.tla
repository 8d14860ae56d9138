-------------------- MODULE PlanExecutorRefinementProofs --------------------
(***************************************************************************)
(* Proofs about an execution of the discovery plan that one request at a    *)
(* time works on: what the row may hold at each node, and that every save   *)
(* is a step of GovernedProduction.                                         *)
(*                                                                          *)
(* A request awaits a node executor with a copy of the row.  With one       *)
(* request the row is still as it was when the copy comes back, so the      *)
(* invariant relates the two (Carries): node, counters and, unless /input   *)
(* was used, answers agree.  What the row and every copy may be is Walks:   *)
(* how far the plan has come decides what the context holds.                *)
(***************************************************************************)
EXTENDS PlanExecutorRefinement, PlanExecutorProofs

Rejected(st) == st.retries["generation"]

\* What holds of a row, or of a copy, for the node it stands at.
Walks(st) ==
    /\ st.gen \in {NoNode, "generation"} /\ st.made \in {NoNode, "generation"}
    /\ st.node \in {"qa_gate", "remediation"} => st.made = "generation"
    /\ st.node # "pgc_gate" => st.ctx.answers # NoAnswers
    /\ st.ctx.answers # NoAnswers => st.ctx.questions
    /\ st.ctx.draft # NoAnswers
    /\ st.ctx.phase # "review"
    /\ st.pending =>
          /\ st.node = "pgc_gate" /\ st.ctx.answers = NoAnswers /\ st.ctx.questions
          /\ st.status \notin Finished
    /\ st.status = "paused" =>
          \/ st.pending
          \/ st.node = "qa_gate" /\ Rejected(st) = MaxRetries
    /\ st.node \in EndNodes => st.status = "completed"
    /\ st.status # "completed" => st.terminal = NoOutcome
    /\ st.status = "completed" =>
          \/ st.terminal \in {"cancelled", "escalated"}
          \/ st.node \in EndNodes /\ st.terminal = EndOutcome[st.node]
    /\ st.offered = {}

\* What /input does not touch: it may replace the answers a draft was made of.
Judged(st) ==
    "input" \notin Ops /\ st.node \in {"qa_gate", "remediation", "end_stabilized"} =>
        st.ctx.draft = st.ctx.answers

Sound(st) == st \in BudgetedStates /\ Walks(st) /\ Judged(st)

\* Executions of nodes still to come before the run ends, at most.
Left(st) ==
    IF st.node = "pgc_gate" THEN 7
    ELSE IF st.node = "generation" THEN 6
    ELSE IF st.node = "qa_gate" THEN 5 - 2 * Rejected(st)
    ELSE IF st.node = "remediation" THEN 6 - 2 * Rejected(st)
    ELSE 0

\* A copy stands where the row does.
Follows(st, db) ==
    /\ Rejected(st) = Rejected(db)
    /\ "input" \notin Ops => st.ctx.answers = db.ctx.answers

Settled(st) == st.status \in Finished \cup {"paused"}

\* A request q, while the row is db.
Carries(q, db) ==
    /\ q.pc = "exec" =>
          /\ Sound(q.st) /\ q.st.status = "running" /\ db.status \notin Finished
          /\ q.st.node = db.node /\ Follows(q.st, db)
    /\ q.pc = "save" =>
          /\ Sound(q.st) /\ q.st.status = "completed" /\ q.st.terminal = "stabilized"
          /\ q.st.node = "end_stabilized"
          /\ db.status \notin Finished /\ db.node = "qa_gate" /\ Follows(q.st, db)
    /\ q.pc = "spawn" => Saved(q.st) = db /\ db.status = "completed"
    /\ q.pc = "command" => q.st = db /\ Admits(q.op, db)
    /\ q.steps <= 7
    /\ q.pc = "check" /\ ~Settled(db) => q.steps + Left(db) <= 7
    /\ q.pc \in {"load", "exec"} => q.steps = 0 \/ q.steps + Left(db) <= 8

\* Without a crash between publishing and saving, a document is published by
\* a request that is about to say so, or that has said so.
Published ==
    ~CrashAllowed =>
        /\ documents \in {0, 1}
        /\ documents = 1 =>
              row.terminal = "stabilized" \/ \E r \in Requests : req[r].pc = "save"

NoneFiled ==
    "input" \notin Ops =>
        answerRows = <<>> /\ \A r \in Requests : req[r].answered = NoAnswers

IInv ==
    /\ Inv
    /\ Sound(row)
    /\ \A r \in Requests : Carries(req[r], row)
    /\ Published
    /\ NoneFiled

-----------------------------------------------------------------------------
(***************************************************************************)
(* The plan                                                                 *)
(***************************************************************************)

LEMMA PlanNodes ==
    /\ Nodes = {"pgc_gate", "generation", "qa_gate", "remediation",
                "end_stabilized", "end_blocked"}
    /\ Kind["pgc_gate"] = "pgc_gate" /\ Kind["qa_gate"] = "qa_gate"
    /\ Kind["generation"] = "task" /\ Kind["remediation"] = "task"
    /\ Kind["end_stabilized"] = "end" /\ Kind["end_blocked"] = "end"
    /\ EndOutcome["end_stabilized"] = "stabilized"
    /\ EndOutcome["end_blocked"] = "blocked"
    /\ Producing = {"generation", "remediation"}
    /\ MaxRetries = 2
BY DiscoveryAssumption
   DEF DiscoveryNodes, DiscoveryKind, DiscoveryTasks, PlanEnds, BreakerLimit

LEMMA PlanEndNodes ==
    /\ EndNodes = {"end_stabilized", "end_blocked"}
    /\ \A n \in Nodes : IsQaGate(n) <=> n = "qa_gate"
BY PlanNodes DEF EndNodes, IsQaGate

\* Where the plan's edges lead, by the node and the outcome they leave.
PlanEdge(x) ==
    \/ x.from = "pgc_gate" /\ x.outcome = "qualified" /\ x.to = "generation"
    \/ x.from = "pgc_gate" /\ x.outcome = "needs_user_input"
    \/ /\ x.from \in {"generation", "remediation"}
       /\ \/ x.outcome = "success" /\ x.to = "qa_gate"
          \/ x.outcome = "failed" /\ x.to = "end_blocked"
    \/ x.from = "qa_gate" /\ x.outcome = "pass" /\ x.to = "end_stabilized"
    \/ /\ x.from = "qa_gate" /\ x.outcome = "fail" /\ x.to = "remediation"
       /\ retries("lt") \in x.conditions
    \/ /\ x.from = "qa_gate" /\ x.outcome = "fail" /\ x.to = NoNode
       /\ retries("gte") \in x.conditions /\ x.options # {}

LEMMA PlanEdges ==
    ASSUME NEW i \in DOMAIN Edges, NEW x, x = Edges[i]
    PROVE  PlanEdge(x)
<1>1. Edges = DiscoveryEdges /\ i \in 1 .. 9
  BY DiscoveryAssumption DEF DiscoveryEdges
<1>2. CASE i \in {1, 2, 3, 4, 5, 8, 9}
  <2>1. \/ x = edge("pgc_gate", "qualified", "generation")
        \/ x = edge("pgc_gate", "needs_user_input", Nowhere)
        \/ x = edge("generation", "success", "qa_gate")
        \/ x = edge("generation", "failed", "end_blocked")
        \/ x = edge("qa_gate", "pass", "end_stabilized")
        \/ x = edge("remediation", "success", "qa_gate")
        \/ x = edge("remediation", "failed", "end_blocked")
    BY <1>1, <1>2 DEF DiscoveryEdges
  <2> QED
    BY <2>1 DEF edge, PlanEdge
<1>3. CASE i = 6
  <2>1. x = [edge("qa_gate", "fail", "remediation") EXCEPT !.conditions = {retries("lt")}]
    BY <1>1, <1>3 DEF DiscoveryEdges
  <2> QED
    BY <2>1 DEF edge, PlanEdge
<1>4. CASE i = 7
  <2>1. x = [edge("qa_gate", "fail", Nowhere) EXCEPT !.conditions = {retries("gte")},
                                                 !.options = {"retry", "abandon"}]
    BY <1>1, <1>4 DEF DiscoveryEdges
  <2> QED
    BY <2>1 DEF edge, Nowhere, NoNode, PlanEdge
<1> QED
  BY <1>1, <1>2, <1>3, <1>4

\* The same of an edge the router selects, its condition read off the counter.
LEMMA SelectedLeads ==
    ASSUME NEW st \in BudgetedStates, NEW outcome, NEW x \in Selected(st, outcome)
    PROVE  /\ st.node = "pgc_gate" =>
                 \/ outcome = "needs_user_input"
                 \/ outcome = "qualified" /\ x.to = "generation"
           /\ st.node \in {"generation", "remediation"} =>
                 \/ outcome = "success" /\ x.to = "qa_gate"
                 \/ outcome = "failed" /\ x.to = "end_blocked"
           /\ st.node = "qa_gate" /\ outcome = "pass" => x.to = "end_stabilized"
           /\ st.node = "qa_gate" /\ outcome = "fail" /\ st.gen = "generation" =>
                 \/ x.to = "remediation" /\ Rejected(st) < 2
                 \/ x.to = NoNode /\ x.options # {} /\ Rejected(st) = 2
<1>1. PICK i \in DOMAIN Edges :
         /\ x = Edges[i] /\ x.from = st.node /\ x.outcome = outcome
         /\ \A c \in x.conditions : Holds(c, st)
  BY SelectedEdge
<1>2. Rejected(st) \in Nat /\ Rejected(st) <= 2
  BY PlanNodes DEF Rejected, BudgetedStates, States
<1>3. ASSUME st.gen = "generation", retries("lt") \in x.conditions
      PROVE  Rejected(st) < 2
  <2>1. Holds(retries("lt"), st)
    BY <1>1, <1>3
  <2> QED
    BY <1>3, <2>1 DEF Holds, Compare, RetryKey, retries, BreakerLimit, Rejected, NoNode
<1>4. ASSUME st.gen = "generation", retries("gte") \in x.conditions
      PROVE  Rejected(st) = 2
  <2>1. Holds(retries("gte"), st)
    BY <1>1, <1>4
  <2>2. Rejected(st) >= 2
    BY <1>4, <2>1 DEF Holds, Compare, RetryKey, retries, BreakerLimit, Rejected, NoNode
  <2> QED
    BY <1>2, <2>2
<1>5. PlanEdge(x)
  BY <1>1, PlanEdges
<1>6. x.from = st.node /\ x.outcome = outcome
  BY <1>1
<1>7. ASSUME st.node = "qa_gate", outcome = "fail", st.gen = "generation"
      PROVE  \/ x.to = "remediation" /\ Rejected(st) < 2
             \/ x.to = NoNode /\ x.options # {} /\ Rejected(st) = 2
  BY <1>3, <1>4, <1>5, <1>6, <1>7 DEF PlanEdge
<1> QED
  BY <1>5, <1>6, <1>7 DEF PlanEdge

-----------------------------------------------------------------------------
(***************************************************************************)
(* What executing a node makes of a copy                                    *)
(***************************************************************************)

\* The steps of the plan, from the copy that was executed to the row saved.
Moves(old, new) ==
    /\ new.ctx.answers = old.ctx.answers
    /\ \/ /\ new.node = old.node /\ Rejected(new) = Rejected(old)
          /\ \/ new.status = "failed"
             \/ new.status = "paused" /\ new.node = "pgc_gate"
             \/ new.status = "paused" /\ new.node = "qa_gate" /\ Rejected(old) = 2
       \/ /\ old.node = "pgc_gate" /\ new.node = "generation"
          /\ new.status = "running" /\ Rejected(new) = Rejected(old)
       \/ /\ old.node \in {"generation", "remediation"} /\ new.node = "qa_gate"
          /\ new.status = "running" /\ Rejected(new) = Rejected(old)
       \/ /\ old.node \in {"generation", "remediation"} /\ new.node = "end_blocked"
          /\ new.status = "completed" /\ new.terminal = "blocked"
          /\ Rejected(new) = Rejected(old)
       \/ /\ old.node = "qa_gate" /\ new.node = "remediation"
          /\ new.status = "running" /\ Rejected(new) = Rejected(old) + 1
          /\ Rejected(old) < 2
       \/ /\ old.node = "qa_gate" /\ new.node = "end_stabilized"
          /\ new.status = "completed" /\ new.terminal = "stabilized"
          /\ Rejected(new) = Rejected(old)

\* Request r saves such a step of the copy old.
Delivers(r, old) ==
    \E st \in BudgetedStates :
        /\ row' = Saved(st) /\ Sound(Saved(st)) /\ Moves(old, Saved(st))
        /\ req' = [req EXCEPT ![r] = AfterStep(@, st)] \/ req' = [req EXCEPT ![r] = Idle]
        /\ FileAnswers(r) /\ UNCHANGED documents

\* Or publishes its document first.
Publishes(r, old) ==
    \E st \in BudgetedStates :
        /\ old.node = "qa_gate" /\ st.node = "end_stabilized"
        /\ Sound(st) /\ Moves(old, st)
        /\ documents' = documents + 1 /\ FileAnswers(r)
        /\ req' = [req EXCEPT ![r].pc = "save", ![r].st = st, ![r].answered = NoAnswers]
        /\ UNCHANGED row

\* A save keeps what holds of a copy: the columns it loses are the copy's own.
LEMMA SavedSound ==
    ASSUME NEW st, Sound(st)
    PROVE  /\ Sound(Saved(st)) /\ Saved(Saved(st)) = Saved(st)
           /\ \A old : Moves(old, st) => Moves(old, Saved(st))
<1>1. st \in BudgetedStates /\ Saved(st) \in BudgetedStates
  BY SavedBudgeted DEF Sound
<1>2. Saved(st) = [st EXCEPT !.offered = {}, !.gen = NoNode]
  BY DiscoveryAssumption DEF Saved
<1>3. Saved(Saved(st)) = Saved(st)
  BY <1>1, <1>2, DiscoveryAssumption DEF Saved, BudgetedStates, States
<1>4. /\ \A f \in {"status", "node", "pending", "payload", "retries", "terminal",
                   "made", "task", "ctx"} : Saved(st)[f] = st[f]
      /\ Saved(st).offered = {} /\ Saved(st).gen = NoNode
  BY <1>1, <1>2 DEF BudgetedStates, States
<1>5. /\ Saved(st).status = st.status /\ Saved(st).node = st.node
      /\ Saved(st).pending = st.pending /\ Saved(st).retries = st.retries
      /\ Saved(st).terminal = st.terminal /\ Saved(st).made = st.made
      /\ Saved(st).ctx = st.ctx
      /\ Saved(st).offered = {} /\ Saved(st).gen = NoNode
  BY <1>4
<1>6. Sound(Saved(st))
  BY <1>1, <1>5 DEF Sound, Walks, Judged, Rejected
<1>7. \A old : Moves(old, st) => Moves(old, Saved(st))
  BY <1>5 DEF Moves, Rejected
<1> QED
  BY <1>3, <1>6, <1>7


\* Recording the execution names the task that writes the document.
LEMMA RecordedSound ==
    ASSUME NEW st, Sound(st), st.status = "running"
    PROVE  LET new == RecordExecution(st, st.node) IN
           /\ Sound(new) /\ new.ctx = st.ctx /\ new.node = st.node
           /\ new.retries = st.retries /\ new.status = "running"
           /\ new.pending = st.pending /\ new.ctx \in Contexts
           /\ new.node # "pgc_gate" => new.made = "generation"
<1> DEFINE new == RecordExecution(st, st.node)
<1>1. st \in BudgetedStates /\ st.node \in Nodes /\ st.ctx \in Contexts
  BY DEF Sound, BudgetedStates, States
<1>2. new \in BudgetedStates
  BY <1>1, RecordExecutionBudgeted
<1>3. /\ new.ctx = st.ctx /\ new.node = st.node /\ new.retries = st.retries
      /\ new.status = st.status /\ new.pending = st.pending /\ new.gen = st.gen
      /\ new.terminal = st.terminal /\ new.offered = st.offered
  BY <1>1 DEF RecordExecution, BudgetedStates, States
<1>4. new.made = IF st.node \in {"generation", "remediation"} /\ st.made = NoNode
                 THEN st.node ELSE st.made
  BY <1>1, PlanNodes DEF RecordExecution, BudgetedStates, States
<1>5. st.node \notin EndNodes
  BY DEF Sound, Walks
<1>6. st.node \in {"pgc_gate", "generation", "qa_gate", "remediation"}
  BY <1>1, <1>5, PlanNodes, PlanEndNodes
<1>7. new.node # "pgc_gate" => new.made = "generation"
  BY <1>3, <1>4, <1>6 DEF Sound, Walks, NoNode
<1>8. new.made \in {NoNode, "generation"}
  BY <1>4, <1>6 DEF Sound, Walks, NoNode
<1>9. Walks(new)
  BY <1>3, <1>7, <1>8, <1>6 DEF Sound, Walks, Rejected
<1>10. Judged(new)
  BY <1>3 DEF Sound, Judged
<1> QED
  BY <1>1, <1>2, <1>3, <1>7, <1>9, <1>10 DEF Sound

\* Failing, wherever no input is awaited.
LEMMA FailedSound ==
    ASSUME NEW st, Sound(st), st.status = "running", ~st.pending
    PROVE  Sound(SetFailed(st)) /\ Moves(st, SetFailed(st))
<1> DEFINE failed == [st EXCEPT !.status = "failed"]
           new == SetFailed(st)
           told == RecordExecution(st, st.node)
<1>1. Sound(told) /\ told.ctx = st.ctx /\ told.node = st.node /\ told.retries = st.retries
      /\ told.pending = st.pending
  BY RecordedSound
<1>2. st \in BudgetedStates /\ new \in BudgetedStates
  BY SetFailedBudgeted DEF Sound
<1>3. new = [told EXCEPT !.status = "failed"]
  BY <1>2 DEF SetFailed, RecordExecution, BudgetedStates, States
<1>4. told \in BudgetedStates
  BY <1>1 DEF Sound
<1> HIDE DEF new, told
<1>5. /\ new.ctx = told.ctx /\ new.node = told.node /\ new.retries = told.retries
      /\ new.status = "failed" /\ new.pending = told.pending /\ new.gen = told.gen
      /\ new.terminal = told.terminal /\ new.offered = told.offered /\ new.made = told.made
  BY <1>3, <1>4 DEF BudgetedStates, States
<1>6. st.terminal = NoOutcome /\ st.node \notin EndNodes /\ told.terminal = NoOutcome
  <2>1. told.status = "running"
    BY RecordedSound DEF told
  <2> QED
    BY <1>1, <2>1 DEF Sound, Walks
<1>7. Walks(new)
  BY <1>1, <1>5, <1>6 DEF Sound, Walks, Rejected
<1>8. Judged(new)
  BY <1>1, <1>5 DEF Sound, Judged
<1>9. Moves(st, new)
  BY <1>1, <1>5 DEF Moves, Rejected
<1> QED
  BY <1>2, <1>7, <1>8, <1>9 DEF Sound, new

-----------------------------------------------------------------------------
(***************************************************************************)
(* Routing an outcome of the plan                                           *)
(***************************************************************************)

\* Saving what an outcome makes of the copy.
LEMMA CommitDelivers ==
    ASSUME NEW r, NEW old, NEW st, Sound(st), Moves(old, st),
           Commit(r, st), UNCHANGED documents
    PROVE  Delivers(r, old)
BY SavedSound DEF Commit, Delivers, Sound

LEMMA FailureDelivers ==
    ASSUME NEW r, NEW st, Sound(st), st.status = "running", ~st.pending,
           NEW outcome, FindsNoEdge(r, st, outcome)
    PROVE  Delivers(r, st)
BY FailedSound, CommitDelivers DEF FindsNoEdge

\* Moving a running copy on to another node of the plan, or to an end.
LEMMA AdvancedSound ==
    ASSUME NEW st, Sound(st), st.status = "running", ~st.pending,
           st.ctx.answers # NoAnswers, NEW n,
           \/ st.node = "pgc_gate" /\ n = "generation"
           \/ /\ st.node \in {"generation", "remediation"} /\ n = "qa_gate"
              /\ st.ctx.draft = st.ctx.answers /\ st.made = "generation"
    PROVE  LET new == [st EXCEPT !.node = n] IN Sound(new) /\ Moves(st, new)
<1> DEFINE new == [st EXCEPT !.node = n]
<1>1. st \in BudgetedStates /\ n \in Nodes
  BY PlanNodes DEF Sound
<1>2. new \in BudgetedStates
  BY <1>1 DEF BudgetedStates, States
<1>3. /\ new.ctx = st.ctx /\ new.node = n /\ new.retries = st.retries
      /\ new.status = st.status /\ new.pending = st.pending /\ new.gen = st.gen
      /\ new.terminal = st.terminal /\ new.offered = st.offered /\ new.made = st.made
  BY <1>1 DEF BudgetedStates, States
<1> HIDE DEF new
<1>4. Walks(new) /\ Judged(new)
  BY <1>3, PlanEndNodes DEF Sound, Walks, Judged, Rejected
<1>5. Moves(st, new)
  BY <1>3 DEF Moves, Rejected
<1> QED
  BY <1>2, <1>4, <1>5 DEF Sound, new

LEMMA EndedSound ==
    ASSUME NEW st, Sound(st), st.status = "running", ~st.pending, NEW x,
           \/ /\ st.node \in {"generation", "remediation"}
              /\ x.to = "end_blocked"
           \/ /\ st.node = "qa_gate"
              /\ x.to = "end_stabilized"
    PROVE  Sound(Completed(st, x)) /\ Moves(st, Completed(st, x))
<1> DEFINE new == Completed(st, x)
<1>1. st \in BudgetedStates /\ x.to \in EndNodes
  BY PlanEndNodes DEF Sound
<1>2. new \in BudgetedStates
  BY <1>1, CompletedBudgeted
<1>3. /\ new.ctx = st.ctx /\ new.node = x.to /\ new.retries = st.retries
      /\ new.status = "completed" /\ new.pending = st.pending /\ new.gen = st.gen
      /\ new.terminal = EndOutcome[x.to] /\ new.offered = st.offered /\ new.made = st.made
  BY <1>1 DEF Completed, SetCompleted, BudgetedStates, States
<1> HIDE DEF new
<1>4. Walks(new) /\ Judged(new)
  BY <1>1, <1>3, PlanEndNodes DEF Sound, Walks, Judged, Rejected
<1>5. Moves(st, new)
  BY <1>3, PlanNodes DEF Moves, Rejected
<1> QED
  BY <1>2, <1>4, <1>5 DEF Sound, new

\* The rejection names the node whose counter the plan's edges read.
LEMMA TrackedSound ==
    ASSUME NEW st, Sound(st), NEW outcome,
           st.node # "pgc_gate" => st.made = "generation"
    PROVE  LET new == Tracked(st, outcome) IN
           /\ Sound(new) /\ new.ctx = st.ctx /\ new.node = st.node
           /\ new.retries = st.retries /\ new.status = st.status
           /\ new.pending = st.pending /\ new.made = st.made
           /\ st.node = "qa_gate" /\ outcome = "fail" => new.gen = "generation"
<1> DEFINE new == Tracked(st, outcome)
<1>1. st \in BudgetedStates /\ new \in BudgetedStates
  BY TrackedBudgeted DEF Sound
<1>2. /\ new.ctx = st.ctx /\ new.node = st.node /\ new.retries = st.retries
      /\ new.status = st.status /\ new.pending = st.pending /\ new.made = st.made
      /\ new.terminal = st.terminal /\ new.offered = st.offered
  BY <1>1 DEF Tracked, BudgetedStates, States
<1>3. /\ new.gen \in {st.gen, "generation"}
      /\ st.node = "qa_gate" /\ outcome = "fail" => new.gen = "generation"
  <2>1. CASE IsQaGate(st.node)
    <3>1. st.node = "qa_gate" /\ GeneratingNode(st) = "generation"
      BY <1>1, <2>1, PlanEndNodes, PlanNodes
         DEF GeneratingNode, NoNode, BudgetedStates, States
    <3>2. new = IF outcome \in Rejections THEN [st EXCEPT !.gen = "generation"] ELSE st
      BY <2>1, <3>1 DEF Tracked, NoNode
    <3>3. [st EXCEPT !.gen = "generation"].gen = "generation"
      BY <1>1 DEF BudgetedStates, States
    <3> HIDE DEF new
    <3> QED
      BY <3>2, <3>3 DEF Rejections
  <2>2. CASE ~IsQaGate(st.node)
    BY <1>1, <2>2, PlanEndNodes DEF Tracked, BudgetedStates, States
  <2> QED
    BY <2>1, <2>2
<1> HIDE DEF new
<1>4. Walks(new) /\ Judged(new)
  BY <1>2, <1>3 DEF Sound, Walks, Judged, Rejected
<1> QED
  BY <1>1, <1>2, <1>3, <1>4 DEF Sound, new

\* The breaker: the third rejection stops the copy where it is.
LEMMA StoppedSound ==
    ASSUME NEW st, Sound(st), st.status = "running", st.node = "qa_gate",
           Rejected(st) = 2, NEW options \in SUBSET Options
    PROVE  LET new == SetEscalation(st, options) IN
           new \in BudgetedStates /\ Sound(Saved(new)) /\ Moves(st, Saved(new))
<1> DEFINE new == SetEscalation(st, options)
           kept == Saved(new)
<1>1. st \in BudgetedStates /\ new \in BudgetedStates /\ kept \in BudgetedStates
  BY SetEscalationBudgeted, SavedBudgeted DEF Sound
<1>2. kept = [st EXCEPT !.status = "paused", !.offered = {}, !.gen = NoNode]
  BY <1>1, DiscoveryAssumption DEF Saved, SetEscalation, BudgetedStates, States
<1> HIDE DEF new
<1>3. /\ kept.ctx = st.ctx /\ kept.node = st.node /\ kept.retries = st.retries
      /\ kept.status = "paused" /\ kept.pending = st.pending /\ kept.gen = NoNode
      /\ kept.terminal = st.terminal /\ kept.offered = {} /\ kept.made = st.made
  BY <1>1, <1>2 DEF BudgetedStates, States
<1> HIDE DEF kept
<1>4. Walks(kept) /\ Judged(kept)
  BY <1>3, PlanNodes, PlanEndNodes DEF Sound, Walks, Judged, Rejected
<1>5. Moves(st, kept)
  BY <1>3 DEF Moves, Rejected
<1> QED
  BY <1>1, <1>4, <1>5 DEF Sound, new, kept

\* Sending back is the only step that counts.
LEMMA SentBackSound ==
    ASSUME NEW st, Sound(st), st.status = "running", st.node = "qa_gate",
           ~st.pending, Rejected(st) < 2
    PROVE  LET new == IncrementRetry([st EXCEPT !.node = "remediation"], "generation") IN
           Sound(new) /\ Moves(st, new)
<1> DEFINE gone == [st EXCEPT !.node = "remediation"]
           new  == IncrementRetry(gone, "generation")
<1>1. st \in BudgetedStates /\ gone \in BudgetedStates /\ gone.retries = st.retries
  BY PlanNodes DEF Sound, BudgetedStates, States
<1>2. st.retries \in [Nodes -> Nat] /\ "generation" \in Nodes
  BY <1>1, PlanNodes DEF BudgetedStates, States
<1>3. new \in BudgetedStates
  BY <1>1, <1>2, IncrementRetryBudgeted, PlanNodes DEF Rejected
<1>4. new = [st EXCEPT !.node = "remediation",
                       !.retries = [st.retries EXCEPT !["generation"] = @ + 1]]
  BY <1>1 DEF IncrementRetry, BudgetedStates, States
<1> HIDE DEF new
<1>5. /\ new.ctx = st.ctx /\ new.node = "remediation"
      /\ new.retries = [st.retries EXCEPT !["generation"] = @ + 1]
      /\ new.status = st.status /\ new.pending = st.pending /\ new.gen = st.gen
      /\ new.terminal = st.terminal /\ new.offered = st.offered /\ new.made = st.made
  BY <1>1, <1>4 DEF BudgetedStates, States
<1>6. Rejected(new) = Rejected(st) + 1
  BY <1>2, <1>5 DEF Rejected
<1>7. Walks(new) /\ Judged(new)
  BY <1>5, PlanEndNodes DEF Sound, Walks, Judged
<1>8. Moves(st, new)
  BY <1>5, <1>6 DEF Moves
<1> QED
  BY <1>3, <1>7, <1>8 DEF Sound, new

\* The steps depend on the copy's node, counters and answers only.
LEMMA SameMoves ==
    ASSUME NEW r, NEW old, NEW st, st.ctx = old.ctx, st.node = old.node,
           st.retries = old.retries
    PROVE  /\ Delivers(r, st) => Delivers(r, old)
           /\ Publishes(r, st) => Publishes(r, old)
<1>1. \A new : Moves(st, new) => Moves(old, new)
  BY DEF Moves, Rejected
<1> QED
  BY <1>1 DEF Delivers, Publishes

\* What a node may report, and the copy it reports it of.
Reports(st, outcome) ==
    /\ Sound(st) /\ st.status = "running" /\ ~st.pending
    /\ st.node # "pgc_gate" => st.made = "generation"
    /\ \/ /\ st.node = "pgc_gate" /\ outcome \in {"qualified", "failed"}
          /\ outcome = "qualified" => st.ctx.answers # NoAnswers
       \/ /\ st.node \in {"generation", "remediation"}
          /\ outcome \in {"success", "failed"}
          /\ outcome = "success" => st.ctx.draft = st.ctx.answers
       \/ st.node = "qa_gate" /\ outcome \in {"pass", "fail"}

LEMMA RoutesDeliver ==
    ASSUME NEW r, NEW st0, NEW outcome, Reports(st0, outcome), Routes(r, st0, outcome)
    PROVE  Delivers(r, st0) \/ Publishes(r, st0)
<1> DEFINE st == Tracked(st0, outcome)
<1>1. /\ Sound(st) /\ st.ctx = st0.ctx /\ st.node = st0.node
      /\ st.retries = st0.retries /\ st.status = "running" /\ ~st.pending
      /\ st.node # "pgc_gate" => st.made = "generation"
      /\ st.node = "qa_gate" /\ outcome = "fail" => st.gen = "generation"
      /\ Reports(st, outcome)
  BY TrackedSound DEF Reports
<1>2. FindsNoEdge(r, st, outcome) \/ \E x \in Selected(st, outcome) :
         \/ StaysPut(r, st, x) \/ Advances(r, st, x, outcome)
         \/ CompletesUnpublished(r, st, x) \/ CompletesPublishing(r, st, x)
  BY DEF Routes
<1> HIDE DEF st
<1>3. st \in BudgetedStates
  BY <1>1 DEF Sound
<1>4. SUFFICES Delivers(r, st) \/ Publishes(r, st)
  BY <1>1, SameMoves
<1>5. CASE FindsNoEdge(r, st, outcome)
  BY <1>1, <1>5, FailureDelivers
<1>6. ASSUME NEW x \in Selected(st, outcome)
      PROVE  \/ st.node = "pgc_gate" /\ outcome = "qualified" /\ x.to = "generation"
             \/ /\ st.node \in {"generation", "remediation"}
                /\ \/ outcome = "success" /\ x.to = "qa_gate"
                   \/ x.to = "end_blocked"
             \/ st.node = "qa_gate" /\ outcome = "pass" /\ x.to = "end_stabilized"
             \/ /\ st.node = "qa_gate" /\ outcome = "fail"
                /\ \/ x.to = "remediation" /\ Rejected(st) < 2
                   \/ x.to = NoNode /\ x.options # {} /\ Rejected(st) = 2
  BY <1>1, <1>3, <1>6, SelectedLeads DEF Reports
<1>7. ASSUME NEW x \in Selected(st, outcome), StaysPut(r, st, x)
      PROVE  Delivers(r, st)
  <2>1. st.node = "qa_gate" /\ Rejected(st) = 2 /\ x.options # {}
    BY <1>6, <1>7 DEF StaysPut, NoNode
  <2>2. x.options \in SUBSET Options
    BY <1>7, SelectedEdge, OptionsAssumption
  <2> DEFINE new == SetEscalation(st, x.options)
  <2>3. new \in BudgetedStates /\ Sound(Saved(new)) /\ Moves(st, Saved(new))
    BY <1>1, <2>1, <2>2, StoppedSound
  <2>4. Commit(r, new) /\ UNCHANGED documents
    BY <1>7, <2>1 DEF StaysPut
  <2> HIDE DEF new
  <2> QED
    BY <2>3, <2>4 DEF Delivers, Commit
<1>8. ASSUME NEW x \in Selected(st, outcome), Advances(r, st, x, outcome)
      PROVE  Delivers(r, st)
  <2>1. x.to # NoNode /\ x.to \notin {"end_stabilized", "end_blocked"}
    BY <1>8, PlanEndNodes DEF Advances
  <2>2. CASE st.node = "qa_gate"
    <3>1. outcome = "fail" /\ x.to = "remediation" /\ Rejected(st) < 2
      BY <1>6, <1>8, <2>1, <2>2
    <3> DEFINE new == IncrementRetry([st EXCEPT !.node = "remediation"], "generation")
    <3>2. Sound(new) /\ Moves(st, new)
      BY <1>1, <2>2, <3>1, SentBackSound
    <3>3. st.gen = "generation" /\ IsQaGate(st.node)
      BY <1>1, <1>3, <2>2, <3>1, PlanEndNodes DEF BudgetedStates, States
    <3>4. Commit(r, new) /\ UNCHANGED documents
      BY <1>8, <3>1, <3>3 DEF Advances, Rejections, NoNode
    <3> QED
      BY <3>2, <3>4, CommitDelivers
  <2>3. CASE st.node # "qa_gate"
    <3> DEFINE new == [st EXCEPT !.node = x.to]
    <3>1. ~IsQaGate(st.node)
      BY <1>3, <2>3, PlanEndNodes DEF BudgetedStates, States
    <3>2. Commit(r, new) /\ UNCHANGED documents
      BY <1>8, <3>1 DEF Advances
    <3>3. \/ st.node = "pgc_gate" /\ x.to = "generation" /\ outcome = "qualified"
          \/ /\ st.node \in {"generation", "remediation"} /\ x.to = "qa_gate"
             /\ outcome = "success"
      BY <1>6, <1>8, <2>1, <2>3
    <3>4. st.ctx.answers # NoAnswers
      BY <1>1, <3>3 DEF Reports, Sound, Walks
    <3>5. Sound(new) /\ Moves(st, new)
      BY <1>1, <3>3, <3>4, AdvancedSound DEF Reports
    <3> QED
      BY <3>2, <3>5, CommitDelivers
  <2> QED
    BY <2>2, <2>3
<1>9. ASSUME NEW x \in Selected(st, outcome), x.to \in EndNodes
      PROVE  /\ Sound(Completed(st, x)) /\ Moves(st, Completed(st, x))
             /\ EndOutcome[x.to] = "stabilized" =>
                   st.node = "qa_gate" /\ x.to = "end_stabilized"
  <2>1. \/ st.node \in {"generation", "remediation"} /\ x.to = "end_blocked"
        \/ st.node = "qa_gate" /\ x.to = "end_stabilized"
    BY <1>6, <1>9, PlanEndNodes DEF NoNode
  <2> QED
    BY <1>1, <2>1, EndedSound, PlanNodes
<1>10. ASSUME NEW x \in Selected(st, outcome), CompletesUnpublished(r, st, x)
       PROVE  Delivers(r, st)
  BY <1>9, <1>10, CommitDelivers DEF CompletesUnpublished
<1>11. ASSUME NEW x \in Selected(st, outcome), CompletesPublishing(r, st, x)
       PROVE  Publishes(r, st)
  <2> DEFINE new == Completed(st, x)
  <2>1. /\ st.node = "qa_gate" /\ x.to = "end_stabilized"
        /\ Sound(new) /\ Moves(st, new)
    BY <1>9, <1>11 DEF CompletesPublishing
  <2>2. new \in BudgetedStates /\ new.node = "end_stabilized"
    BY <1>3, <2>1 DEF Sound, Completed, SetCompleted, BudgetedStates, States
  <2>3. /\ documents' = documents + 1 /\ FileAnswers(r) /\ UNCHANGED row
        /\ req' = [req EXCEPT ![r].pc = "save", ![r].st = new, ![r].answered = NoAnswers]
    BY <1>11 DEF CompletesPublishing
  <2> HIDE DEF new
  <2> QED
    BY <2>1, <2>2, <2>3 DEF Publishes
<1> QED
  BY <1>2, <1>5, <1>7, <1>8, <1>10, <1>11

\* What a request awaiting a node executor does to the row, when the plan is
\* the discovery plan: only its own nodes' executors can answer.
LEMMA ExecutorDelivers ==
    ASSUME NEW r \in Requests, Carries(req[r], row), Executor(r)
    PROVE  Delivers(r, req[r].st) \/ Publishes(r, req[r].st)
<1> DEFINE old == req[r].st
           st  == Recorded(r)
<1>1. req[r].pc = "exec"
  BY DEF Executor, PgcGateAsks, PgcGateWaits, PgcGateMerges, PgcNodeAsks, IntakeAsks,
         IntakeClassifies, IntakeRejects, IntakeConfirms, IntakeIsComplete, TaskRuns,
         QaJudges, EndReports, NodeRaises, Executing, At
<1>2. Sound(old) /\ old.status = "running"
  BY <1>1 DEF Carries
<1>3. /\ Sound(st) /\ st.ctx = old.ctx /\ st.node = old.node
      /\ st.retries = old.retries /\ st.status = "running"
      /\ st.pending = old.pending /\ st.ctx \in Contexts
      /\ st.node # "pgc_gate" => st.made = "generation"
  BY <1>2, RecordedSound DEF Recorded
<1>4. old.node \in {"pgc_gate", "generation", "qa_gate", "remediation"}
  BY <1>2, PlanNodes, PlanEndNodes DEF Sound, Walks, BudgetedStates, States
<1>5. st.pending => st.node = "pgc_gate" /\ st.ctx.answers = NoAnswers
  BY <1>3 DEF Sound, Walks
<1> HIDE DEF st, old
<1>6. CASE PgcGateAsks(r)
  <2>1. st.node = "pgc_gate" /\ ~st.ctx.questions
    BY <1>3, <1>4, <1>6, PlanNodes DEF PgcGateAsks, Executing, old
  <2>2. st.ctx.answers = NoAnswers /\ ~st.pending
    BY <1>3, <2>1 DEF Sound, Walks
  <2>3. ASSUME Routes(r, st, "failed")
        PROVE  Delivers(r, st) \/ Publishes(r, st)
    BY <1>3, <2>1, <2>2, <2>3, RoutesDeliver DEF Reports
  <2>4. ASSUME Pauses(r, [st EXCEPT !.ctx.questions = TRUE], TRUE)
        PROVE  Delivers(r, st)
    <3> DEFINE asked == [st EXCEPT !.ctx.questions = TRUE]
               new   == SetPaused(asked, TRUE)
    <3>1. st \in BudgetedStates
      BY <1>3 DEF Sound
    <3>2. asked \in BudgetedStates
      BY <1>3, <3>1 DEF BudgetedStates, States, Contexts
    <3>3. new \in BudgetedStates
      BY <3>2, SetPausedBudgeted
    <3>4. /\ new.ctx.questions /\ new.ctx.answers = NoAnswers /\ new.node = "pgc_gate"
          /\ new.ctx.draft = st.ctx.draft /\ new.ctx.phase = st.ctx.phase
          /\ new.retries = st.retries /\ new.status = "paused" /\ new.pending
          /\ new.gen = st.gen /\ new.made = st.made
          /\ new.terminal = st.terminal /\ new.offered = st.offered
      <4>1. /\ asked.ctx = [st.ctx EXCEPT !.questions = TRUE] /\ asked.node = st.node
            /\ asked.retries = st.retries /\ asked.gen = st.gen /\ asked.made = st.made
            /\ asked.terminal = st.terminal /\ asked.offered = st.offered
        BY <3>1 DEF BudgetedStates, States
      <4> HIDE DEF asked
      <4>2. /\ new.ctx = asked.ctx /\ new.node = asked.node /\ new.retries = asked.retries
            /\ new.status = "paused" /\ new.pending /\ new.gen = asked.gen
            /\ new.made = asked.made /\ new.terminal = asked.terminal
            /\ new.offered = asked.offered
        BY <3>2 DEF SetPaused, BudgetedStates, States
      <4>3. /\ [st.ctx EXCEPT !.questions = TRUE].questions
            /\ [st.ctx EXCEPT !.questions = TRUE].answers = st.ctx.answers
            /\ [st.ctx EXCEPT !.questions = TRUE].draft = st.ctx.draft
            /\ [st.ctx EXCEPT !.questions = TRUE].phase = st.ctx.phase
        BY <1>3 DEF Contexts
      <4> QED
        BY <2>1, <2>2, <4>1, <4>2, <4>3
    <3> HIDE DEF new
    <3>5. Walks(new) /\ Judged(new)
      BY <1>3, <2>1, <3>4, PlanEndNodes DEF Sound, Walks, Judged, Finished
    <3>6. Moves(st, new)
      BY <2>1, <2>2, <3>4 DEF Moves, Rejected
    <3>7. Commit(r, new) /\ UNCHANGED documents
      BY <2>4 DEF Pauses, new
    <3> QED
      BY <3>3, <3>5, <3>6, <3>7, CommitDelivers DEF Sound
  <2> QED
    BY <1>3, <1>6, <2>3, <2>4, SameMoves DEF PgcGateAsks, st, old
<1>7. CASE PgcGateWaits(r)
  <2>1. st.node = "pgc_gate" /\ st.ctx.questions /\ st.ctx.answers = NoAnswers
    BY <1>3, <1>4, <1>7, PlanNodes DEF PgcGateWaits, Executing, HasMerge, old
  <2> DEFINE new == SetPaused(st, FALSE)
  <2>2. st \in BudgetedStates /\ new \in BudgetedStates
    BY <1>3, SetPausedBudgeted DEF Sound
  <2>3. /\ new.ctx = st.ctx /\ new.node = st.node /\ new.retries = st.retries
        /\ new.status = "paused" /\ new.pending /\ new.gen = st.gen
        /\ new.made = st.made /\ new.terminal = st.terminal /\ new.offered = st.offered
    BY <2>2 DEF SetPaused, BudgetedStates, States
  <2>4. Commit(r, new) /\ UNCHANGED documents
    BY <1>7 DEF PgcGateWaits, Pauses, st
  <2> HIDE DEF new
  <2>5. Walks(new) /\ Judged(new)
    BY <1>3, <2>1, <2>3, PlanEndNodes DEF Sound, Walks, Judged, Finished, Rejected
  <2>6. Moves(st, new)
    BY <2>1, <2>3 DEF Moves, Rejected
  <2>7. Delivers(r, st)
    BY <2>2, <2>4, <2>5, <2>6, CommitDelivers DEF Sound
  <2> QED
    BY <1>3, <2>7, SameMoves DEF old
<1>8. CASE PgcGateMerges(r)
  <2>1. st.node = "pgc_gate" /\ st.ctx.questions /\ st.ctx.answers # NoAnswers
    BY <1>3, <1>4, <1>8, PlanNodes DEF PgcGateMerges, Executing, HasMerge, old
  <2> DEFINE new == [st EXCEPT !.ctx.phase = "merge"]
  <2>2. st \in BudgetedStates
    BY <1>3 DEF Sound
  <2>3. new \in BudgetedStates
    BY <1>3, <2>2 DEF BudgetedStates, States, Contexts
  <2>4. /\ new.ctx = [st.ctx EXCEPT !.phase = "merge"] /\ new.node = st.node
        /\ new.retries = st.retries /\ new.status = st.status
        /\ new.pending = st.pending /\ new.gen = st.gen
        /\ new.made = st.made /\ new.terminal = st.terminal /\ new.offered = st.offered
    BY <2>2 DEF BudgetedStates, States
  <2>5. /\ new.ctx.questions = st.ctx.questions /\ new.ctx.answers = st.ctx.answers
        /\ new.ctx.draft = st.ctx.draft /\ new.ctx.phase = "merge"
    BY <1>3, <2>4 DEF Contexts
  <2>6. Routes(r, new, "qualified")
    BY <1>8 DEF PgcGateMerges, st
  <2> HIDE DEF new
  <2>7. Walks(new) /\ Judged(new)
    BY <1>3, <2>1, <2>4, <2>5, PlanEndNodes DEF Sound, Walks, Judged, Rejected
  <2>8. Reports(new, "qualified")
    BY <1>3, <1>5, <2>1, <2>3, <2>4, <2>5, <2>7 DEF Reports, Sound
  <2>9. Delivers(r, new) \/ Publishes(r, new)
    BY <2>6, <2>8, RoutesDeliver
  <2>10. \A x : Moves(new, x) => Moves(st, x)
    BY <2>4, <2>5 DEF Moves, Rejected
  <2>11. Delivers(r, st) \/ Publishes(r, st)
    BY <2>4, <2>9, <2>10 DEF Delivers, Publishes
  <2> QED
    BY <1>3, <2>11, SameMoves DEF old
<1>9. CASE TaskRuns(r)
  <2>1. st.node \in {"generation", "remediation"} /\ ~st.pending
    BY <1>3, <1>4, <1>5, <1>9, PlanNodes DEF TaskRuns, Executing, old
  <2> DEFINE new == [st EXCEPT !.ctx.draft = st.ctx.answers]
  <2>2. CASE Routes(r, st, "failed")
    <3>1. Delivers(r, st) \/ Publishes(r, st)
      BY <1>3, <2>1, <2>2, RoutesDeliver DEF Reports
    <3> QED
      BY <1>3, <3>1, SameMoves DEF old
  <2>3. CASE Routes(r, new, "success")
    <3>1. st \in BudgetedStates
      BY <1>3 DEF Sound
    <3>2. new \in BudgetedStates
      BY <1>3, <3>1 DEF BudgetedStates, States, Contexts
    <3>3. /\ new.ctx = [st.ctx EXCEPT !.draft = st.ctx.answers] /\ new.node = st.node
          /\ new.retries = st.retries /\ new.status = st.status
          /\ new.pending = st.pending /\ new.gen = st.gen
          /\ new.made = st.made /\ new.terminal = st.terminal /\ new.offered = st.offered
      BY <3>1 DEF BudgetedStates, States
    <3>4. /\ new.ctx.questions = st.ctx.questions /\ new.ctx.answers = st.ctx.answers
          /\ new.ctx.draft = st.ctx.answers /\ new.ctx.phase = st.ctx.phase
      BY <1>3, <3>3 DEF Contexts
    <3> HIDE DEF new
    <3>5. Walks(new) /\ Judged(new)
      BY <1>3, <2>1, <3>3, <3>4 DEF Sound, Walks, Judged, Rejected
    <3>6. Reports(new, "success")
      BY <1>3, <2>1, <3>2, <3>3, <3>4, <3>5 DEF Reports, Sound
    <3>7. Delivers(r, new) \/ Publishes(r, new)
      BY <2>3, <3>6, RoutesDeliver
    <3>8. \A x : Moves(new, x) => Moves(st, x)
      BY <3>3, <3>4 DEF Moves, Rejected
    <3>9. Delivers(r, st) \/ Publishes(r, st)
      BY <3>3, <3>7, <3>8 DEF Delivers, Publishes
    <3> QED
      BY <1>3, <3>9, SameMoves DEF old
  <2>4. st.node \in Producing
    BY <2>1, PlanNodes
  <2> QED
    BY <1>9, <2>2, <2>3, <2>4 DEF TaskRuns, st
<1>10. CASE QaJudges(r)
  <2>1. st.node = "qa_gate" /\ Kind[old.node] = "qa_gate" /\ ~st.pending
    BY <1>3, <1>4, <1>5, <1>10, PlanNodes DEF QaJudges, Executing, old
  <2>2. PICK outcome \in {"pass", "fail"} : Routes(r, st, outcome)
    BY <1>10, <2>1 DEF QaJudges, st, old
  <2>3. Reports(st, outcome)
    BY <1>3, <2>1 DEF Reports
  <2>4. Delivers(r, st) \/ Publishes(r, st)
    BY <2>2, <2>3, RoutesDeliver
  <2> QED
    BY <1>3, <2>4, SameMoves DEF old
<1>11. CASE NodeRaises(r)
  <2>1. ~old.pending
    BY <1>2, <1>3, <1>4, <1>5, <1>11, PlanNodes, PlanEndNodes
       DEF NodeRaises, MayRaise, HasMerge, old
  <2>2. Sound(SetFailed(old)) /\ Moves(old, SetFailed(old))
    BY <1>2, <2>1, FailedSound
  <2>3. Sound(Saved(SetFailed(old))) /\ Moves(old, Saved(SetFailed(old)))
    BY <2>2, SavedSound
  <2>4. /\ row' = Saved(SetFailed(old)) /\ FileAnswers(r) /\ UNCHANGED documents
        /\ req' = [req EXCEPT ![r] = Idle]
    BY <1>11 DEF NodeRaises, old
  <2>5. SetFailed(old) \in BudgetedStates
    BY <2>2 DEF Sound
  <2>6. Delivers(r, old)
    BY <2>3, <2>4, <2>5 DEF Delivers
  <2> QED
    BY <2>6 DEF old
<1>12. ~(PgcNodeAsks(r) \/ IntakeAsks(r) \/ IntakeClassifies(r) \/ IntakeRejects(r)
         \/ IntakeConfirms(r) \/ IntakeIsComplete(r) \/ EndReports(r))
  BY <1>4, PlanNodes
     DEF PgcNodeAsks, IntakeAsks, IntakeClassifies, IntakeRejects, IntakeConfirms,
         IntakeIsComplete, EndReports, Executing, old
<1> QED
  BY <1>6, <1>7, <1>8, <1>9, <1>10, <1>11, <1>12 DEF Executor

-----------------------------------------------------------------------------
(***************************************************************************)
(* The invariant                                                            *)
(***************************************************************************)

\* One request at a time: where r goes is where every request is.
LEMMA KeptBy ==
    ASSUME IInv, Inv', NEW r \in Requests, NEW q, req' = [req EXCEPT ![r] = q],
           Sound(row'), Carries(q, row'),
           ~CrashAllowed =>
              /\ documents' \in {0, 1}
              /\ documents' = 1 => row'.terminal = "stabilized" \/ q.pc = "save",
           "input" \notin Ops => answerRows' = <<>> /\ q.answered = NoAnswers
    PROVE  IInv'
<1>1. req'[r] = q /\ \A s \in Requests : req'[s] = q
  BY DiscoveryAssumption DEF IInv, Inv
<1> HIDE DEF Sound, Carries, Inv
<1> QED
  BY <1>1 DEF IInv, Published, NoneFiled

\* What a step of request r may rely on.
LEMMA Holding ==
    ASSUME IInv, NEW r \in Requests
    PROVE  /\ row \in BudgetedStates /\ req[r] \in BudgetedRequests
           /\ Sound(row) /\ Carries(req[r], row)
           /\ "input" \notin Ops => AnswersSeen(r) = <<>> /\ req[r].answered = NoAnswers
           /\ ~CrashAllowed =>
                 /\ documents \in {0, 1}
                 /\ documents = 1 => row.terminal = "stabilized" \/ req[r].pc = "save"
           /\ row.status \notin Finished => row.terminal = NoOutcome
<1>1. \A s \in Requests : s = r
  BY DiscoveryAssumption
<1> QED
  BY <1>1 DEF IInv, Inv, Published, NoneFiled, AnswersSeen, Sound, Walks, Finished

\* Moving on leaves less to do.
LEMMA LeftBounded ==
    ASSUME NEW st \in BudgetedStates, Walks(st)
    PROVE  /\ Rejected(st) \in 0 .. 2
           /\ Left(st) \in 0 .. 7
           /\ st.status \notin Finished => Left(st) > 0
<1>1. Rejected(st) \in 0 .. 2
  BY PlanNodes DEF Rejected, BudgetedStates, States
<1>2. st.node \in Nodes
  BY DEF BudgetedStates, States
<1>3. st.status \notin Finished => st.node \notin EndNodes
  BY DEF Walks, Finished
<1> QED
  BY <1>1, <1>2, <1>3, PlanNodes, PlanEndNodes DEF Left

LEMMA LeftFalls ==
    ASSUME NEW old \in BudgetedStates, Walks(old), NEW new \in BudgetedStates, Walks(new),
           Moves(old, new)
    PROVE  /\ Left(new) <= Left(old)
           /\ ~Settled(new) => Left(new) < Left(old)
<1>1. Rejected(old) \in 0 .. 2 /\ Rejected(new) \in 0 .. 2
  BY LeftBounded
<1>2. CASE new.node = old.node /\ Rejected(new) = Rejected(old) /\ Settled(new)
  <2>1. Left(new) = Left(old) /\ Left(old) \in 0 .. 7
    BY <1>2, LeftBounded DEF Left
  <2> QED
    BY <1>2, <2>1
<1>3. CASE old.node = "pgc_gate" /\ new.node = "generation"
  BY <1>3 DEF Left
<1>4. CASE /\ old.node = "generation" /\ new.node = "qa_gate"
           /\ Rejected(new) = Rejected(old)
  BY <1>1, <1>4 DEF Left
<1>5. CASE /\ old.node = "remediation" /\ new.node = "qa_gate"
           /\ Rejected(new) = Rejected(old)
  BY <1>1, <1>5 DEF Left
<1>6. CASE /\ old.node = "qa_gate" /\ new.node = "remediation"
           /\ Rejected(new) = Rejected(old) + 1
  BY <1>1, <1>6 DEF Left
<1>7. CASE new.node \in EndNodes
  <2>1. Left(new) = 0
    BY <1>7, PlanEndNodes DEF Left
  <2>2. Settled(new)
    BY <1>7 DEF Walks, Settled, Finished
  <2> QED
    BY <2>1, <2>2, LeftBounded
<1> QED
  BY <1>2, <1>3, <1>4, <1>5, <1>6, <1>7, PlanEndNodes DEF Moves, Settled, Finished

\* Where execute_step's return takes a request, once the row is st.
LEMMA AfterStepCarries ==
    ASSUME NEW q \in BudgetedRequests, NEW st, NEW db \in BudgetedStates, Walks(db),
           st.status = db.status, q.steps <= 7,
           ~Settled(db) => q.steps + Left(db) <= 7,
           q.steps = 0 \/ q.steps + Left(db) <= 8
    PROVE  Carries(AfterStep(q, st), db) /\ AfterStep(q, st).answered = NoAnswers
<1> DEFINE next == [q EXCEPT !.st = NewState, !.input = NoInput, !.answered = NoAnswers]
           new  == AfterStep(q, st)
<1>1. /\ next.steps = q.steps /\ next.answered = NoAnswers
      /\ [next EXCEPT !.op = "run", !.pc = "check"].steps = q.steps
      /\ [next EXCEPT !.op = "run", !.pc = "check"].answered = NoAnswers
      /\ [next EXCEPT !.op = "run", !.pc = "check"].pc = "check"
      /\ [next EXCEPT !.pc = "load"].steps = q.steps
      /\ [next EXCEPT !.pc = "load"].answered = NoAnswers
      /\ [next EXCEPT !.pc = "load"].pc = "load"
  BY DEF BudgetedRequests, RequestStates
<1>2. \/ new.pc = "check" /\ new.steps = q.steps /\ new.answered = NoAnswers
      \/ /\ new.pc = "load" /\ new.steps = q.steps /\ new.answered = NoAnswers
         /\ st.status \notin Finished
      \/ new = Idle
  BY <1>1 DEF AfterStep
<1>3. q.steps \in Nat /\ Left(db) \in 0 .. 7
  BY LeftBounded DEF BudgetedRequests, RequestStates
<1> HIDE DEF new
<1>4. CASE new.pc = "check" /\ new.steps = q.steps /\ new.answered = NoAnswers
  BY <1>4, <1>3 DEF Carries, new
<1>5. CASE /\ new.pc = "load" /\ new.steps = q.steps /\ new.answered = NoAnswers
           /\ st.status \notin Finished
  BY <1>5, <1>3 DEF Carries, new, Settled
<1>6. CASE new = Idle
  BY <1>6 DEF Carries, Idle, new
<1> QED
  BY <1>2, <1>4, <1>5, <1>6

LEMMA IdleCarries ==
    ASSUME NEW db
    PROVE  Carries(Idle, db) /\ Idle.answered = NoAnswers /\ Idle.pc = "idle"
BY DEF Carries, Idle

LEMMA DeliveryKeeps ==
    ASSUME IInv, Inv', NEW r \in Requests, req[r].pc = "exec", Delivers(r, req[r].st)
    PROVE  IInv'
<1> DEFINE old == req[r].st
           q   == req[r]
<1>1. /\ q \in BudgetedRequests /\ Carries(q, row) /\ Sound(old)
      /\ row.status \notin Finished /\ old.node = row.node
      /\ Rejected(old) = Rejected(row)
      /\ "input" \notin Ops => AnswersSeen(r) = <<>>
      /\ ~CrashAllowed => documents = 0
      /\ row.terminal = NoOutcome
  BY Holding DEF Carries, Follows, NoOutcome
<1>2. PICK st \in BudgetedStates :
         /\ row' = Saved(st) /\ Sound(Saved(st)) /\ Moves(old, Saved(st))
         /\ req' = [req EXCEPT ![r] = AfterStep(@, st)] \/ req' = [req EXCEPT ![r] = Idle]
         /\ FileAnswers(r) /\ UNCHANGED documents
  BY DEF Delivers
<1> DEFINE db == Saved(st)
<1>3. db.status = st.status
  BY DEF Saved, BudgetedStates, States
<1>4. Sound(db) /\ Moves(old, db) /\ row' = db
  BY <1>2
<1> HIDE DEF db, old
<1>5. Left(old) = Left(row) /\ Left(old) \in 0 .. 7 /\ Left(db) \in 0 .. 7
  BY <1>1, <1>4, LeftBounded DEF Left, Sound
<1>6. Left(db) <= Left(old) /\ (~Settled(db) => Left(db) < Left(old))
  BY <1>1, <1>4, LeftFalls DEF Sound
<1>7. q.steps \in Nat /\ q.steps <= 7 /\ (q.steps = 0 \/ q.steps + Left(row) <= 8)
  BY <1>1 DEF Carries, BudgetedRequests, RequestStates
<1>8. Carries(AfterStep(q, st), db) /\ AfterStep(q, st).answered = NoAnswers
  <2>1. ~Settled(db) => q.steps + Left(db) <= 7
    BY <1>5, <1>6, <1>7
  <2>2. q.steps = 0 \/ q.steps + Left(db) <= 8
    BY <1>5, <1>6, <1>7
  <2> QED
    BY <1>1, <1>3, <1>4, <1>7, <2>1, <2>2, AfterStepCarries DEF Sound
<1>9. PICK p : /\ req' = [req EXCEPT ![r] = p]
               /\ Carries(p, db) /\ p.answered = NoAnswers
  BY <1>2, <1>8, IdleCarries
<1>10. "input" \notin Ops => answerRows' = <<>> /\ p.answered = NoAnswers
  BY <1>1, <1>2, <1>9 DEF FileAnswers
<1>11. Sound(row') /\ Carries(p, row')
  BY <1>4, <1>9
<1>12. ~CrashAllowed =>
          documents' \in {0, 1} /\ (documents' = 1 => row'.terminal = "stabilized" \/ p.pc = "save")
  BY <1>1, <1>2
<1>13. req' = [req EXCEPT ![r] = p]
  BY <1>9
<1> HIDE DEF q
<1> QED
  BY <1>10, <1>11, <1>12, <1>13, KeptBy

LEMMA PublicationKeeps ==
    ASSUME IInv, Inv', NEW r \in Requests, req[r].pc = "exec", Publishes(r, req[r].st)
    PROVE  IInv'
<1> DEFINE old == req[r].st
<1>1. /\ req[r] \in BudgetedRequests /\ Sound(row)
      /\ row.status \notin Finished /\ old.node = row.node /\ Follows(old, row)
      /\ req[r].steps <= 7
      /\ "input" \notin Ops => AnswersSeen(r) = <<>>
      /\ ~CrashAllowed => documents = 0
  BY Holding DEF Carries, NoOutcome
<1>2. PICK st \in BudgetedStates :
         /\ old.node = "qa_gate" /\ st.node = "end_stabilized"
         /\ Sound(st) /\ Moves(old, st)
         /\ documents' = documents + 1 /\ FileAnswers(r)
         /\ req' = [req EXCEPT ![r].pc = "save", ![r].st = st, ![r].answered = NoAnswers]
         /\ UNCHANGED row
  BY DEF Publishes
<1> HIDE DEF old
<1> DEFINE p == [req[r] EXCEPT !.pc = "save", !.st = st, !.answered = NoAnswers]
<1>3. req' = [req EXCEPT ![r] = p]
  BY <1>2 DEF IInv, Inv
<1>4. p.pc = "save" /\ p.st = st /\ p.answered = NoAnswers /\ p.steps = req[r].steps
  BY <1>1 DEF BudgetedRequests, RequestStates
<1> HIDE DEF p
<1>5. st.status = "completed" /\ st.terminal = "stabilized"
  BY <1>2 DEF Moves
<1>6. Follows(st, row)
  BY <1>1, <1>2 DEF Moves, Follows
<1>7. Carries(p, row')
  BY <1>1, <1>2, <1>4, <1>5, <1>6 DEF Carries
<1>8. "input" \notin Ops => answerRows' = <<>>
  BY <1>1, <1>2 DEF FileAnswers
<1>9. Sound(row')
  BY <1>1, <1>2
<1>10. ~CrashAllowed => documents' = 1
  BY <1>1, <1>2
<1> QED
  BY <1>3, <1>4, <1>7, <1>8, <1>9, <1>10, KeptBy

LEMMA ArrivalKeeps ==
    ASSUME IInv, Inv', NEW r \in Requests, Arrival(r)
    PROVE  IInv'
<1>1. /\ Sound(row) /\ req[r].pc = "idle" /\ UNCHANGED <<row, documents, answerRows>>
      /\ "input" \notin Ops => answerRows = <<>>
      /\ ~CrashAllowed =>
            documents \in {0, 1} /\ (documents = 1 => row.terminal = "stabilized")
  BY Holding DEF Arrival, BeginWork, SubmitInput, BeginCommand, Arrives, IInv, NoneFiled
<1>2. Left(row) \in 0 .. 7
  BY <1>1, LeftBounded DEF Sound
<1>3. ASSUME NEW q, req' = [req EXCEPT ![r] = q], Carries(q, row),
             "input" \notin Ops => q.answered = NoAnswers
      PROVE  IInv'
  BY <1>1, <1>3, KeptBy
<1>4. CASE BeginWork(r)
  <2>1. PICK op \in Ops \cap {"step", "run", "events"} :
           req' = [req EXCEPT ![r] = [Idle EXCEPT !.op = op,
                                        !.pc = IF op = "run" THEN "check" ELSE "load"]]
    BY <1>4 DEF BeginWork, Arrives
  <2> DEFINE q == [Idle EXCEPT !.op = op, !.pc = IF op = "run" THEN "check" ELSE "load"]
  <2>2. q.pc \in {"check", "load"} /\ q.steps = 0 /\ q.answered = NoAnswers
    BY DEF Idle
  <2> HIDE DEF q
  <2>3. Carries(q, row)
    BY <1>2, <2>2 DEF Carries
  <2> QED
    BY <1>3, <2>1, <2>2, <2>3 DEF q
<1>5. CASE SubmitInput(r)
  <2>1. PICK op \in Ops \cap {"input", "message"} :
           \E i : LET files == op = "input" /\ row.payload /\ i \in Answers IN
                  req' = [req EXCEPT ![r] =
                            [Idle EXCEPT !.op = op, !.pc = "load", !.input = i,
                                         !.answered = IF files THEN i ELSE NoAnswers]]
    BY <1>5 DEF SubmitInput, Arrives
  <2>2. PICK i, a :
           /\ a # NoAnswers => "input" \in Ops
           /\ req' = [req EXCEPT ![r] = [Idle EXCEPT !.op = op, !.pc = "load", !.input = i,
                                                     !.answered = a]]
    BY <2>1
  <2> DEFINE q == [Idle EXCEPT !.op = op, !.pc = "load", !.input = i, !.answered = a]
  <2>3. q.pc = "load" /\ q.steps = 0 /\ q.answered = a
    BY DEF Idle
  <2> HIDE DEF q
  <2>4. Carries(q, row)
    BY <2>3 DEF Carries
  <2> QED
    BY <1>3, <2>2, <2>3, <2>4 DEF q
<1>6. CASE BeginCommand(r)
  <2>1. PICK op \in Ops \cap Commands :
           /\ Admits(op, row)
           /\ req' = [req EXCEPT ![r] =
                        [Idle EXCEPT !.op = op, !.pc = "command", !.st = row]]
    BY <1>6 DEF BeginCommand, Arrives
  <2> DEFINE q == [Idle EXCEPT !.op = op, !.pc = "command", !.st = row]
  <2>2. /\ q.op = op /\ q.pc = "command" /\ q.st = row /\ q.steps = 0
        /\ q.answered = NoAnswers
    BY DEF Idle
  <2> HIDE DEF q
  <2>3. Carries(q, row)
    BY <2>1, <2>2 DEF Carries
  <2> QED
    BY <1>3, <2>1, <2>2, <2>3 DEF q
<1> QED
  BY <1>4, <1>5, <1>6 DEF Arrival

\* The copy a request leaves for the node executor with.
LEMMA LoadedSound ==
    ASSUME NEW st, Sound(st), st.status \notin Finished, NEW input,
           NEW filed \in Seq(Answers), "input" \notin Ops => filed = <<>>
    PROVE  LET new == WithFiledAnswers([Resumed(st, input) EXCEPT !.status = "running"],
                                       filed) IN
           /\ Sound(new) /\ new.status = "running" /\ new.node = st.node
           /\ Follows(new, st)
<1> DEFINE open == Resumed(st, input)
           on   == [open EXCEPT !.status = "running"]
           new  == WithFiledAnswers(on, filed)
<1>1. st \in BudgetedStates /\ new \in BudgetedStates
  BY LoadedBudgeted DEF Sound
<1> SUFFICES /\ Sound(new) /\ new.status = "running" /\ new.node = st.node
             /\ Follows(new, st)
  OBVIOUS
<1>2. /\ on.ctx = st.ctx /\ on.node = st.node /\ on.retries = st.retries
      /\ on.status = "running" /\ (on.pending => st.pending) /\ on.gen = st.gen
      /\ on.terminal = st.terminal /\ on.offered = st.offered /\ on.made = st.made
      /\ on \in BudgetedStates
  <2>1. open \in BudgetedStates
    BY <1>1, ClearPauseBudgeted DEF Resumed
  <2>2. /\ open.ctx = st.ctx /\ open.node = st.node /\ open.retries = st.retries
        /\ (open.pending => st.pending) /\ open.gen = st.gen
        /\ open.terminal = st.terminal /\ open.offered = st.offered /\ open.made = st.made
    BY <1>1 DEF Resumed, ClearPause, BudgetedStates, States
  <2> HIDE DEF open
  <2> QED
    BY <2>1, <2>2 DEF BudgetedStates, States, Statuses
<1> HIDE DEF on
<1>3. Sound(on)
  <2>1. st.terminal = NoOutcome /\ st.node \notin EndNodes
    BY DEF Sound, Walks, Finished
  <2> QED
    BY <1>2, <2>1 DEF Sound, Walks, Judged, Rejected, Finished
<1>4. CASE new = on
  BY <1>2, <1>3, <1>4 DEF Follows, Rejected
<1>5. CASE new # on
  <2>1. /\ IsQaGate(on.node) /\ Len(filed) = 1
        /\ new = [on EXCEPT !.ctx.questions = TRUE, !.ctx.answers = filed[1],
                            !.ctx.clarified = filed[1]]
    BY <1>5 DEF WithFiledAnswers
  <2>2. on.node = "qa_gate" /\ "input" \in Ops /\ filed[1] \in Answers
    <3>1. on.node \in Nodes
      BY <1>2 DEF BudgetedStates, States
    <3>2. on.node = "qa_gate"
      BY <2>1, <3>1, PlanEndNodes
    <3>3. filed # <<>> /\ filed[1] \in Answers
      BY <2>1
    <3> QED
      BY <3>2, <3>3
  <2>3. on.ctx \in Contexts
    BY <1>2 DEF BudgetedStates, States
  <2> DEFINE told == [on.ctx EXCEPT !.questions = TRUE, !.answers = filed[1],
                                    !.clarified = filed[1]]
  <2>4. new = [on EXCEPT !.ctx = told]
    BY <1>2, <2>1, <2>3 DEF BudgetedStates, States, Contexts
  <2>5. /\ told.questions /\ told.answers = filed[1]
        /\ told.draft = on.ctx.draft /\ told.phase = on.ctx.phase
    BY <2>3 DEF Contexts
  <2> HIDE DEF new, told
  <2>6. /\ new.ctx.questions /\ new.ctx.answers = filed[1]
        /\ new.ctx.draft = on.ctx.draft /\ new.ctx.phase = on.ctx.phase
        /\ new.node = on.node /\ new.retries = on.retries
        /\ new.status = on.status /\ new.pending = on.pending /\ new.gen = on.gen
        /\ new.terminal = on.terminal /\ new.offered = on.offered /\ new.made = on.made
    BY <1>2, <2>4, <2>5 DEF BudgetedStates, States
  <2>7. filed[1] # NoAnswers
    BY <2>2, ExecutorAssumption
  <2>8. Walks(new) /\ Judged(new)
    BY <1>3, <2>2, <2>6, <2>7 DEF Sound, Walks, Judged, Rejected
  <2>9. Follows(new, st)
    BY <1>2, <2>2, <2>6 DEF Follows, Rejected
  <2> QED
    BY <1>1, <1>2, <2>6, <2>8, <2>9 DEF Sound
<1> QED
  BY <1>4, <1>5

LEMMA SteppingKeeps ==
    ASSUME IInv, Inv', NEW r \in Requests, Stepping(r)
    PROVE  IInv'
<1> DEFINE q == req[r]
<1>1. /\ row \in BudgetedStates /\ q \in BudgetedRequests /\ Sound(row) /\ Carries(q, row)
      /\ "input" \notin Ops =>
            AnswersSeen(r) = <<>> /\ answerRows = <<>> /\ q.answered = NoAnswers
      /\ ~CrashAllowed =>
            /\ documents \in {0, 1}
            /\ documents = 1 => row.terminal = "stabilized" \/ q.pc = "save"
  BY Holding DEF IInv, NoneFiled
<1>2. /\ Left(row) \in 0 .. 7 /\ q.steps \in Nat /\ q.steps <= 7
      /\ row.status \notin Finished => Left(row) > 0
  BY <1>1, LeftBounded DEF Sound, Carries, BudgetedRequests, RequestStates
<1>3. AnswersSeen(r) \in Seq(Answers)
  BY AnswersSeenTyped DEF IInv
<1> HIDE DEF q
<1>4. CASE RunEnds(r)
  <2>1. req' = [req EXCEPT ![r] = Idle] /\ UNCHANGED <<row, documents, answerRows>>
    BY <1>4 DEF RunEnds
  <2>2. q.pc # "save"
    BY <1>4 DEF RunEnds, At, q
  <2> QED
    BY <1>1, <2>1, <2>2, IdleCarries, KeptBy
<1>5. CASE RunContinues(r)
  <2> DEFINE p == [q EXCEPT !.pc = "load", !.steps = @ + 1]
  <2>1. q.pc = "check" /\ ~Settled(row) /\ UNCHANGED <<row, documents, answerRows>>
    BY <1>5 DEF RunContinues, At, Settled, q
  <2>2. req' = [req EXCEPT ![r] = p]
    BY <1>5 DEF RunContinues, q, IInv, Inv
  <2>3. p.pc = "load" /\ p.steps = q.steps + 1 /\ p.answered = q.answered
    BY <1>1 DEF BudgetedRequests, RequestStates
  <2> HIDE DEF p
  <2>4. q.steps + Left(row) <= 7 /\ Left(row) > 0
    BY <1>1, <1>2, <2>1 DEF Carries, Settled
  <2>5. Carries(p, row)
    BY <1>2, <2>3, <2>4 DEF Carries
  <2> QED
    BY <1>1, <2>1, <2>2, <2>3, <2>5, KeptBy
<1>6. CASE StepReturns(r)
  <2>1. /\ q.pc = "load" /\ row.status \in Finished
        /\ req' = [req EXCEPT ![r] = AfterStep(q, row)]
        /\ UNCHANGED <<row, documents>> /\ answerRows' = AnswersSeen(r)
    BY <1>6 DEF StepReturns, At, FileAnswers, q, IInv, Inv
  <2>2. Carries(AfterStep(q, row), row) /\ AfterStep(q, row).answered = NoAnswers
    BY <1>1, <1>2, <2>1, AfterStepCarries DEF Sound, Settled, Carries
  <2> DEFINE p == AfterStep(q, row)
  <2> HIDE DEF p
  <2> QED
    BY <1>1, <2>1, <2>2, KeptBy DEF p
<1>7. CASE StepExecutes(r)
  <2> DEFINE st == WithFiledAnswers([Resumed(row, q.input) EXCEPT !.status = "running"],
                                    AnswersSeen(r))
             p  == [q EXCEPT !.pc = "exec", !.st = st]
  <2>1. q.pc = "load" /\ row.status \notin Finished /\ UNCHANGED <<row, documents, answerRows>>
    BY <1>7 DEF StepExecutes, At, q
  <2>2. Sound(st) /\ st.status = "running" /\ st.node = row.node /\ Follows(st, row)
    BY <1>1, <1>3, <2>1, LoadedSound
  <2>3. req' = [req EXCEPT ![r] = p]
    BY <1>7 DEF StepExecutes, q, IInv, Inv
  <2> HIDE DEF st
  <2>4. /\ p.pc = "exec" /\ p.st = st /\ p.steps = q.steps /\ p.answered = q.answered
    BY <1>1 DEF BudgetedRequests, RequestStates
  <2> HIDE DEF p
  <2>5. Carries(p, row)
    BY <1>1, <2>1, <2>2, <2>4 DEF Carries
  <2> QED
    BY <1>1, <2>1, <2>3, <2>4, <2>5, KeptBy
<1>8. CASE PgcNodeAnswered(r)
  BY <1>1, <1>8, PlanNodes
     DEF PgcNodeAnswered, AnswersPgcNode, BudgetedStates, States
<1>9. CASE SavePublished(r)
  <2> DEFINE p == [q EXCEPT !.pc = "spawn"]
  <2>1. /\ q.pc = "save" /\ row' = Saved(q.st) /\ UNCHANGED <<documents, answerRows>>
        /\ req' = [req EXCEPT ![r] = p]
    BY <1>9 DEF SavePublished, At, q, IInv, Inv
  <2>2. p.pc = "spawn" /\ p.st = q.st /\ p.steps = q.steps /\ p.answered = q.answered
    BY <1>1 DEF BudgetedRequests, RequestStates
  <2> HIDE DEF p
  <2>3. Sound(q.st) /\ q.st.status = "completed" /\ q.st.terminal = "stabilized"
    BY <1>1, <2>1 DEF Carries
  <2>4. q.st \in BudgetedStates
    BY <2>3 DEF Sound
  <2>5. Sound(row') /\ row'.status = "completed" /\ row'.terminal = "stabilized"
    <3>1. Saved(q.st).status = q.st.status /\ Saved(q.st).terminal = q.st.terminal
      BY <2>4 DEF Saved, BudgetedStates, States
    <3> QED
      BY <2>1, <2>3, <3>1, SavedSound
  <2>6. Carries(p, row')
    BY <1>2, <2>1, <2>2, <2>5 DEF Carries
  <2> QED
    BY <1>1, <2>1, <2>2, <2>5, <2>6, KeptBy
<1>10. CASE SaveCompleted(r)
  <2>1. /\ q.pc = "spawn" /\ row' = Saved(q.st) /\ answerRows' = AnswersSeen(r)
        /\ req' = [req EXCEPT ![r] = AfterStep(q, q.st)] /\ UNCHANGED documents
    BY <1>10 DEF SaveCompleted, Commit, FileAnswers, At, q, IInv, Inv
  <2>2. row' = row /\ Saved(q.st) = row /\ row.status = "completed"
    BY <1>1, <2>1 DEF Carries
  <2>3. q.st.status = row.status
    BY <1>1, <2>2 DEF Saved, BudgetedRequests, BudgetedStates, States
  <2> DEFINE p == AfterStep(q, q.st)
  <2>4. Carries(p, row) /\ p.answered = NoAnswers
    <3>1. CASE q.op \in {"run", "message"}
      <4>1. p.pc = "check" /\ p.steps = q.steps /\ p.answered = NoAnswers
        BY <1>1, <3>1 DEF AfterStep, BudgetedRequests, RequestStates
      <4> QED
        BY <1>2, <2>2, <4>1 DEF Carries, Settled, Finished
    <3>2. CASE q.op \notin {"run", "message"}
      <4>1. p = Idle
        BY <2>2, <2>3, <3>2 DEF AfterStep, Finished
      <4> QED
        BY <4>1, IdleCarries
    <3> QED
      BY <3>1, <3>2
  <2>5. q.pc # "save"
    BY <2>1
  <2> HIDE DEF p
  <2> QED
    BY <1>1, <2>1, <2>2, <2>4, <2>5, KeptBy DEF p
<1> QED
  BY <1>4, <1>5, <1>6, <1>7, <1>8, <1>9, <1>10 DEF Stepping

\* What a command writes: it closes the row, or answers its questions.
CommandWrites(r) ==
    /\ req[r].pc = "command" /\ row.status \notin Finished
    /\ UNCHANGED <<documents, answerRows>>
    /\ row'.node = row.node /\ Rejected(row)' = Rejected(row) /\ Sound(row')
    /\ \/ /\ row'.status = "completed" /\ row'.terminal \in {"cancelled", "escalated"}
          /\ row'.ctx.answers = row.ctx.answers
          /\ req' = [req EXCEPT ![r] = Idle]
       \/ /\ row.node = "pgc_gate" /\ row'.status = "running"
          /\ row'.ctx.answers \in Answers \cup {row.ctx.answers}
          /\ req' = [req EXCEPT ![r] = [Idle EXCEPT !.op = "run", !.pc = "check"]]

LEMMA CommandOutcome ==
    ASSUME IInv, Inv', NEW r \in Requests, Command(r)
    PROVE  CommandWrites(r)
<1> DEFINE old == req[r].st
<1>1. /\ req[r].pc = "command" /\ UNCHANGED <<documents, answerRows>>
      /\ row \in BudgetedStates /\ Sound(row) /\ old = row /\ Admits(req[r].op, row)
  BY Holding
     DEF Command, Cancels, EditsField, Initializes, Resolves,
         Escalates, Commanded, At, Carries
<1>2. row.ctx \in Contexts /\ row.node \in Nodes
  BY <1>1 DEF BudgetedStates, States
<1> HIDE DEF old
<1>3. CASE Cancels(r)
  <2> DEFINE st   == ClearEscalation(row)
             open == IF st.pending THEN ClearPause(st) ELSE st
             done == SetCompleted(open, "cancelled")
             new  == RecordExecution(done, open.node)
  <2>1. row' = Saved(new) /\ req' = [req EXCEPT ![r] = Idle]
    BY <1>1, <1>3 DEF Cancels, Answered, old
  <2>2. row.status \in {"running", "paused"}
    BY <1>1, <1>3 DEF Cancels, Commanded, Admits
  <2>3. /\ open \in BudgetedStates /\ ~open.pending /\ open.ctx = row.ctx
        /\ open.node = row.node /\ open.retries = row.retries /\ open.gen = row.gen
        /\ open.offered = {} /\ open.made = row.made /\ open.terminal = row.terminal
    <3>1. /\ st \in BudgetedStates /\ st.ctx = row.ctx /\ st.pending = row.pending
          /\ st.node = row.node /\ st.retries = row.retries /\ st.gen = row.gen
          /\ st.offered = {} /\ st.made = row.made /\ st.terminal = row.terminal
      BY <1>1, ClearEscalationBudgeted DEF ClearEscalation, BudgetedStates, States
    <3> HIDE DEF st
    <3> QED
      BY <3>1, ClearPauseBudgeted DEF ClearPause, BudgetedStates, States
  <2> HIDE DEF open
  <2>4. /\ done \in BudgetedStates /\ ~done.pending /\ done.ctx = row.ctx
        /\ done.node = row.node /\ done.retries = row.retries /\ done.gen = row.gen
        /\ done.offered = {} /\ done.made = row.made /\ done.terminal = "cancelled"
        /\ done.status = "completed"
    BY <2>3, SetCompletedBudgeted DEF SetCompleted, Outcomes, BudgetedStates, States
  <2> HIDE DEF done
  <2>5. /\ new \in BudgetedStates /\ ~new.pending /\ new.ctx = row.ctx
        /\ new.node = row.node /\ new.retries = row.retries /\ new.gen = row.gen
        /\ new.offered = {} /\ new.terminal = "cancelled" /\ new.status = "completed"
        /\ \/ new.made = row.made
           \/ new.made = row.node /\ row.node \in Producing /\ row.made = NoNode
    <3>1. new = RecordExecution(done, row.node)
      BY <2>3
    <3>2. new \in BudgetedStates
      BY <1>2, <2>4, <3>1, RecordExecutionBudgeted
    <3>3. \/ new = done
          \/ new = [done EXCEPT !.made = IF @ = NoNode /\ row.node \in Producing
                                         THEN row.node ELSE @,
                                !.task = IF @ = NoNode THEN row.node ELSE @]
      BY <3>1 DEF RecordExecution
    <3> HIDE DEF new
    <3> QED
      BY <2>4, <3>2, <3>3 DEF BudgetedStates, States
  <2> HIDE DEF new
  <2>6. new.made \in {NoNode, "generation"}
        /\ (new.node \in {"qa_gate", "remediation"} => new.made = "generation")
    BY <1>1, <2>5, PlanNodes DEF Sound, Walks, NoNode
  <2>7. Walks(new) /\ Judged(new)
    BY <1>1, <2>5, <2>6 DEF Sound, Walks, Judged, Rejected, Finished
  <2>8. Sound(row')
    BY <2>1, <2>5, <2>7, SavedSound DEF Sound
  <2>9. row.status \notin Finished
    BY <2>2 DEF Finished
  <2>10. /\ row'.node = row.node /\ row'.retries = row.retries /\ row'.ctx = row.ctx
         /\ row'.status = "completed" /\ row'.terminal = "cancelled"
    BY <2>1, <2>5 DEF Saved, BudgetedStates, States
  <2> QED
    BY <1>1, <2>1, <2>8, <2>9, <2>10 DEF CommandWrites, Rejected
<1>4. ~EditsField(r) /\ ~Initializes(r)
  BY <1>1 DEF EditsField, Initializes, Commanded, Admits, Sound, Walks
<1>5. ASSUME row.pending
      PROVE  /\ row.node = "pgc_gate" /\ row.ctx.answers = NoAnswers
             /\ row.ctx.questions /\ row.status \notin Finished
             /\ row.terminal = NoOutcome
  BY <1>1, <1>5 DEF Sound, Walks, Finished
<1>6. CASE Resolves(r)
  <2>1. row.pending
    BY <1>1, <1>6 DEF Resolves, Commanded, Admits
  <2>2. PICK a \in Answers \cup {row.ctx.answers} :
           row' = [row EXCEPT !.pending = FALSE,
                              !.payload = @ /\ ~row.payload,
                              !.status = IF row.status = "running" THEN @ ELSE "running",
                              !.ctx = [row.ctx EXCEPT !.answers = a]]
    BY <1>1, <1>6 DEF Resolves, old
  <2> DEFINE told == [row.ctx EXCEPT !.answers = a]
  <2>3. /\ told.questions = row.ctx.questions /\ told.phase = row.ctx.phase
        /\ told.draft = row.ctx.draft
    BY <1>2 DEF Contexts
  <2>4. row' \in BudgetedStates
    BY DEF Inv
  <2>5. /\ ~row'.pending /\ row'.ctx = told /\ row'.node = row.node
        /\ row'.retries = row.retries /\ row'.gen = row.gen /\ row'.made = row.made
        /\ row'.offered = row.offered /\ row'.terminal = row.terminal
        /\ row'.status = "running"
    BY <1>1, <2>2 DEF BudgetedStates, States
  <2> HIDE DEF told
  <2>6. Walks(row)' /\ Judged(row)'
    BY <1>1, <1>5, <2>1, <2>3, <2>5, PlanEndNodes DEF Sound, Walks, Judged, Rejected
  <2>7. Sound(row')
    BY <2>4, <2>6 DEF Sound, Walks, Judged, Rejected
  <2>8. row'.ctx.answers \in Answers \cup {row.ctx.answers}
    BY <1>2, <2>5 DEF told, Contexts
  <2>9. req' = [req EXCEPT ![r] = [Idle EXCEPT !.op = "run", !.pc = "check"]]
    BY <1>6 DEF Resolves
  <2> QED
    BY <1>1, <1>5, <2>1, <2>5, <2>7, <2>8, <2>9 DEF CommandWrites, Rejected
<1>7. CASE Escalates(r)
  <2>1. row.pending
    BY <1>1, <1>7 DEF Escalates, Commanded, Admits
  <2>2. /\ row' = [SetCompleted(row, "escalated") EXCEPT !.pending = FALSE,
                                                        !.payload = FALSE]
        /\ req' = [req EXCEPT ![r] = Idle]
    BY <1>7 DEF Escalates, Answered
  <2>3. row' \in BudgetedStates
    BY DEF Inv
  <2>4. /\ ~row'.pending /\ row'.ctx = row.ctx /\ row'.node = row.node
        /\ row'.retries = row.retries /\ row'.gen = row.gen /\ row'.made = row.made
        /\ row'.offered = row.offered /\ row'.terminal = "escalated"
        /\ row'.status = "completed"
    BY <1>1, <2>2 DEF SetCompleted, BudgetedStates, States
  <2>5. Sound(row')
    BY <1>1, <1>5, <2>1, <2>3, <2>4, PlanEndNodes
       DEF Sound, Walks, Judged, Rejected, Finished
  <2> QED
    BY <1>1, <1>5, <2>1, <2>2, <2>4, <2>5 DEF CommandWrites, Rejected
<1> QED
  BY <1>3, <1>4, <1>6, <1>7 DEF Command

LEMMA CommandKeeps ==
    ASSUME IInv, Inv', NEW r \in Requests, CommandWrites(r)
    PROVE  IInv'
<1>1. /\ "input" \notin Ops => answerRows' = <<>>
      /\ ~CrashAllowed => documents' \in {0, 1} /\ documents' # 1
      /\ Sound(row')
  BY Holding DEF CommandWrites, IInv, NoneFiled, NoOutcome
<1>2. CASE req' = [req EXCEPT ![r] = Idle]
  BY <1>1, <1>2, IdleCarries, KeptBy
<1>3. CASE /\ row.node = "pgc_gate"
           /\ req' = [req EXCEPT ![r] = [Idle EXCEPT !.op = "run", !.pc = "check"]]
  <2> DEFINE q == [Idle EXCEPT !.op = "run", !.pc = "check"]
  <2>1. q.pc = "check" /\ q.steps = 0 /\ q.answered = NoAnswers
    BY DEF Idle
  <2>2. Left(row') = 7
    BY <1>3 DEF CommandWrites, Left
  <2>3. req' = [req EXCEPT ![r] = q]
    BY <1>3
  <2> HIDE DEF q
  <2>4. Carries(q, row')
    BY <2>1, <2>2 DEF Carries
  <2> QED
    BY <1>1, <2>1, <2>3, <2>4, KeptBy
<1> QED
  BY <1>2, <1>3 DEF CommandWrites

LEMMA StepKeeps ==
    ASSUME IInv, [Next]_vars
    PROVE  IInv'
<1>1. Inv'
  BY StepBudgeted DEF IInv
<1>2. CASE UNCHANGED vars
  BY <1>1, <1>2
     DEF vars, IInv, Published, NoneFiled, Sound, Walks, Judged, Carries, Follows, Left,
         Rejected, Settled
<1>3. ASSUME NEW r \in Requests, Executor(r) PROVE IInv'
  <2>1. Carries(req[r], row)
    BY DEF IInv
  <2>2. req[r].pc = "exec"
    BY <1>3 DEF Executor, PgcGateAsks, PgcGateWaits, PgcGateMerges, PgcNodeAsks, IntakeAsks,
         IntakeClassifies, IntakeRejects, IntakeConfirms, IntakeIsComplete, TaskRuns,
         QaJudges, EndReports, NodeRaises, Executing, At
  <2> QED
    BY <1>1, <1>3, <2>1, <2>2, ExecutorDelivers, DeliveryKeeps, PublicationKeeps
<1>4. ASSUME NEW r \in Requests, Disconnects(r) \/ Crash(r) PROVE IInv'
  <2>1. /\ req' = [req EXCEPT ![r] = Idle] /\ UNCHANGED <<row, documents, answerRows>>
        /\ ~CrashAllowed => req[r].pc = "load"
    BY <1>4 DEF Disconnects, Crash, Answered, At
  <2>2. /\ Sound(row) /\ ("input" \notin Ops => answerRows = <<>>)
        /\ ~CrashAllowed =>
              documents \in {0, 1} /\ (documents = 1 => row.terminal = "stabilized")
    BY <2>1, Holding DEF IInv, NoneFiled
  <2> QED
    BY <1>1, <2>1, <2>2, IdleCarries, KeptBy
<1> QED
  BY <1>1, <1>2, <1>3, <1>4, ArrivalKeeps, SteppingKeeps, CommandOutcome, CommandKeeps
     DEF Next

LEMMA StartHolds == Init => IInv
<1> SUFFICES ASSUME Init PROVE IInv
  OBVIOUS
<1>1. Inv
  BY NewStateBudgeted, IdleBudgeted DEF Init, Inv
<1>2. Sound(row)
  <2>1. row \in BudgetedStates /\ row = NewState
    BY NewStateBudgeted DEF Init
  <2>2. Entry = "pgc_gate"
    BY DiscoveryAssumption
  <2> QED
    BY <2>1, <2>2, PlanEndNodes
       DEF Sound, Walks, Judged, NewState, NoDraft, NoAnswers, Finished
<1>3. \A r \in Requests : Carries(req[r], row) /\ req[r].answered = NoAnswers
  BY IdleCarries DEF Init
<1>4. documents = 0 /\ answerRows = <<>>
  BY DEF Init
<1> QED
  BY <1>1, <1>2, <1>3, <1>4 DEF IInv, Published, NoneFiled

THEOREM Governed == Spec => []IInv
<1>1. IInv /\ [Next]_vars => IInv'
  BY StepKeeps
<1> QED
  BY <1>1, StartHolds, PTL DEF Spec

\* DraftedFromAnswers: no draft is written of unanswered questions.  The gate
\* leaves by its one edge, of "qualified", reported when answers are there.
THEOREM DraftsHaveAnswers == Spec => []DraftedFromAnswers
<1>1. IInv => DraftedFromAnswers
  BY DEF IInv, Sound, Walks, DraftedFromAnswers
<1> QED
  BY <1>1, Governed, PTL

\* PausedForAReason: a discovery is paused for the answers it asked for, or
\* at its QA gate with the retries spent, whatever is asked of it in between.
THEOREM PausesExplained == Spec => []PausedForAReason
<1>1. IInv => PausedForAReason
  <2> SUFFICES ASSUME IInv, row.status = "paused", ~row.pending
               PROVE  IsQaGate(row.node) /\ row.retries[GeneratingNode(row)] >= MaxRetries
    BY DEF PausedForAReason
  <2>1. row.node = "qa_gate" /\ Rejected(row) = MaxRetries /\ row.made = "generation"
    BY DEF IInv, Sound, Walks
  <2>2. GeneratingNode(row) = "generation" /\ IsQaGate("qa_gate") /\ MaxRetries = 2
    BY <2>1, PlanNodes DEF GeneratingNode, NoNode, IsQaGate
  <2> QED
    BY <2>1, <2>2 DEF Rejected
<1> QED
  BY <1>1, Governed, PTL

\* RunIsShort: run_to_completion_or_pause executes at most seven nodes: what
\* is left to execute falls with every node and never grows in between.
THEOREM RunsAreShort == Spec => []RunIsShort
<1>1. IInv => RunIsShort
  BY PlanNodes DEF IInv, Carries, RunIsShort
<1> QED
  BY <1>1, Governed, PTL

\* JudgedOnItsAnswers: unless /input files answers of its own, what QA let
\* pass was written from the answers the execution still holds.
THEOREM JudgedAsWritten ==
    ASSUME "input" \notin Ops
    PROVE  Spec => []JudgedOnItsAnswers
<1>1. IInv => JudgedOnItsAnswers
  <2> SUFFICES ASSUME IInv, row.terminal = "stabilized"
               PROVE  row.ctx.answers = row.ctx.draft
    BY DEF JudgedOnItsAnswers
  <2>1. row.node = "end_stabilized"
    <3>1. row.status = "completed"
      BY DEF IInv, Sound, Walks, NoOutcome
    <3>2. row.node \in EndNodes /\ EndOutcome[row.node] = "stabilized"
      BY <3>1 DEF IInv, Sound, Walks
    <3> QED
      BY <3>2, PlanNodes, PlanEndNodes
  <2> QED
    BY <2>1 DEF IInv, Sound, Judged
<1> QED
  BY <1>1, Governed, PTL

-----------------------------------------------------------------------------
(***************************************************************************)
(* What becomes of the row                                                  *)
(***************************************************************************)

\* Request r saves the end it has published its document for.
Closes(r) ==
    /\ row.status \notin Finished /\ row.node = "qa_gate"
    /\ row'.status = "completed" /\ row'.terminal = "stabilized"
    /\ row'.node = "end_stabilized" /\ Rejected(row)' = Rejected(row)
    /\ "input" \notin Ops => row'.ctx.answers = row.ctx.answers
    /\ UNCHANGED documents

\* A request's copy goes over into the row.
Works(r) ==
    /\ req[r].pc = "exec" /\ Carries(req[r], row)
    /\ Delivers(r, req[r].st) \/ Publishes(r, req[r].st)

LEMMA RowSteps ==
    ASSUME IInv, [Next]_vars
    PROVE  \/ UNCHANGED <<row, documents>>
           \/ \E r \in Requests : Works(r) \/ Closes(r) \/ CommandWrites(r)
<1>1. Inv'
  BY StepBudgeted DEF IInv
<1>2. ASSUME NEW r \in Requests, Executor(r) PROVE Works(r)
  <2>1. Carries(req[r], row)
    BY DEF IInv
  <2>2. req[r].pc = "exec"
    BY <1>2 DEF Executor, PgcGateAsks, PgcGateWaits, PgcGateMerges, PgcNodeAsks, IntakeAsks,
         IntakeClassifies, IntakeRejects, IntakeConfirms, IntakeIsComplete, TaskRuns,
         QaJudges, EndReports, NodeRaises, Executing, At
  <2> QED
    BY <1>2, <2>1, <2>2, ExecutorDelivers DEF Works
<1>3. ASSUME NEW r \in Requests, Command(r) PROVE CommandWrites(r)
  BY <1>1, <1>3, CommandOutcome
<1>4. ASSUME NEW r \in Requests, Stepping(r)
      PROVE  UNCHANGED <<row, documents>> \/ Closes(r)
  <2>1. CASE SavePublished(r)
    <3>1. req[r].pc = "save" /\ row' = Saved(req[r].st) /\ UNCHANGED documents
      BY <2>1 DEF SavePublished, At
    <3>2. Carries(req[r], row)
      BY DEF IInv
    <3>3. req[r].st \in BudgetedStates
      BY <3>1, <3>2 DEF Carries, Sound
    <3>4. /\ row'.status = req[r].st.status /\ row'.terminal = req[r].st.terminal
          /\ row'.node = req[r].st.node /\ row'.retries = req[r].st.retries
          /\ row'.ctx = req[r].st.ctx
      BY <3>1, <3>3 DEF Saved, BudgetedStates, States
    <3> QED
      BY <3>1, <3>2, <3>4 DEF Carries, Follows, Closes, Rejected
  <2>2. CASE SaveCompleted(r)
    BY <2>2 DEF SaveCompleted, Commit, At, IInv, Carries
  <2>3. CASE PgcNodeAnswered(r)
    <3>1. row.node \in Nodes
      BY DEF IInv, Inv, BudgetedStates, States
    <3> QED
      BY <2>3, <3>1, PlanNodes DEF PgcNodeAnswered, AnswersPgcNode
  <2> QED
    BY <1>4, <2>1, <2>2, <2>3
       DEF Stepping, RunEnds, RunContinues, StepReturns, StepExecutes
<1>5. ASSUME NEW r \in Requests, Arrival(r) \/ Disconnects(r) \/ Crash(r)
      PROVE  UNCHANGED <<row, documents>>
  BY <1>5 DEF Arrival, BeginWork, SubmitInput, BeginCommand, Disconnects, Crash
<1> QED
  BY <1>2, <1>3, <1>4, <1>5 DEF Next, vars

\* Nothing changes the row of a finished execution: no late save, operator
\* command, message or repeated run of one request after the other.
THEOREM FinishedIsFinal == Spec => [][row.status \in Finished => row' = row]_row
<1>1. IInv /\ [Next]_vars => [row.status \in Finished => row' = row]_row
  <2> SUFFICES ASSUME IInv, [Next]_vars, row.status \in Finished PROVE row' = row
    OBVIOUS
  <2>1. ASSUME NEW r \in Requests, Works(r) PROVE FALSE
    BY <2>1 DEF Works, Carries
  <2> QED
    BY <2>1, RowSteps DEF Closes, CommandWrites
<1> QED
  BY <1>1, Governed, PTL DEF Spec

-----------------------------------------------------------------------------
(***************************************************************************)
(* The row takes the steps of GovernedProduction                            *)
(***************************************************************************)

LEMMA Stages ==
    /\ StageOf["pgc_gate"] = "clarify" /\ StageOf["generation"] = "write"
    /\ StageOf["qa_gate"] = "judge" /\ StageOf["remediation"] = "rewrite"
    /\ StageOf["end_stabilized"] = "closed" /\ StageOf["end_blocked"] = "closed"
BY DEF StageOf

\* What a row that is not finished stands for.
LEMMA OpenRow ==
    ASSUME NEW st, Sound(st), st.status \notin Finished
    PROVE  /\ st.node \in {"pgc_gate", "generation", "qa_gate", "remediation"}
           /\ StageOf[st.node] # "closed"
           /\ st.status # "failed" /\ st.status # "completed"
           /\ StageOf[st.node] = "judge" <=> st.node = "qa_gate"
           /\ st.status = "paused" =>
                 \/ st.node = "pgc_gate"
                 \/ st.node = "qa_gate" /\ Rejected(st) = 2
<1>1. st.node \in Nodes /\ st.node \notin EndNodes
  BY DEF Sound, Walks, Finished, BudgetedStates, States
<1>2. st.node \in {"pgc_gate", "generation", "qa_gate", "remediation"}
  BY <1>1, PlanNodes, PlanEndNodes
<1>3. st.status = "paused" =>
         \/ st.node = "pgc_gate"
         \/ st.node = "qa_gate" /\ Rejected(st) = 2
  BY PlanNodes DEF Sound, Walks
<1> QED
  BY <1>2, <1>3, Stages DEF Finished

LEMMA DeliveryRefines ==
    ASSUME IInv, ~CrashAllowed, "input" \notin Ops, NEW r \in Requests,
           Works(r), Delivers(r, req[r].st)
    PROVE  [Production!Next]_Production!vars
<1> DEFINE old == req[r].st
<1>1. /\ Sound(row) /\ row.status \notin Finished
      /\ old.node = row.node /\ Rejected(old) = Rejected(row)
      /\ old.ctx.answers = row.ctx.answers
  BY DEF IInv, Works, Carries, Follows
<1>2. documents = 0
  BY <1>1, Holding DEF Works, NoOutcome
<1>3. documents' = 0 /\ Sound(row') /\ Moves(old, row')
  <2>1. PICK st : row' = Saved(st) /\ Sound(Saved(st)) /\ Moves(old, Saved(st))
                  /\ UNCHANGED documents
    BY DEF Delivers
  <2> QED
    BY <1>2, <2>1
<1> HIDE DEF old
<1>4. Rejected(row') = Rejected(row)' /\ MaxRetries = 2
  BY PlanNodes DEF Rejected
<1>5. /\ row.node \in {"pgc_gate", "generation", "qa_gate", "remediation"}
      /\ StageOf[row.node] # "closed"
      /\ row.status # "failed" /\ row.status # "completed"
      /\ StageOf[row.node] = "judge" <=> row.node = "qa_gate"
      /\ row.status = "paused" =>
            \/ row.node = "pgc_gate"
            \/ row.node = "qa_gate" /\ Rejected(row) = 2
  BY <1>1, OpenRow
<1>6. CASE row'.node = row.node /\ Rejected(row') = Rejected(row) /\ row'.status = "failed"
  <2>1. Production!Close("failed")
    BY <1>1, <1>2, <1>3, <1>4, <1>5, <1>6
       DEF Production!Close, Production!Open, Moves, Finished, Rejected
  <2> QED
    BY <2>1 DEF Production!Next
<1>7. CASE /\ row'.node = row.node /\ Rejected(row') = Rejected(row)
           /\ row'.status = "paused" /\ row.node = "pgc_gate"
  <2>1. UNCHANGED Production!vars
    BY <1>1, <1>2, <1>3, <1>4, <1>5, <1>7, Stages
       DEF Production!vars, Moves, Finished, Rejected
  <2> QED
    BY <2>1
<1>8. CASE /\ row'.node = row.node /\ Rejected(row') = Rejected(row)
           /\ row'.status = "paused" /\ row.node = "qa_gate" /\ Rejected(row) = 2
  <2>1. Production!Stop
    BY <1>1, <1>2, <1>3, <1>4, <1>5, <1>8, Stages
       DEF Production!Stop, Production!Open, Moves, Finished, Rejected
  <2> QED
    BY <2>1 DEF Production!Next
<1>9. CASE /\ row.node = "pgc_gate" /\ row'.node = "generation"
           /\ row'.status = "running" /\ Rejected(row') = Rejected(row)
  <2>1. row'.ctx.answers = row.ctx.answers /\ row'.ctx.answers # NoAnswers
    BY <1>1, <1>3, <1>9 DEF Moves, Sound, Walks
  <2>2. Production!Clarified
    BY <1>2, <1>3, <1>4, <1>5, <1>1, <1>9, <2>1, Stages
       DEF Production!Clarified, Production!Open, Finished, Rejected
  <2> QED
    BY <2>2 DEF Production!Next
<1>10. CASE /\ row.node \in {"generation", "remediation"} /\ row'.node = "qa_gate"
            /\ row'.status = "running" /\ Rejected(row') = Rejected(row)
  <2>1. Production!Written
    BY <1>1, <1>2, <1>3, <1>4, <1>5, <1>10, Stages
       DEF Production!Written, Production!Open, Moves, Finished, Rejected
  <2> QED
    BY <2>1 DEF Production!Next
<1>11. CASE /\ row.node \in {"generation", "remediation"} /\ row'.node = "end_blocked"
            /\ row'.status = "completed" /\ row'.terminal = "blocked"
            /\ Rejected(row') = Rejected(row)
  <2>1. Production!Close("blocked")
    BY <1>1, <1>2, <1>3, <1>4, <1>5, <1>11, Stages
       DEF Production!Close, Production!Open, Moves, Finished, Rejected
  <2> QED
    BY <2>1 DEF Production!Next
<1>12. CASE /\ row.node = "qa_gate" /\ row'.node = "remediation"
            /\ row'.status = "running" /\ Rejected(row') = Rejected(row) + 1
            /\ Rejected(row) < 2
  <2>1. row.status # "paused"
    BY <1>5, <1>12
  <2>2. Production!SendBack
    BY <1>1, <1>2, <1>3, <1>4, <1>5, <1>12, <2>1, Stages
       DEF Production!SendBack, Production!Open, Moves, Finished, Rejected
  <2> QED
    BY <2>2 DEF Production!Next
<1>13. CASE /\ row.node = "qa_gate" /\ row'.node = "end_stabilized"
            /\ row'.status = "completed" /\ row'.terminal = "stabilized"
            /\ Rejected(row') = Rejected(row)
  <2>1. Production!Close("stabilized")
    BY <1>1, <1>2, <1>3, <1>4, <1>5, <1>13, Stages
       DEF Production!Close, Moves, Finished, Rejected
  <2> QED
    BY <2>1 DEF Production!Next
<1> QED
  BY <1>1, <1>3, <1>6, <1>7, <1>8, <1>9, <1>10, <1>11, <1>12, <1>13 DEF Moves

LEMMA PublicationRefines ==
    ASSUME IInv, ~CrashAllowed, NEW r \in Requests, Works(r), Publishes(r, req[r].st)
    PROVE  [Production!Next]_Production!vars
<1>1. /\ Sound(row) /\ row.status \notin Finished /\ row.node = "qa_gate"
      /\ UNCHANGED row /\ documents' = documents + 1
  BY DEF IInv, Works, Carries, Publishes
<1>2. documents = 0
  BY <1>1, Holding DEF Works, NoOutcome
<1>3. Production!Publish
  BY <1>1, <1>2, Stages DEF Production!Publish
<1> QED
  BY <1>3 DEF Production!Next

LEMMA ClosingRefines ==
    ASSUME IInv, "input" \notin Ops, NEW r \in Requests, Closes(r)
    PROVE  [Production!Next]_Production!vars
<1>1. Production!Close("stabilized")
  BY Stages DEF Closes, Production!Close, Finished, Rejected
<1> QED
  BY <1>1 DEF Production!Next

LEMMA CommandRefines ==
    ASSUME IInv, ~CrashAllowed, NEW r \in Requests, CommandWrites(r)
    PROVE  [Production!Next]_Production!vars
<1>1. /\ Sound(row) /\ row.status \notin Finished /\ documents = 0
      /\ documents' = documents
  BY Holding DEF CommandWrites, IInv, NoOutcome
<1>2. /\ StageOf[row.node] # "closed"
      /\ row.status # "failed" /\ row.status # "completed"
  BY <1>1, OpenRow
<1>3. CASE /\ row'.status = "completed" /\ row'.terminal \in {"cancelled", "escalated"}
           /\ row'.ctx.answers = row.ctx.answers
  <2>1. PICK v \in {"cancelled", "escalated"} : v = row'.terminal
    BY <1>3
  <2>2. Production!Close(v)
    BY <1>1, <1>2, <1>3, <2>1
       DEF CommandWrites, Production!Close, Production!Open, Finished, Rejected
  <2> QED
    BY <2>1, <2>2 DEF Production!Next
<1>4. CASE /\ row.node = "pgc_gate" /\ row'.status = "running"
           /\ row'.ctx.answers \in Answers
  <2>1. Production!Answer
    BY <1>1, <1>2, <1>4, Stages
       DEF CommandWrites, Production!Answer, Production!Open, Finished, Rejected
  <2> QED
    BY <2>1 DEF Production!Next
<1>5. CASE /\ row.node = "pgc_gate" /\ row'.status = "running"
           /\ row'.ctx.answers = row.ctx.answers
  <2>1. UNCHANGED Production!vars
    BY <1>1, <1>2, <1>5, Stages
       DEF CommandWrites, Production!vars, Finished, Rejected
  <2> QED
    BY <2>1
<1> QED
  BY <1>3, <1>4, <1>5 DEF CommandWrites

\* ImplementsProduction: driven by one request at a time, without crashes and
\* without /input, every save of plan_executor.py and of the operator commands
\* is a step of the production protocol or none at all.
THEOREM ProductionImplemented ==
    ASSUME ~CrashAllowed, "input" \notin Ops
    PROVE  Spec => ImplementsProduction
<1>1. Init => Production!Init
  <2> SUFFICES ASSUME Init PROVE Production!Init
    OBVIOUS
  <2>1. /\ row.status = "pending" /\ row.node = "pgc_gate"
        /\ row.ctx.answers = NoAnswers /\ row.retries["generation"] = 0
    BY DiscoveryAssumption, PlanNodes DEF Init, NewState
  <2> QED
    BY <2>1, Stages DEF Init, Production!Init, Finished
<1>2. IInv /\ [Next]_vars => [Production!Next]_Production!vars
  <2> SUFFICES ASSUME IInv, [Next]_vars PROVE [Production!Next]_Production!vars
    OBVIOUS
  <2>1. CASE UNCHANGED <<row, documents>>
    BY <2>1 DEF Production!vars
  <2>2. ASSUME NEW r \in Requests, Works(r) PROVE [Production!Next]_Production!vars
    BY <2>2, DeliveryRefines, PublicationRefines DEF Works
  <2>3. ASSUME NEW r \in Requests, Closes(r) PROVE [Production!Next]_Production!vars
    BY <2>3, ClosingRefines
  <2>4. ASSUME NEW r \in Requests, CommandWrites(r) PROVE [Production!Next]_Production!vars
    BY <2>4, CommandRefines
  <2> QED
    BY <2>1, <2>2, <2>3, <2>4, RowSteps
<1> QED
  BY <1>1, <1>2, Governed, PTL DEF Spec, ImplementsProduction, Production!Spec
=============================================================================
