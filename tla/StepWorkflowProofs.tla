-------------------------- MODULE StepWorkflowProofs --------------------------
(* Proofs about module StepWorkflow, for any plan, collections and bound on   *)
(* the attempts: no run goes on past a document that requires acceptance      *)
(* before an edition of it was accepted under its own scope, questions aside; *)
(* a paused run waits for one answer that is due; a complete iteration did    *)
(* every nested step for every entity.                                        *)
EXTENDS StepWorkflow, SequenceTheorems, WellFoundedInduction, TLAPS

Covered(k) == k[1] \in Guarded /\ docs[k] > 0 => agreed[k] > 0 \/ k \in clarified

(* While the run waits for a decision every other document is covered, and the *)
(* one at hand is there; what was decided in an unfailed workflow was agreed.  *)
AcceptanceInv ==
    /\ docs \in [Keys -> Nat] /\ agreed \in [Keys -> Nat]
    /\ decisions = [k \in Keys |-> decisions[k]]
    /\ status \notin {"failed", "waiting_acceptance"} => \A k \in Keys : Covered(k)
    /\ status = "waiting_acceptance" =>
           /\ at = "caller"
           /\ pending = <<pending[1], pending[2]>>
           /\ pending \in Keys => docs[pending] > 0
           /\ \A k \in Keys \ {pending} : Covered(k)
    /\ status = "failed" => at = "caller"
    /\ status # "failed" =>
           \A k \in Keys : decisions[k] # None => agreed[k] > 0

LEMMA AcceptanceInitially == Init => AcceptanceInv
BY DEF Init, AcceptanceInv, Covered

(* Steps that touch neither documents nor decisions, and do not leave a wait. *)
Unrelated == UNCHANGED <<pending, decisions, docs, history>>

LEMMA UnrelatedKeepsAcceptance ==
    ASSUME AcceptanceInv, Unrelated,
           status \notin {"failed", "waiting_acceptance"},
           status' \notin {"failed", "waiting_acceptance"}
               \/ (status' = "failed" /\ at' = "caller")
    PROVE  AcceptanceInv'
BY DEF AcceptanceInv, Unrelated, Covered, history

LEMMA PassesKeepsAcceptance ==
    ASSUME AcceptanceInv, at = "call", NEW full \in BOOLEAN, Passes(full)
    PROVE  AcceptanceInv'
<1> DEFINE waits == mayAsk /\ full /\ NeedsAcceptance(Produces[StepOf], current[2])
<1>0. PICK key : key = <<Produces[StepOf], current[2]>>
  OBVIOUS
<1>1. status \notin {"failed", "waiting_acceptance"}
  BY DEF AcceptanceInv
<1>2. /\ docs' = IF full THEN [docs EXCEPT ![key] = @ + 1] ELSE docs
      /\ clarified' = IF full /\ ~mayAsk THEN clarified \cup {key} ELSE clarified
      /\ agreed' = agreed /\ decisions' = decisions
  BY <1>0 DEF Passes, Stores
<1>3. docs' \in [Keys -> Nat] /\ agreed' \in [Keys -> Nat]
  <2>1. docs' = [docs EXCEPT ![key] = @ + 1] \/ docs' = docs
    BY <1>2
  <2>2. \A k \in Keys : docs[k] \in Nat /\ docs[k] + 1 \in Nat
    BY DEF AcceptanceInv
  <2>3. docs' \in [Keys -> Nat]
    BY <2>1, <2>2 DEF AcceptanceInv
  <2> QED
    BY <1>2, <2>3 DEF AcceptanceInv
<1>4. \A k \in Keys \ {key} : Covered(k)'
  BY <1>1, <1>2, <1>3 DEF AcceptanceInv, Covered
<1>5. \A k \in Keys : decisions'[k] # None => agreed'[k] > 0
  BY <1>1, <1>2 DEF AcceptanceInv
<1>6. CASE waits
  <2>1. status' = "waiting_acceptance" /\ pending' = key /\ at' = "caller"
    BY <1>0, <1>6 DEF Passes
  <2>2. key \in Keys => docs'[key] > 0
    <3>1. docs' = [docs EXCEPT ![key] = @ + 1]
      BY <1>2, <1>6
    <3> QED
      BY <3>1 DEF AcceptanceInv
  <2> QED
    BY <1>2, <1>3, <1>4, <1>5, <1>0, <2>1, <2>2 DEF AcceptanceInv
<1>7. CASE ~waits
  <2>1. status' = "running"
    BY <1>7 DEF Passes
  <2>2. ASSUME key \in Keys
        PROVE  Covered(key)'
    <3>1. CASE ~full
      BY <1>1, <1>2, <2>2, <3>1 DEF AcceptanceInv, Covered
    <3>2. CASE full /\ ~mayAsk
      BY <1>2, <3>2 DEF Covered
    <3>3. CASE full /\ mayAsk
      <4>1. Produces[StepOf] \in Guarded => decisions[key] # None
        BY <1>0, <1>7, <3>3 DEF NeedsAcceptance, DecisionKey
      <4>2. Produces[StepOf] \in Guarded => agreed'[key] > 0
        BY <1>1, <1>2, <2>2, <4>1 DEF AcceptanceInv
      <4>3. key[1] = Produces[StepOf]
        BY <1>0
      <4> QED
        BY <4>2, <4>3 DEF Covered
    <3> QED
      BY <3>1, <3>2, <3>3
  <2>3. \A k \in Keys : Covered(k)'
    BY <1>4, <2>2
  <2> QED
    BY <1>2, <1>3, <1>5, <2>1, <2>3 DEF AcceptanceInv
<1> QED
  BY <1>6, <1>7

LEMMA DecisionKeepsAcceptance ==
    ASSUME AcceptanceInv, ProcessAcceptance
    PROVE  AcceptanceInv'
<1>1. PICK accepted \in BOOLEAN :
        /\ decisions' = [decisions EXCEPT
                ![DecisionKey(pending[1], pending[2])] = accepted]
        /\ status' = IF accepted THEN "running" ELSE "failed"
        /\ at' = IF accepted THEN "loop" ELSE "caller"
        /\ pending' = IF accepted THEN None ELSE pending
        /\ agreed' = IF accepted THEN [agreed EXCEPT ![pending] = docs[pending]]
                     ELSE agreed
  BY DEF ProcessAcceptance
<1>2. status = "waiting_acceptance" /\ docs' = docs /\ clarified' = clarified
  BY DEF ProcessAcceptance
<1>3. DecisionKey(pending[1], pending[2]) = pending
  BY <1>2 DEF AcceptanceInv, DecisionKey
<1>4. /\ decisions' = [k \in Keys |-> decisions'[k]]
      /\ \A k \in Keys \ {pending} : decisions'[k] = decisions[k]
  BY <1>1, <1>3 DEF AcceptanceInv
<1>5. CASE ~accepted
  BY <1>1, <1>2, <1>4, <1>5 DEF AcceptanceInv
<1>6. CASE accepted
  <2>1. agreed' \in [Keys -> Nat]
    BY <1>1, <1>6 DEF AcceptanceInv
  <2>2. \A k \in Keys \ {pending} : agreed'[k] = agreed[k]
    BY <1>1, <1>6 DEF AcceptanceInv
  <2>3. pending \in Keys => agreed'[pending] > 0
    BY <1>1, <1>2, <1>6 DEF AcceptanceInv
  <2>4. \A k \in Keys : Covered(k)'
    BY <1>2, <2>2, <2>3 DEF AcceptanceInv, Covered
  <2>5. \A k \in Keys : decisions'[k] # None => agreed'[k] > 0
    BY <1>2, <1>4, <2>2, <2>3 DEF AcceptanceInv
  <2> QED
    BY <1>1, <1>2, <1>4, <1>6, <2>1, <2>4, <2>5 DEF AcceptanceInv
<1> QED
  BY <1>5, <1>6

LEMMA NextKeepsAcceptance == AcceptanceInv /\ [Next]_vars => AcceptanceInv'
<1> SUFFICES ASSUME AcceptanceInv, [Next]_vars PROVE AcceptanceInv'
  OBVIOUS
<1>1. ASSUME Start PROVE AcceptanceInv'
  BY <1>1, UnrelatedKeepsAcceptance DEF Start, Unrelated, pausing
<1>2. ASSUME ModelReplies PROVE AcceptanceInv'
  <2>1. at = "call" /\ status \notin {"failed", "waiting_acceptance"}
    BY <1>2 DEF ModelReplies, AcceptanceInv
  <2>2. ASSUME Asks PROVE AcceptanceInv'
    BY <2>1, <2>2, UnrelatedKeepsAcceptance DEF Asks, Unrelated
  <2>3. ASSUME Remediates PROVE AcceptanceInv'
    BY <2>1, <2>3, UnrelatedKeepsAcceptance DEF Remediates, Unrelated, pausing
  <2>4. ASSUME Fails PROVE AcceptanceInv'
    BY <2>1, <2>4, UnrelatedKeepsAcceptance DEF Fails, Unrelated, pausing
  <2> QED
    BY <1>2, <2>1, <2>2, <2>3, <2>4, PassesKeepsAcceptance DEF ModelReplies
<1>3. ASSUME NextStep PROVE AcceptanceInv'
  <2>1. status \notin {"failed", "waiting_acceptance"} /\ Unrelated
    BY <1>3 DEF NextStep, AcceptanceInv, Unrelated, pausing
  <2>2. \/ status' \notin {"failed", "waiting_acceptance"}
        \/ status' = "failed" /\ at' = "caller"
    BY <1>3, <2>1 DEF NextStep, Executes, Begins, EntersInstance
  <2> QED
    BY <2>1, <2>2, UnrelatedKeepsAcceptance
<1>4. ASSUME NextNested PROVE AcceptanceInv'
  <2>1. status \notin {"failed", "waiting_acceptance"} /\ Unrelated
    BY <1>4 DEF NextNested, AcceptanceInv, Unrelated, pausing
  <2>2. \/ status' \notin {"failed", "waiting_acceptance"}
        \/ status' = "failed" /\ at' = "caller"
    BY <1>4, <2>1 DEF NextNested, Executes, Begins, AdvancesInstance
  <2> QED
    BY <2>1, <2>2, UnrelatedKeepsAcceptance
<1>5. ASSUME ProcessClarification PROVE AcceptanceInv'
  BY <1>5, UnrelatedKeepsAcceptance
  DEF ProcessClarification, Begins, Unrelated, pausing
<1>6. ASSUME UNCHANGED vars PROVE AcceptanceInv'
  BY <1>6 DEF vars, pausing, history, AcceptanceInv, Covered
<1> QED
  BY <1>1, <1>2, <1>3, <1>4, <1>5, <1>6, DecisionKeepsAcceptance
  DEF Next, Runs, Answers

-------------------------------------------------------------------------------
(* The other properties of the runs, for plans whose sources come first        *)
(* (SourcesFirst): one inductive invariant says where the run is.              *)
Within(n, s) == s \in Iterations /\ n \in Range(Nested[s])

(* Where the run is: the step at work is the one due, or nested in it; in a    *)
(* scope, it is at the entity the progress points at, the nested steps before  *)
(* it done for that entity.                                                    *)
AtWork ==
    /\ Due \in Iterations /\ progress[Due] \in DOMAIN Items(Due)
    /\ current[2] = Items(Due)[progress[Due]]
    /\ \E p \in DOMAIN Nested[Due] :
          /\ Nested[Due][p] = StepOf
          /\ \A i \in DOMAIN Nested[Due] : i < p => <<Nested[Due][i], current[2]>> \in served

Calling ==
    at = "call" =>
        /\ Open # {} /\ current \in Steps \X (Entities \cup {Root})
        /\ current[2] = Root => StepOf = Due \/ (~mayAsk /\ Within(StepOf, Due))
        /\ current[2] # Root => AtWork
        /\ pending = None
        /\ IF mayAsk THEN asked = None /\ status = "running"
           ELSE asked = StepOf /\ status = "waiting_clarification" /\ current[2] = Root

Between ==
    /\ at = "nested" =>
          /\ Open # {} /\ current \in Steps \X Entities
          /\ AtWork /\ current \in served
    /\ at \in {"loop", "nested"} =>
          status = "running" /\ asked = None /\ pending = None

Waiting ==
    /\ status = "pending" => at = "caller" /\ asked = None /\ pending = None
    /\ status \in {"running", "completed"} => asked = None /\ pending = None
    /\ status = "waiting_acceptance" =>
          /\ at = "caller" /\ asked = None
          /\ pending \in Keys /\ docs[pending] > 0 /\ decisions[pending] = None
    /\ status = "waiting_clarification" =>
          /\ pending = None /\ asked \in Steps /\ Open # {}
          /\ asked = Due \/ Within(asked, Due)
          /\ at = "caller" => steps[asked].status = "clarifying"

(* How far an iteration is; once it has begun, what it goes over stays.        *)
Done(s, e) == \A n \in Range(Nested[s]) : <<n, e>> \in served
Begun(s) == s \in completed \/ progress[s] > 0

Served ==
    \A s \in Iterations :
        /\ s \notin completed => progress[s] <= Len(Items(s))
        /\ \A j \in DOMAIN Items(s) :
              j < progress[s] \/ s \in completed => Done(s, Items(s)[j])
        /\ Begun(s) => \A n \in Steps : Produces[n] = Source[s] => n \in completed

Kinds ==
    /\ TypeOK
    /\ collections \in [Range(Source) -> Collections \cup {<<>>}]
    /\ mayAsk \in BOOLEAN

RunInv == Kinds /\ Calling /\ Between /\ Waiting /\ Served

LEMMA DueIsOpen ==
    ASSUME Open # {}
    PROVE  /\ Min(Open) \in Open /\ Due \notin completed
           /\ \A j \in Open : Min(Open) <= j
           /\ \A j \in DOMAIN Plan : j < Min(Open) => Plan[j] \in completed
           /\ Due \in Steps \cup Iterations
<1>1. Open \subseteq DOMAIN Plan /\ DOMAIN Plan \subseteq Nat
  BY PlanAssumption, LenProperties DEF Open
<1>2. PICK i \in Open : \A j \in Open : ~ (<<j, i>> \in OpToRel(<, Nat))
  BY <1>1, WFMin, NatLessThanWellFounded, Zenon
<1>3. \A j \in Open : i <= j
  <2> TAKE j \in Open
  <2>1. ~ (<<j, i>> \in {ss \in Nat \X Nat : ss[1] < ss[2]})
    BY <1>2 DEF OpToRel
  <2>2. i \in Nat /\ j \in Nat
    BY <1>1
  <2> QED BY <2>1, <2>2
<1>4. Min(Open) \in Open /\ \A j \in Open : Min(Open) <= j
  BY <1>3 DEF Min
<1>5. \A j \in DOMAIN Plan : j < Min(Open) => Plan[j] \in completed
  BY <1>1, <1>4 DEF Open
<1>6. Due \in Steps \cup Iterations
  BY <1>1, <1>4, PlanAssumption, ElementOfSeq, LenProperties DEF Due
<1> QED BY <1>4, <1>5, <1>6 DEF Open, Due

LEMMA DueUnchanged ==
    ASSUME UNCHANGED completed PROVE Open' = Open /\ Due' = Due
BY DEF Open, Due

LEMMA DueStays ==
    ASSUME Open # {}, NEW s, s # Due, completed' = completed \cup {s}
    PROVE  Open' # {} /\ Due' = Due
<1> DEFINE i == Min(Open)
<1>1. i \in Open /\ DOMAIN Plan \subseteq Nat /\ Open' \subseteq Open /\ Open \subseteq DOMAIN Plan
  BY DueIsOpen, PlanAssumption, LenProperties DEF Open
<1>2. \A j \in Open : i <= j
  BY DueIsOpen
<1>3. i \in Open'
  BY <1>1 DEF Open, Due
<1>4. Min(Open') = i
  BY <1>1, <1>2, <1>3 DEF Min
<1> QED BY <1>3, <1>4 DEF Due

LEMMA ItemsAreEntities ==
    ASSUME Kinds, NEW s \in Iterations
    PROVE  /\ Items(s) \in Seq(Entities) /\ DOMAIN Items(s) = 1..Len(Items(s))
           /\ \A j \in DOMAIN Items(s) : Items(s)[j] \in Entities
<1>1. Source[s] \in Range(Source)
  BY PlanAssumption DEF Range
<1>2. Items(s) \in Collections \cup {<<>>}
  BY <1>1 DEF Kinds, Items
<1>3. \A c \in Collections : c \in Seq(Range(c)) /\ Range(c) \subseteq Entities
  BY PlanAssumption DEF Entities
<1>4. \A c \in Collections : c \in Seq(Entities)
  <2> TAKE c \in Collections
  <2>1. c \in Seq(Range(c)) /\ Range(c) \subseteq Entities
    BY <1>3
  <2> QED BY <2>1
<1>5. Items(s) \in Seq(Entities)
  BY <1>2, <1>4, EmptySeq
<1> QED BY <1>5, LenProperties, ElementOfSeq

LEMMA NestedAreSteps ==
    ASSUME NEW s \in Iterations
    PROVE  /\ Nested[s] \in Seq(Steps) /\ DOMAIN Nested[s] = 1..Len(Nested[s])
           /\ Len(Nested[s]) \in Nat /\ 1 \in DOMAIN Nested[s]
           /\ \A i \in DOMAIN Nested[s] : Nested[s][i] \in Steps
           /\ Range(Nested[s]) = {Nested[s][i] : i \in DOMAIN Nested[s]}
<1>1. Nested[s] \in Seq(Steps) /\ Nested[s] # <<>>
  BY PlanAssumption
<1>2. DOMAIN Nested[s] = 1..Len(Nested[s]) /\ Len(Nested[s]) \in Nat /\ Len(Nested[s]) # 0
  BY <1>1, LenProperties, EmptySeq
<1> QED BY <1>1, <1>2, ElementOfSeq DEF Range

(* What the actions share: a step that only changes how the run stands.        *)
Kept == UNCHANGED <<completed, progress, docs, collections, history>>

LEMMA KeptKeepsServed ==
    ASSUME Served, Kept
    PROVE  Served'
BY DueUnchanged DEF Served, Kept, Items, Done, Begun, history

LEMMA StoppedRuns ==
    ASSUME RunInv, Kinds', Kept, status' = "failed", at' = "caller"
    PROVE  RunInv'
<1>1. Served'
  BY KeptKeepsServed DEF RunInv
<1>2. Calling' /\ Between' /\ Waiting'
  BY DEF Calling, Between, Waiting
<1> QED BY <1>1, <1>2 DEF RunInv

LEMMA StepsKept ==
    ASSUME Kinds, current \in Steps \X (Entities \cup {Root}),
           NEW st \in StepStatuses, NEW n \in Nat, StepBecomes(st, n)
    PROVE  /\ steps' \in [Steps -> [status : StepStatuses, attempt : Nat]]
           /\ steps'[StepOf].status = st
BY DEF Kinds, TypeOK, StepBecomes, StepOf

(* Beginning a step, for whatever entity: it runs, or fails with the workflow. *)
LEMMA BeginsOne ==
    ASSUME Kinds, NEW s \in Steps, NEW scope \in Entities \cup {Root}, NEW n \in Nat,
           NEW ask \in BOOLEAN, Begins(s, scope, n, ask)
    PROVE  /\ steps' \in [Steps -> [status : StepStatuses, attempt : Nat]]
           /\ status' \in Statuses /\ at' \in {"caller", "call"}
           /\ current' \in (Steps \X (Entities \cup {Root})) \cup {None}
           /\ mayAsk' \in BOOLEAN
           /\ \/ /\ at' = "call" /\ current' = <<s, scope>> /\ mayAsk' = ask
                 /\ status' = status
              \/ at' = "caller" /\ status' = "failed"
<1>1. steps' \in [Steps -> [status : StepStatuses, attempt : Nat]]
  <2>1. PICK st \in {"executing", "failed"} :
           steps' = [steps EXCEPT ![s] = [status |-> st, attempt |-> n]]
    BY DEF Begins
  <2>2. [status |-> st, attempt |-> n] \in [status : StepStatuses, attempt : Nat]
    BY <2>1 DEF StepStatuses
  <2> QED BY <2>1, <2>2 DEF Kinds, TypeOK
<1>2. \/ /\ at' = "call" /\ current' = <<s, scope>> /\ mayAsk' = ask
         /\ status' = status
      \/ at' = "caller" /\ status' = "failed" /\ current' = current /\ mayAsk' = mayAsk
  BY DEF Begins
<1>3. <<s, scope>> \in Steps \X (Entities \cup {Root})
  OBVIOUS
<1> QED BY <1>1, <1>2, <1>3 DEF Kinds, TypeOK, Statuses

LEMMA AttemptCounts ==
    ASSUME Kinds, NEW s \in Steps
    PROVE  steps[s].attempt \in Nat /\ steps[s].attempt + 1 \in Nat
<1>1. steps[s] \in [status : StepStatuses, attempt : Nat]
  BY DEF Kinds, TypeOK
<1> QED BY <1>1

LEMMA AsksKeepsRun ==
    ASSUME RunInv, at = "call", Asks
    PROVE  RunInv'
<1>1. /\ Open # {} /\ current \in Steps \X (Entities \cup {Root}) /\ StepOf \in Steps
      /\ pending = None /\ asked = None
  BY DEF RunInv, Calling, Asks, StepOf
<1>2. StepOf = Due \/ Within(StepOf, Due)
  <2>1. CASE current[2] = Root
    BY <2>1 DEF RunInv, Calling
  <2>2. CASE current[2] # Root
    <3>1. AtWork
      BY <2>2 DEF RunInv, Calling
    <3> QED BY <3>1, NestedAreSteps DEF AtWork, Within
  <2> QED BY <2>1, <2>2
<1>3. Attempt \in Nat
  BY <1>1, AttemptCounts DEF RunInv, Attempt
<1>4. /\ steps' \in [Steps -> [status : StepStatuses, attempt : Nat]]
      /\ steps'[StepOf].status = "clarifying"
  BY <1>1, <1>3, StepsKept DEF RunInv, Asks, StepStatuses
<1>5. Kinds'
  BY <1>1, <1>4 DEF RunInv, Kinds, TypeOK, Asks, Statuses
<1>6. Served'
  BY KeptKeepsServed DEF RunInv, Asks, Kept
<1>7. Waiting'
  <2>1. Open' = Open /\ Due' = Due
    BY DueUnchanged DEF Asks
  <2> QED BY <1>1, <1>2, <1>4, <2>1 DEF Asks, Waiting, Within
<1>8. Calling' /\ Between'
  BY DEF Asks, Calling, Between
<1> QED BY <1>5, <1>6, <1>7, <1>8 DEF RunInv

LEMMA RemediatesKeepsRun ==
    ASSUME RunInv, at = "call", Remediates
    PROVE  RunInv'
<1>1. current \in Steps \X (Entities \cup {Root}) /\ StepOf \in Steps
  BY DEF RunInv, Calling, StepOf
<1>2. Attempt \in Nat /\ Attempt + 1 \in Nat
  BY <1>1, AttemptCounts DEF RunInv, Attempt
<1>3. steps' \in [Steps -> [status : StepStatuses, attempt : Nat]]
  BY <1>1, <1>2, StepsKept DEF RunInv, Remediates, StepStatuses
<1>4. Kinds'
  BY <1>3 DEF RunInv, Kinds, TypeOK, Remediates, pausing
<1>5. Served'
  BY KeptKeepsServed DEF RunInv, Remediates, Kept
<1>6. Open' = Open /\ Due' = Due
  BY DueUnchanged DEF Remediates
<1>7. AtWork' = AtWork
  BY <1>6 DEF Remediates, AtWork, Items, StepOf, history
<1>8. Calling'
  BY <1>6, <1>7 DEF RunInv, Remediates, Calling, Within, StepOf, pausing
<1>9. Between' /\ Waiting'
  BY <1>6 DEF RunInv, Remediates, Between, Waiting, Within, pausing
<1> QED BY <1>4, <1>5, <1>8, <1>9 DEF RunInv

LEMMA FailsKeepsRun ==
    ASSUME RunInv, at = "call", Fails
    PROVE  RunInv'
<1>1. current \in Steps \X (Entities \cup {Root}) /\ StepOf \in Steps
  BY DEF RunInv, Calling, StepOf
<1>2. Attempt \in Nat
  BY <1>1, AttemptCounts DEF RunInv, Attempt
<1>3. steps' \in [Steps -> [status : StepStatuses, attempt : Nat]]
  BY <1>1, <1>2, StepsKept DEF RunInv, Fails, StepStatuses
<1>4. Kinds'
  BY <1>3 DEF RunInv, Kinds, TypeOK, Fails, pausing, Statuses
<1> QED BY <1>4, StoppedRuns DEF Fails, Kept

LEMMA StartKeepsRun ==
    ASSUME RunInv, Start
    PROVE  RunInv'
<1>1. Kinds'
  BY DEF RunInv, Kinds, TypeOK, Start, pausing, Statuses
<1>2. Served'
  BY KeptKeepsServed DEF RunInv, Start, Kept
<1>3. Calling' /\ Between' /\ Waiting'
  BY DEF RunInv, Start, Calling, Between, Waiting, pausing
<1> QED BY <1>1, <1>2, <1>3 DEF RunInv

(* A person's decision is kept under the document it is on.                    *)
LEMMA ProcessAcceptanceKeepsRun ==
    ASSUME RunInv, ProcessAcceptance
    PROVE  RunInv'
<1>1. PICK accepted \in BOOLEAN :
        /\ decisions' = [decisions EXCEPT
                ![DecisionKey(pending[1], pending[2])] = accepted]
        /\ status' = IF accepted THEN "running" ELSE "failed"
        /\ at' = IF accepted THEN "loop" ELSE "caller"
        /\ pending' = IF accepted THEN None ELSE pending
        /\ asked' = IF accepted THEN None ELSE asked
  BY DEF ProcessAcceptance
<1>2. UNCHANGED <<completed, steps, progress, docs, collections, current, mayAsk,
                  clarified, served>>
  BY DEF ProcessAcceptance
<1>3. Kinds'
  <2>1. decisions' \in [Keys -> BOOLEAN \cup {None}]
    BY <1>1 DEF RunInv, Kinds, TypeOK
  <2>2. pending' \in Keys \cup {None} /\ asked' \in Steps \cup {None}
    BY <1>1 DEF RunInv, Kinds, TypeOK
  <2>3. status' \in Statuses /\ at' \in {"caller", "loop", "nested", "call"}
    BY <1>1 DEF Statuses
  <2> QED BY <1>2, <2>1, <2>2, <2>3 DEF RunInv, Kinds, TypeOK
<1>4. Served'
  BY <1>2 DEF RunInv, Served, Items, Done, Begun
<1>5. Calling' /\ Between' /\ Waiting'
  BY <1>1 DEF Calling, Between, Waiting
<1> QED BY <1>3, <1>4, <1>5 DEF RunInv

(* The answers: the step that asked goes on, outside any scope.                *)
LEMMA ProcessClarificationKeepsRun ==
    ASSUME RunInv, ProcessClarification
    PROVE  RunInv'
<1>1. /\ asked \in Steps /\ Open # {} /\ pending = None
      /\ asked = Due \/ Within(asked, Due)
  BY DEF RunInv, Waiting, ProcessClarification
<1>2. steps[asked].attempt \in Nat
  BY <1>1, AttemptCounts DEF RunInv
<1>3. /\ steps' \in [Steps -> [status : StepStatuses, attempt : Nat]]
      /\ status' \in Statuses /\ at' \in {"caller", "call"}
      /\ current' \in (Steps \X (Entities \cup {Root})) \cup {None}
      /\ mayAsk' \in BOOLEAN
      /\ \/ /\ at' = "call" /\ current' = <<asked, Root>> /\ mayAsk' = FALSE
            /\ status' = status
         \/ at' = "caller" /\ status' = "failed"
  BY <1>1, <1>2, BeginsOne DEF RunInv, ProcessClarification
<1>4. Kinds'
  BY <1>3 DEF RunInv, Kinds, TypeOK, ProcessClarification, pausing
<1>5. Kept
  BY DEF ProcessClarification, Kept
<1>6. CASE at' = "caller" /\ status' = "failed"
  BY <1>4, <1>5, <1>6, StoppedRuns
<1>7. CASE /\ at' = "call" /\ current' = <<asked, Root>> /\ mayAsk' = FALSE
           /\ status' = status
  <2>1. status' = "waiting_clarification" /\ asked' = asked /\ pending' = None
    BY <1>1, <1>7 DEF ProcessClarification, pausing
  <2>2. Open' = Open /\ Due' = Due
    BY DueUnchanged DEF ProcessClarification
  <2>3. StepOf' = asked /\ current'[2] = Root
    BY <1>7 DEF StepOf
  <2>4. Calling'
    BY <1>1, <1>7, <2>1, <2>2, <2>3 DEF Calling, Within
  <2>5. Between' /\ Waiting'
    BY <1>1, <1>7, <2>1, <2>2 DEF Between, Waiting, Within
  <2>6. Served'
    BY <1>5, KeptKeepsServed DEF RunInv
  <2> QED BY <1>4, <2>4, <2>5, <2>6 DEF RunInv
<1> QED BY <1>3, <1>6, <1>7

(* Whoever makes the source of an iteration works before the iteration begins. *)
LEMMA MakersWorkBefore ==
    ASSUME RunInv, SourcesFirst, at = "call", current[2] = Root,
           NEW s \in Iterations, Produces[StepOf] = Source[s]
    PROVE  ~Begun(s)
<1>1. StepOf \in Steps /\ Open # {}
  BY DEF RunInv, Calling, StepOf
<1>2. StepOf = Due
  BY <1>1 DEF RunInv, Calling, SourcesFirst, Within
<1>3. StepOf \notin completed
  BY <1>1, <1>2, DueIsOpen
<1> QED BY <1>1, <1>3 DEF RunInv, Served

LEMMA StoresKeepsItems ==
    ASSUME RunInv, SourcesFirst, at = "call", NEW full \in BOOLEAN,
           Stores(<<Produces[StepOf], current[2]>>, full)
    PROVE  /\ docs' \in [Keys -> Nat]
           /\ collections' \in [Range(Source) -> Collections \cup {<<>>}]
           /\ \A s \in Iterations : Begun(s) => Items(s)' = Items(s)
<1> DEFINE t == Produces[StepOf]
           key == <<t, current[2]>>
<1>1. docs' = [docs EXCEPT ![key] = @ + 1] \/ docs' = docs
  BY DEF Stores
<1>2. docs' \in [Keys -> Nat]
  <2>1. \A k \in Keys : docs[k] \in Nat /\ docs[k] + 1 \in Nat
    BY DEF RunInv, Kinds, TypeOK
  <2> QED BY <1>1, <2>1 DEF RunInv, Kinds, TypeOK
<1>3. DOMAIN collections = Range(Source)
  BY DEF RunInv, Kinds
<1>4. CASE t \in Range(Source) /\ current[2] = Root
           /\ \E c \in Collections : collections' = [collections EXCEPT ![t] = c]
  <2>1. PICK c \in Collections : collections' = [collections EXCEPT ![t] = c]
    BY <1>4
  <2>2. collections' \in [Range(Source) -> Collections \cup {<<>>}]
    BY <2>1 DEF RunInv, Kinds
  <2>3. \A s \in Iterations : Begun(s) => Source[s] # t
    BY <1>4, MakersWorkBefore
  <2>4. \A s \in Iterations : Begun(s) => Items(s)' = Items(s)
    BY <2>1, <2>3, <1>3 DEF Items
  <2> QED BY <1>2, <2>2, <2>4
<1>5. CASE UNCHANGED collections
  BY <1>2, <1>5 DEF RunInv, Kinds, Items
<1> QED
  <2>1. key[1] = t /\ key[2] = current[2]
    OBVIOUS
  <2> QED BY <1>3, <1>4, <1>5, <2>1 DEF Stores

(* Storing a document leaves what the iterations have done as it was.          *)
LEMMA StoresKeepsServed ==
    ASSUME RunInv, SourcesFirst, at = "call", NEW full \in BOOLEAN,
           Stores(<<Produces[StepOf], current[2]>>, full),
           NEW n \in Steps, completed' = completed \/ completed' = completed \cup {n},
           UNCHANGED progress, served \subseteq served'
    PROVE  Served'
<1>1. \A s \in Iterations : Begun(s) => Items(s)' = Items(s)
  BY StoresKeepsItems
<1>2. SUFFICES ASSUME NEW s \in Iterations
      PROVE  /\ s \notin completed' => progress'[s] <= Len(Items(s)')
             /\ \A j \in DOMAIN Items(s)' :
                   j < progress'[s] \/ s \in completed' => Done(s, Items(s)[j])'
             /\ Begun(s)' => \A m \in Steps : Produces[m] = Source[s] => m \in completed'
  BY DEF Served
<1>3. (s \in completed' <=> s \in completed) /\ progress'[s] = progress[s]
  BY PlanAssumption
<1>4. Begun(s)' <=> Begun(s)
  BY <1>3 DEF Begun
<1>5. CASE Begun(s)
  <2>1. Items(s)' = Items(s)
    BY <1>1, <1>5
  <2>2. \A j \in DOMAIN Items(s) : Done(s, Items(s)[j]) => Done(s, Items(s)[j])'
    BY <2>1 DEF Done
  <2> QED BY <1>3, <1>4, <2>1, <2>2 DEF RunInv, Served
<1>6. CASE ~Begun(s)
  <2>1. s \notin completed' /\ progress'[s] = 0
    BY <1>3, <1>6 DEF Begun, RunInv, Kinds, TypeOK
  <2>2. Source[s] \in Range(Source)
    BY PlanAssumption DEF Range
  <2>3. Items(s)' \in Collections \cup {<<>>}
    BY <2>2, StoresKeepsItems DEF Items
  <2>4. Len(Items(s)') \in Nat /\ DOMAIN (Items(s)') = 1..Len(Items(s)')
    <3>1. \A c \in Collections : Len(c) \in Nat /\ DOMAIN c = 1..Len(c)
      BY PlanAssumption, LenProperties
    <3>2. Len(<<>>) \in Nat /\ DOMAIN <<>> = 1..Len(<<>>)
      BY EmptySeq, LenProperties
    <3> QED BY <2>3, <3>1, <3>2
  <2> QED BY <1>4, <1>6, <2>1, <2>4
<1> QED BY <1>5, <1>6

LEMMA PassesKeepsRun ==
    ASSUME RunInv, SourcesFirst, at = "call", NEW full \in BOOLEAN, Passes(full)
    PROVE  RunInv'
<1> DEFINE scope == current[2]
           key == <<Produces[StepOf], scope>>
           waits == mayAsk /\ full /\ NeedsAcceptance(Produces[StepOf], scope)
<1>1. /\ Open # {} /\ current \in Steps \X (Entities \cup {Root}) /\ StepOf \in Steps
      /\ current = <<StepOf, scope>> /\ scope \in Entities \cup {Root}
      /\ pending = None
  BY DEF RunInv, Calling, StepOf
<1>2. /\ Stores(key, full) /\ StepBecomes("completed", Attempt)
      /\ UNCHANGED <<progress, decisions, current, mayAsk, agreed>>
  BY DEF Passes
<1>3. Attempt \in Nat
  BY <1>1, AttemptCounts DEF RunInv, Attempt
<1>4. steps' \in [Steps -> [status : StepStatuses, attempt : Nat]]
  <2>1. Kinds /\ "completed" \in StepStatuses /\ StepBecomes("completed", Attempt)
        /\ current \in Steps \X (Entities \cup {Root})
    BY <1>1, <1>2 DEF RunInv, StepStatuses
  <2> QED BY <1>3, <2>1, StepsKept, Zenon
<1>5. key \in Keys
  BY <1>1 DEF Keys, Types, Range, Steps
<1>6. /\ docs' \in [Keys -> Nat]
      /\ collections' \in [Range(Source) -> Collections \cup {<<>>}]
      /\ \A s \in Iterations : Begun(s) => Items(s)' = Items(s)
  BY <1>2, StoresKeepsItems
<1>7. CASE waits
  <2>1. /\ status' = "waiting_acceptance" /\ pending' = key /\ at' = "caller"
        /\ UNCHANGED <<completed, served, asked>>
    BY <1>7 DEF Passes
  <2>2. asked = None
    BY <1>7 DEF RunInv, Calling
  <2>3. decisions[key] = None
    BY <1>7 DEF NeedsAcceptance, DecisionKey
  <2>4. docs'[key] > 0
    <3>1. docs' = [docs EXCEPT ![key] = @ + 1]
      BY <1>2, <1>7 DEF Stores
    <3> QED BY <1>5, <3>1 DEF RunInv, Kinds, TypeOK
  <2>5. Kinds'
    BY <1>2, <1>4, <1>5, <1>6, <2>1 DEF RunInv, Kinds, TypeOK, Statuses
  <2>6. Served'
    BY <1>1, <1>2, <2>1, StoresKeepsServed
  <2>7. Calling' /\ Between' /\ Waiting'
    BY <1>2, <1>5, <2>1, <2>2, <2>3, <2>4 DEF Calling, Between, Waiting
  <2> QED BY <2>5, <2>6, <2>7 DEF RunInv
<1>8. CASE ~waits
  <2>1. /\ completed' = completed \cup {StepOf}
        /\ served' = IF scope = Root THEN served ELSE served \cup {current}
        /\ at' = IF scope = Root THEN "loop" ELSE "nested"
        /\ asked' = AskedAfter
        /\ status' = "running" /\ pending' = None
    BY <1>1, <1>8 DEF Passes, MarksComplete
  <2>2. asked' = None
    BY <2>1 DEF AskedAfter, RunInv, Calling
  <2>3. Kinds'
    <3>1. completed' \subseteq Steps \cup Iterations
      BY <1>1, <2>1 DEF RunInv, Kinds, TypeOK
    <3> QED
      BY <1>2, <1>4, <1>6, <2>1, <2>2, <3>1 DEF RunInv, Kinds, TypeOK, Statuses
  <2>4. Served'
    BY <1>1, <1>2, <2>1, StoresKeepsServed
  <2>5. Calling' /\ Waiting'
    BY <2>1, <2>2 DEF Calling, Waiting
  <2>6. CASE scope = Root
    BY <2>1, <2>2, <2>3, <2>4, <2>5, <2>6 DEF Between, RunInv
  <2>7. CASE scope # Root
    <3>1. AtWork
      BY <2>7 DEF RunInv, Calling
    <3>2. Due # StepOf
      BY <1>1, <3>1, PlanAssumption DEF AtWork
    <3>3. Open' # {} /\ Due' = Due
      BY <1>1, <2>1, <3>2, DueStays
    <3>4. Items(Due)' = Items(Due)
      <4>1. progress[Due] > 0
        BY <3>1, ItemsAreEntities DEF AtWork, RunInv
      <4>2. Begun(Due) /\ Due \in Iterations
        BY <3>1, <4>1 DEF Begun, AtWork
      <4>3. \A s \in Iterations : s = Due => Items(s)' = Items(s)
        BY <1>6, <4>2
      <4> QED BY <3>3, <4>2, <4>3 DEF Items
    <3>5. AtWork'
      <4>1. StepOf' = StepOf
        BY <1>2 DEF StepOf
      <4> QED BY <1>2, <2>1, <2>7, <3>1, <3>3, <3>4, <4>1 DEF AtWork
    <3>6. current' \in Steps \X Entities /\ current' \in served'
      BY <1>1, <1>2, <2>1, <2>7
    <3>7. Between'
      BY <2>1, <2>2, <2>7, <3>3, <3>5, <3>6 DEF Between
    <3> QED BY <2>3, <2>4, <2>5, <3>7 DEF RunInv
  <2> QED BY <2>6, <2>7
<1> QED BY <1>7, <1>8

(* The executor comes to a step whose turn it is: its makers are all done.     *)
LEMMA MakersDone ==
    ASSUME SourcesFirst, Open # {}, Due \in Iterations, NEW n \in Steps,
           Produces[n] = Source[Due]
    PROVE  n \in completed
<1>1. Min(Open) \in DOMAIN Plan /\ Plan[Min(Open)] = Due
  BY DueIsOpen DEF Open, Due
<1>2. PICK j \in DOMAIN Plan : j < Min(Open) /\ Plan[j] = n
  BY <1>1 DEF SourcesFirst
<1> QED BY <1>2, DueIsOpen

(* A nested step begins for the entity at which the progress is, those before  *)
(* it being done.                                                              *)
LEMMA NestedBegins ==
    ASSUME RunInv, Kinds', Served', Open # {}, Due \in Iterations,
           UNCHANGED <<completed, pausing, docs, collections, history>>,
           status = "running", asked = None, pending = None,
           progress'[Due] \in DOMAIN Items(Due),
           NEW p \in DOMAIN Nested[Due],
           \A i \in DOMAIN Nested[Due] :
               i < p => <<Nested[Due][i], Items(Due)[progress'[Due]]>> \in served,
           Executes(Nested[Due][p], Items(Due)[progress'[Due]])
    PROVE  RunInv'
<1> DEFINE e == Items(Due)[progress'[Due]]
           n == Nested[Due][p]
<1>1. e \in Entities /\ n \in Steps /\ e # Root
  BY ItemsAreEntities, NestedAreSteps, PlanAssumption DEF RunInv
<1>2. steps[n].attempt + 1 \in Nat
  BY <1>1, AttemptCounts DEF RunInv
<1>3. \/ /\ at' = "call" /\ current' = <<n, e>> /\ mayAsk' = TRUE
         /\ status' = status
      \/ at' = "caller" /\ status' = "failed"
  BY DEF Executes, Begins
<1>4. CASE at' = "caller" /\ status' = "failed"
  <2>1. Calling' /\ Between' /\ Waiting'
    BY <1>4 DEF Calling, Between, Waiting
  <2> QED BY <2>1 DEF RunInv
<1>5. CASE /\ at' = "call" /\ current' = <<n, e>> /\ mayAsk' = TRUE
           /\ status' = status
  <2>1. Open' = Open /\ Due' = Due /\ Items(Due)' = Items(Due)
    <3>1. Open' = Open /\ Due' = Due
      BY DueUnchanged
    <3> QED BY <3>1 DEF Items
  <2>2. StepOf' = n /\ current'[2] = e
    BY <1>5 DEF StepOf
  <2>3. AtWork'
    BY <2>1, <2>2 DEF AtWork, history
  <2>4. Calling'
    BY <1>1, <1>5, <2>1, <2>2, <2>3 DEF Calling, pausing
  <2>5. Between' /\ Waiting'
    BY <1>5 DEF Between, Waiting, pausing
  <2> QED BY <2>4, <2>5 DEF RunInv
<1> QED BY <1>3, <1>4, <1>5

(* The kinds after a step of the run, from what Executes gives.                *)
LEMMA ExecutesKeepsKinds ==
    ASSUME Kinds, NEW s \in Steps, NEW scope \in Entities \cup {Root},
           Executes(s, scope), completed' \subseteq Steps \cup Iterations,
           progress' \in [Iterations -> Nat],
           UNCHANGED <<pausing, docs, collections>>
    PROVE  Kinds'
<1>1. steps[s].attempt + 1 \in Nat
  BY AttemptCounts
<1>2. /\ steps' \in [Steps -> [status : StepStatuses, attempt : Nat]]
      /\ status' \in Statuses /\ at' \in {"caller", "call"}
      /\ current' \in (Steps \X (Entities \cup {Root})) \cup {None}
      /\ mayAsk' \in BOOLEAN
  <2>1. Begins(s, scope, steps[s].attempt + 1, TRUE)
    BY DEF Executes
  <2> QED BY <1>1, <2>1, BeginsOne, Zenon
<1> QED BY <1>2 DEF Kinds, TypeOK, pausing

LEMMA NextStepKeepsRun ==
    ASSUME RunInv, SourcesFirst, NextStep
    PROVE  RunInv'
<1>1. /\ at = "loop" /\ status = "running" /\ asked = None /\ pending = None
      /\ UNCHANGED <<pausing, docs, collections, history>>
  BY DEF RunInv, Between, NextStep
<1>2. \A s : Items(s)' = Items(s) /\ \A e : Done(s, e)' = Done(s, e)
  BY <1>1 DEF Items, Done, history
<1>3. CASE Open = {}
  <2>1. /\ status' = "completed" /\ at' = "caller"
        /\ UNCHANGED <<completed, steps, progress, current, mayAsk>>
    BY <1>3 DEF NextStep
  <2>2. Kinds'
    BY <1>1, <2>1 DEF RunInv, Kinds, TypeOK, Statuses, pausing
  <2>3. Served'
    BY <1>1, <2>1, KeptKeepsServed DEF Kept, RunInv
  <2>4. Calling' /\ Between' /\ Waiting'
    BY <1>1, <2>1 DEF Calling, Between, Waiting, pausing
  <2> QED BY <2>2, <2>3, <2>4 DEF RunInv
<1>4. CASE Open # {} /\ Due \in Steps
  <2>1. Executes(Due, Root) /\ UNCHANGED <<completed, progress>>
    BY <1>4, PlanAssumption DEF NextStep, EntersInstance
  <2>2. Kinds'
    BY <1>1, <1>4, <2>1, ExecutesKeepsKinds DEF RunInv, Kinds, TypeOK
  <2>3. Kept
    BY <1>1, <2>1 DEF Kept
  <2>4. \/ /\ at' = "call" /\ current' = <<Due, Root>> /\ mayAsk' = TRUE
           /\ status' = status
        \/ at' = "caller" /\ status' = "failed"
    BY <2>1 DEF Executes, Begins
  <2>5. CASE at' = "caller" /\ status' = "failed"
    BY <2>2, <2>3, <2>5, StoppedRuns
  <2>6. CASE /\ at' = "call" /\ current' = <<Due, Root>> /\ mayAsk' = TRUE
             /\ status' = status
    <3>1. Open' = Open /\ Due' = Due
      BY <2>1, DueUnchanged
    <3>2. StepOf' = Due /\ current'[2] = Root
      BY <2>6 DEF StepOf
    <3>3. Calling'
      BY <1>1, <1>4, <2>6, <3>1, <3>2 DEF Calling, pausing
    <3>4. Between' /\ Waiting'
      BY <1>1, <2>6 DEF Between, Waiting, pausing
    <3>5. Served'
      BY <2>3, KeptKeepsServed DEF RunInv
    <3> QED BY <2>2, <3>3, <3>4, <3>5 DEF RunInv
  <2> QED BY <2>4, <2>5, <2>6
<1>5. CASE Open # {} /\ Due \in Iterations
  <2>0. /\ Due \notin completed
        /\ \A n \in Steps : Produces[n] = Source[Due] => n \in completed
    BY <1>5, DueIsOpen, MakersDone
  <2>1. CASE Items(Due) = <<>>
    <3>1. /\ completed' = completed \cup {Due}
          /\ UNCHANGED <<status, steps, progress, at, current, mayAsk>>
      BY <1>5, <2>1, PlanAssumption DEF NextStep, MarksComplete
    <3>2. Kinds'
      BY <1>1, <1>5, <3>1 DEF RunInv, Kinds, TypeOK, pausing
    <3>3. Served'
      <4> SUFFICES ASSUME NEW s \in Iterations
          PROVE  /\ s \notin completed' => progress'[s] <= Len(Items(s)')
                 /\ \A j \in DOMAIN Items(s)' :
                       j < progress'[s] \/ s \in completed' => Done(s, Items(s)[j])'
                 /\ Begun(s)' => \A m \in Steps :
                       Produces[m] = Source[s] => m \in completed'
        BY DEF Served
      <4>1. CASE s = Due
        <5>1. DOMAIN Items(s) = {}
          BY <2>1, <4>1
        <5> QED BY <1>2, <2>0, <3>1, <4>1, <5>1
      <4>2. CASE s # Due
        <5>1. (s \in completed' <=> s \in completed) /\ (Begun(s)' <=> Begun(s))
          BY <3>1, <4>2 DEF Begun
        <5>2. \A j \in DOMAIN Items(s) : Done(s, Items(s)[j])' = Done(s, Items(s)[j])
          BY <1>2 DEF Done
        <5> QED BY <1>2, <3>1, <5>1, <5>2 DEF RunInv, Served
      <4> QED BY <4>1, <4>2
    <3>4. Calling' /\ Between' /\ Waiting'
      BY <1>1, <3>1 DEF Calling, Between, Waiting, pausing
    <3> QED BY <3>2, <3>3, <3>4 DEF RunInv
  <2>2. CASE Items(Due) # <<>>
    <3>1. EntersInstance(Due) /\ UNCHANGED completed
      BY <1>5, <2>2, PlanAssumption DEF NextStep, EntersInstance
    <3>2. /\ progress' = [progress EXCEPT ![Due] = IF @ = 0 THEN 1 ELSE @]
          /\ Executes(Nested[Due][1], Items(Due)[progress'[Due]])
      BY <3>1 DEF EntersInstance
    <3>3. /\ Len(Items(Due)) \in Nat /\ DOMAIN Items(Due) = 1..Len(Items(Due))
          /\ Len(Items(Due)) # 0
      BY <1>5, <2>2, ItemsAreEntities, EmptySeq, LenProperties DEF RunInv
    <3>4. progress[Due] \in Nat /\ progress[Due] <= Len(Items(Due))
      BY <1>5, <2>0 DEF RunInv, Kinds, TypeOK, Served
    <3>5. /\ progress'[Due] = IF progress[Due] = 0 THEN 1 ELSE progress[Due]
          /\ progress' \in [Iterations -> Nat]
          /\ \A s \in Iterations \ {Due} : progress'[s] = progress[s]
      BY <1>5, <3>2, <3>4 DEF RunInv, Kinds, TypeOK
    <3>6. progress'[Due] \in DOMAIN Items(Due)
      BY <3>3, <3>4, <3>5
    <3>7. Kinds'
      <4>1. Nested[Due][1] \in Steps /\ Items(Due)[progress'[Due]] \in Entities
        BY <1>5, <3>6, NestedAreSteps, ItemsAreEntities DEF RunInv
      <4> QED BY <1>1, <3>1, <3>2, <3>5, <4>1, ExecutesKeepsKinds
              DEF RunInv, Kinds, TypeOK
    <3>8. Served'
      <4> SUFFICES ASSUME NEW s \in Iterations
          PROVE  /\ s \notin completed' => progress'[s] <= Len(Items(s)')
                 /\ \A j \in DOMAIN Items(s)' :
                       j < progress'[s] \/ s \in completed' => Done(s, Items(s)[j])'
                 /\ Begun(s)' => \A m \in Steps :
                       Produces[m] = Source[s] => m \in completed'
        BY DEF Served
      <4>0. \A j \in DOMAIN Items(s) : Done(s, Items(s)[j])' = Done(s, Items(s)[j])
        BY <1>2 DEF Done
      <4>1. CASE s = Due
        <5>1. \A j \in DOMAIN Items(Due) : j < progress'[Due] => j < progress[Due]
          BY <3>3, <3>4, <3>5
        <5>2. progress'[Due] <= Len(Items(Due))
          BY <3>3, <3>6
        <5> QED BY <1>2, <1>5, <2>0, <3>1, <4>0, <4>1, <5>1, <5>2 DEF RunInv, Served
      <4>2. CASE s # Due
        <5>1. Begun(s)' <=> Begun(s)
          BY <3>1, <3>5, <4>2 DEF Begun
        <5> QED BY <1>2, <3>1, <3>5, <4>0, <4>2, <5>1 DEF RunInv, Served
      <4> QED BY <4>1, <4>2
    <3>9. 1 \in DOMAIN Nested[Due] /\ \A i \in DOMAIN Nested[Due] : ~(i < 1)
      BY <1>5, NestedAreSteps
    <3> QED BY <1>1, <1>5, <3>1, <3>2, <3>6, <3>7, <3>8, <3>9, NestedBegins
  <2> QED BY <2>1, <2>2
<1> QED BY <1>3, <1>4, <1>5, DueIsOpen

(* The run goes on past a nested step: the next one, the next entity, or on.   *)
LEMMA NextNestedKeepsRun ==
    ASSUME RunInv, SourcesFirst, NextNested
    PROVE  RunInv'
<1> DEFINE e == Items(Due)[progress[Due]]
           done == CHOOSE i \in DOMAIN Nested[Due] : Nested[Due][i] = StepOf
<1>1. /\ at = "nested" /\ status = "running" /\ asked = None /\ pending = None
      /\ Open # {} /\ AtWork /\ current \in served
      /\ current \in Steps \X Entities
      /\ UNCHANGED <<pausing, docs, collections, history>>
  BY DEF RunInv, Between, NextNested
<1>2. /\ Due \in Iterations /\ progress[Due] \in DOMAIN Items(Due)
      /\ current[2] = e /\ current = <<StepOf, e>> /\ e \in Entities
  BY <1>1 DEF AtWork, StepOf
<1>3. /\ Len(Items(Due)) \in Nat /\ DOMAIN Items(Due) = 1..Len(Items(Due))
      /\ progress[Due] \in Nat /\ progress \in [Iterations -> Nat]
      /\ Due \notin completed
      /\ \A n \in Steps : Produces[n] = Source[Due] => n \in completed
  <2>1. Items(Due) \in Seq(Entities)
    BY <1>2, ItemsAreEntities DEF RunInv
  <2>2. Len(Items(Due)) \in Nat /\ DOMAIN Items(Due) = 1..Len(Items(Due))
    BY <2>1, LenProperties
  <2> QED BY <1>1, <1>2, <2>2, DueIsOpen, MakersDone DEF RunInv, Kinds, TypeOK
<1>4. PICK p \in DOMAIN Nested[Due] :
         /\ Nested[Due][p] = StepOf
         /\ \A i \in DOMAIN Nested[Due] : i < p => <<Nested[Due][i], e>> \in served
  BY <1>1, <1>2 DEF AtWork
<1>5. done = p
  <2>1. done \in DOMAIN Nested[Due] /\ Nested[Due][done] = StepOf
    BY <1>4
  <2>2. \A i, j \in DOMAIN Nested[Due] : Nested[Due][i] = Nested[Due][j] => i = j
    BY <1>2, PlanAssumption DEF IsInjective
  <2> QED BY <1>4, <2>1, <2>2
<1>6. \A i \in DOMAIN Nested[Due] : i <= p => <<Nested[Due][i], e>> \in served
  <2>1. \A i \in DOMAIN Nested[Due] : i <= p => i < p \/ i = p
    BY <1>2, NestedAreSteps
  <2>2. <<Nested[Due][p], e>> \in served
    BY <1>1, <1>2, <1>4
  <2> QED BY <1>4, <2>1, <2>2
<1>7. /\ DOMAIN Nested[Due] = 1..Len(Nested[Due]) /\ Len(Nested[Due]) \in Nat
      /\ p \in 1..Len(Nested[Due])
  BY <1>2, <1>4, NestedAreSteps
<1>8. \A s \in Iterations : \A j \in DOMAIN Items(s) :
         /\ Items(s)' = Items(s) /\ Done(s, Items(s)[j])' = Done(s, Items(s)[j])
  BY <1>1 DEF Items, Done, history
<1>9. \/ /\ done < Len(Nested[Due]) /\ UNCHANGED <<completed, progress>>
         /\ Executes(Nested[Due][done + 1], current[2])
      \/ done = Len(Nested[Due]) /\ AdvancesInstance(Due)
  BY Zenon DEF NextNested
<1> HIDE DEF done
<1>10. \/ /\ p < Len(Nested[Due]) /\ UNCHANGED <<completed, progress>>
          /\ Executes(Nested[Due][p + 1], e)
       \/ p = Len(Nested[Due]) /\ AdvancesInstance(Due)
  BY <1>2, <1>5, <1>9
<1>11. CASE /\ p < Len(Nested[Due]) /\ UNCHANGED <<completed, progress>>
            /\ Executes(Nested[Due][p + 1], e)
  <2>1. p + 1 \in DOMAIN Nested[Due] /\ Nested[Due][p + 1] \in Steps
    BY <1>2, <1>7, <1>11, NestedAreSteps
  <2>2. Kinds'
    BY <1>1, <1>2, <1>11, <2>1, ExecutesKeepsKinds DEF RunInv, Kinds, TypeOK
  <2>3. Served'
    BY <1>1, <1>11, KeptKeepsServed DEF Kept, RunInv
  <2>4. \A i \in DOMAIN Nested[Due] : i < p + 1 => <<Nested[Due][i], e>> \in served
    BY <1>6, <1>7
  <2>5. progress'[Due] = progress[Due]
    BY <1>11
  <2>6. /\ progress'[Due] \in DOMAIN Items(Due)
        /\ Executes(Nested[Due][p + 1], Items(Due)[progress'[Due]])
        /\ \A i \in DOMAIN Nested[Due] :
               i < p + 1 => <<Nested[Due][i], Items(Due)[progress'[Due]]>> \in served
    BY <1>2, <1>11, <2>4, <2>5
  <2>7. UNCHANGED <<completed, pausing, docs, collections, history>>
    BY <1>1, <1>11
  <2> QED BY <1>1, <1>2, <2>1, <2>2, <2>3, <2>6, <2>7, NestedBegins
<1>12. CASE p = Len(Nested[Due]) /\ AdvancesInstance(Due)
  <2>1. AdvancesInstance(Due)
    BY <1>12
  <2>2. Done(Due, e)
    <3>1. \A i \in DOMAIN Nested[Due] : <<Nested[Due][i], e>> \in served
      BY <1>6, <1>7, <1>12
    <3>2. Range(Nested[Due]) = {Nested[Due][i] : i \in DOMAIN Nested[Due]}
      BY DEF Range
    <3> QED BY <3>1, <3>2 DEF Done
  <2>3. /\ progress' = [progress EXCEPT ![Due] = progress[Due] + 1]
        /\ progress' \in [Iterations -> Nat]
        /\ progress'[Due] = progress[Due] + 1
        /\ \A s \in Iterations \ {Due} : progress'[s] = progress[s]
    BY <1>2, <1>3, <2>1 DEF AdvancesInstance
  <2>4. \A j \in DOMAIN Items(Due) : j < progress[Due] + 1 => Done(Due, Items(Due)[j])
    <3>1. \A j \in DOMAIN Items(Due) :
             j < progress[Due] + 1 => j < progress[Due] \/ j = progress[Due]
      BY <1>3
    <3>2. \A j \in DOMAIN Items(Due) : j < progress[Due] => Done(Due, Items(Due)[j])
      BY <1>2 DEF RunInv, Served
    <3> QED BY <2>2, <3>1, <3>2
  <2>5. ASSUME \/ completed' = completed /\ progress[Due] < Len(Items(Due))
               \/ completed' = completed \cup {Due} /\ progress[Due] >= Len(Items(Due))
        PROVE  Served'
    <3> SUFFICES ASSUME NEW s \in Iterations
        PROVE  /\ s \notin completed' => progress'[s] <= Len(Items(s)')
               /\ \A j \in DOMAIN Items(s)' :
                     j < progress'[s] \/ s \in completed' => Done(s, Items(s)[j])'
               /\ Begun(s)' => \A m \in Steps :
                     Produces[m] = Source[s] => m \in completed'
      BY DEF Served
    <3>0. Items(s)' = Items(s)
      BY <1>1 DEF Items
    <3>1. CASE s = Due
      <4>1. s \notin completed' => progress[Due] + 1 <= Len(Items(Due))
        BY <1>2, <1>3, <2>5, <3>1
      <4>2. \A j \in DOMAIN Items(Due) :
               j < progress'[Due] \/ Due \in completed' => j < progress[Due] + 1
        BY <1>3, <2>3, <2>5
      <4>3. \A j \in DOMAIN Items(s) :
               j < progress'[s] \/ s \in completed' => Done(s, Items(s)[j])'
        BY <1>8, <2>4, <3>1, <4>2
      <4> QED BY <1>3, <2>3, <2>5, <3>0, <3>1, <4>1, <4>3
    <3>2. CASE s # Due
      <4>1. /\ s \in completed' <=> s \in completed
            /\ progress'[s] = progress[s] /\ (Begun(s)' <=> Begun(s))
        BY <2>3, <2>5, <3>2 DEF Begun
      <4> QED BY <1>8, <2>5, <3>0, <4>1 DEF RunInv, Served
    <3> QED BY <3>1, <3>2
  <2>6. CASE ~IsLast(Due)
    <3>1. /\ Executes(Nested[Due][1], Items(Due)[progress[Due] + 1])
          /\ completed' = completed
      BY <2>1, <2>6 DEF AdvancesInstance
    <3>2. progress[Due] < Len(Items(Due)) /\ progress[Due] + 1 \in DOMAIN Items(Due)
      BY <1>2, <1>3, <2>6 DEF IsLast
    <3>3. Served'
      BY <2>5, <3>1, <3>2
    <3>4. 1 \in DOMAIN Nested[Due] /\ \A i \in DOMAIN Nested[Due] : ~(i < 1)
      BY <1>7
    <3>5. /\ Nested[Due][1] \in Steps
          /\ Items(Due)[progress[Due] + 1] \in Entities \cup {Root}
      BY <1>2, <3>2, <3>4, NestedAreSteps, ItemsAreEntities DEF RunInv
    <3>6. Kinds'
      BY <1>1, <2>3, <3>1, <3>5, ExecutesKeepsKinds DEF RunInv, Kinds, TypeOK
    <3> QED BY <1>1, <1>2, <2>3, <3>1, <3>2, <3>3, <3>4, <3>6, NestedBegins
  <2>7. CASE IsLast(Due)
    <3>1. /\ completed' = completed \cup {Due} /\ at' = "loop"
          /\ UNCHANGED <<status, steps, current, mayAsk>>
      BY <2>1, <2>7 DEF AdvancesInstance, MarksComplete
    <3>2. Served'
      BY <2>5, <2>7, <3>1 DEF IsLast
    <3>3. Kinds'
      BY <1>1, <1>2, <2>3, <3>1 DEF RunInv, Kinds, TypeOK, pausing
    <3>4. Calling' /\ Between' /\ Waiting'
      BY <1>1, <3>1 DEF Calling, Between, Waiting, pausing
    <3> QED BY <3>2, <3>3, <3>4 DEF RunInv
  <2> QED BY <2>6, <2>7
<1> QED BY <1>10, <1>11, <1>12

LEMMA RunInitially == Init => RunInv
<1> SUFFICES ASSUME Init PROVE RunInv
  OBVIOUS
<1>1. steps \in [Steps -> [status : StepStatuses, attempt : Nat]]
  BY DEF Init, StepStatuses
<1>2. Kinds
  BY <1>1 DEF Init, Kinds, TypeOK, Statuses
<1>3. Served
  <2>1. \A s \in Iterations :
           Items(s) = <<>> /\ DOMAIN Items(s) = {} /\ Len(Items(s)) = 0
    <3>1. \A s \in Iterations : Source[s] \in Range(Source)
      BY PlanAssumption DEF Range
    <3> QED BY <3>1, EmptySeq DEF Init, Items
  <2> QED BY <2>1 DEF Init, Served, Begun
<1>4. Calling /\ Between /\ Waiting
  BY DEF Init, Calling, Between, Waiting
<1> QED BY <1>2, <1>3, <1>4 DEF RunInv

LEMMA NextKeepsRun == ASSUME SourcesFirst PROVE RunInv /\ [Next]_vars => RunInv'
<1> SUFFICES ASSUME RunInv, [Next]_vars PROVE RunInv'
  OBVIOUS
<1>1. CASE ModelReplies
  BY <1>1, AsksKeepsRun, RemediatesKeepsRun, FailsKeepsRun, PassesKeepsRun
  DEF ModelReplies
<1>2. CASE UNCHANGED vars
  <2>1. Open' = Open /\ Due' = Due
    BY <1>2, DueUnchanged DEF vars
  <2>2. Kinds' /\ Served'
    BY <1>2 DEF vars, pausing, history, RunInv, Kinds, TypeOK, Served, Items, Done, Begun
  <2>3. AtWork' = AtWork
    BY <1>2, <2>1 DEF vars, history, AtWork, Items, StepOf
  <2>4. Calling' /\ Between' /\ Waiting'
    BY <1>2, <2>1, <2>3 DEF vars, pausing, history, RunInv, Calling, Between, Waiting,
                            Within, StepOf
  <2> QED BY <2>2, <2>4 DEF RunInv
<1> QED
  BY <1>1, <1>2, StartKeepsRun, NextStepKeepsRun, NextNestedKeepsRun,
     ProcessAcceptanceKeepsRun, ProcessClarificationKeepsRun
  DEF Next, Runs, Answers

LEMMA RunsKeepTheirInvariant == ASSUME SourcesFirst PROVE Spec => []RunInv
BY RunInitially, NextKeepsRun, PTL DEF Spec

(* How far a document outside the iterations is ahead of its acceptance: by    *)
(* the draft that is waited for, or by the one its complete step made last.    *)
RootKey(s) == <<Produces[s], Root>>

Redraft(s) ==
    Produces[s] \in Guarded /\ RootKey(s) \notin clarified =>
        /\ docs[RootKey(s)] <= agreed[RootKey(s)] + 1
        /\ \/ docs[RootKey(s)] = agreed[RootKey(s)]
           \/ s \in completed
           \/ status = "waiting_acceptance" /\ pending = RootKey(s)

Redrafts == status # "failed" => \A s \in Steps : Redraft(s)

LEMMA RedraftsInitially == Init => Redrafts
<1> SUFFICES ASSUME Init, NEW s \in Steps PROVE Redraft(s)
  BY DEF Redrafts
<1>1. RootKey(s) \in Keys
  BY DEF RootKey, Keys, Types, Range, Steps
<1> QED BY <1>1 DEF Init, Redraft

LEMMA UnrelatedKeepsRedrafts ==
    ASSUME Redrafts, UNCHANGED <<docs, history>>, completed \subseteq completed',
           status \notin {"failed", "waiting_acceptance"}
    PROVE  Redrafts'
BY DEF Redrafts, Redraft, RootKey, history

(* A draft outside the iterations is of the step that is due, which is open.   *)
LEMMA PassesKeepsRedrafts ==
    ASSUME RunInv, AcceptanceInv, Redrafts, MadeByOne, at = "call",
           NEW full \in BOOLEAN, Passes(full)
    PROVE  Redrafts'
<1> DEFINE key == <<Produces[StepOf], current[2]>>
           waits == mayAsk /\ full /\ NeedsAcceptance(Produces[StepOf], current[2])
<1> SUFFICES ASSUME NEW s \in Steps PROVE Redraft(s)'
  BY DEF Redrafts
<1>1. /\ Open # {} /\ current \in Steps \X (Entities \cup {Root}) /\ StepOf \in Steps
      /\ status \notin {"failed", "waiting_acceptance"} /\ Redraft(s)
  BY DEF RunInv, Calling, AcceptanceInv, Redrafts, StepOf
<1>2. /\ docs' = IF full THEN [docs EXCEPT ![key] = @ + 1] ELSE docs
      /\ clarified' = IF full /\ ~mayAsk THEN clarified \cup {key} ELSE clarified
      /\ agreed' = agreed
      /\ \/ waits /\ status' = "waiting_acceptance" /\ pending' = key
               /\ completed' = completed
         \/ completed' = completed \cup {StepOf}
  BY DEF Passes, Stores, MarksComplete
<1>3. RootKey(s) \in Keys /\ docs \in [Keys -> Nat] /\ agreed \in [Keys -> Nat]
  BY DEF RootKey, Keys, Types, Range, Steps, AcceptanceInv
<1>4. RootKey(s)' = RootKey(s)
  BY DEF RootKey
<1>5. CASE docs'[RootKey(s)] = docs[RootKey(s)]
  BY <1>1, <1>2, <1>4, <1>5 DEF Redraft
<1>6. CASE docs'[RootKey(s)] # docs[RootKey(s)]
  <2>1. full /\ key = RootKey(s) /\ docs'[RootKey(s)] = docs[RootKey(s)] + 1
    BY <1>2, <1>3, <1>6
  <2>2. current[2] = Root /\ Produces[StepOf] = Produces[s]
    BY <2>1 DEF RootKey
  <2>3. CASE ~mayAsk
    BY <1>2, <1>4, <2>1, <2>3 DEF Redraft
  <2>4. CASE Produces[s] \notin Guarded
    BY <2>4 DEF Redraft
  <2>5. CASE mayAsk /\ Produces[s] \in Guarded
    <3>1. StepOf = s
      BY <1>1, <2>2, <2>5 DEF MadeByOne
    <3>2. s \notin completed
      BY <1>1, <2>2, <2>5, <3>1, DueIsOpen DEF RunInv, Calling
    <3>3. RootKey(s) \notin clarified => docs[RootKey(s)] = agreed[RootKey(s)]
      BY <1>1, <2>5, <3>2 DEF Redraft
    <3>4. \/ s \in completed'
          \/ status' = "waiting_acceptance" /\ pending' = RootKey(s)
      BY <1>2, <2>1, <3>1
    <3>5. clarified' = clarified
      BY <1>2, <2>5
    <3> QED BY <1>2, <1>3, <1>4, <2>1, <3>3, <3>4, <3>5 DEF Redraft
  <2> QED BY <2>3, <2>4, <2>5
<1> QED BY <1>5, <1>6

(* What is accepted is the last edition.                                       *)
LEMMA DecisionKeepsRedrafts ==
    ASSUME AcceptanceInv, Redrafts, ProcessAcceptance
    PROVE  Redrafts'
<1> SUFFICES ASSUME NEW s \in Steps, status' # "failed" PROVE Redraft(s)'
  BY DEF Redrafts
<1>1. /\ agreed' = [agreed EXCEPT ![pending] = docs[pending]]
      /\ status = "waiting_acceptance" /\ Redraft(s)
      /\ UNCHANGED <<completed, docs, clarified>>
  BY DEF ProcessAcceptance, Redrafts
<1>2. /\ RootKey(s) \in Keys /\ docs \in [Keys -> Nat] /\ agreed \in [Keys -> Nat]
      /\ RootKey(s)' = RootKey(s)
  BY DEF RootKey, Keys, Types, Range, Steps, AcceptanceInv
<1>3. CASE pending = RootKey(s)
  <2>1. agreed'[RootKey(s)] = docs[RootKey(s)] /\ docs[RootKey(s)] \in Nat
    BY <1>1, <1>2, <1>3
  <2> QED BY <1>1, <1>2, <2>1 DEF Redraft
<1>4. CASE pending # RootKey(s)
  BY <1>1, <1>2, <1>4 DEF Redraft
<1> QED BY <1>3, <1>4

LEMMA NextKeepsRedrafts ==
    ASSUME MadeByOne, RunInv, AcceptanceInv, Redrafts, [Next]_vars
    PROVE  Redrafts'
<1>1. at # "caller" \/ status \in {"pending", "waiting_clarification"} =>
          status \notin {"failed", "waiting_acceptance"}
  BY DEF AcceptanceInv
<1>2. CASE Start \/ ProcessClarification
  BY <1>1, <1>2, UnrelatedKeepsRedrafts DEF Start, ProcessClarification
<1>3. CASE ModelReplies
  <2>1. CASE Asks \/ Remediates \/ Fails
    BY <1>1, <1>3, <2>1, UnrelatedKeepsRedrafts DEF ModelReplies, Asks, Remediates, Fails
  <2> QED BY <1>3, <2>1, PassesKeepsRedrafts DEF ModelReplies
<1>4. CASE NextStep
  <2>1. completed \subseteq completed'
    BY <1>4 DEF NextStep, EntersInstance, MarksComplete
  <2> QED BY <1>1, <1>4, <2>1, UnrelatedKeepsRedrafts DEF NextStep
<1>5. CASE NextNested
  <2>1. completed \subseteq completed'
    BY <1>5 DEF NextNested, AdvancesInstance, MarksComplete
  <2> QED BY <1>1, <1>5, <2>1, UnrelatedKeepsRedrafts DEF NextNested
<1>6. CASE UNCHANGED vars
  BY <1>6 DEF vars, pausing, history, Redrafts, Redraft, RootKey
<1> QED BY <1>2, <1>3, <1>4, <1>5, <1>6, DecisionKeepsRedrafts DEF Next, Runs, Answers

(* Past a document that requires acceptance the workflow goes on only after a  *)
(* person accepted an edition of it under its own scope, or with a draft from  *)
(* answers; outside the iterations it goes on with the accepted edition or     *)
(* with the one the step, executed again, drafts after it and puts to nobody   *)
(* (gates/acceptance.py, WorkflowExecutor.process_acceptance).                 *)
THEOREM RunsProceedOnAcceptance ==
    ASSUME SourcesFirst, MadeByOne
    PROVE  Spec => []AcceptedOrRedrafted
<1>1. AcceptanceInv /\ Redrafts => AcceptedOrRedrafted
  <2> SUFFICES ASSUME AcceptanceInv, Redrafts, status \in {"running", "completed"},
                      NEW k \in Keys, k[1] \in Guarded, docs[k] > 0, k \notin clarified
               PROVE  agreed[k] > 0 /\ (k[2] = Root => docs[k] <= agreed[k] + 1)
    BY DEF AcceptedOrRedrafted
  <2>1. agreed[k] > 0
    BY DEF AcceptanceInv, Covered
  <2>2. ASSUME k[2] = Root PROVE docs[k] <= agreed[k] + 1
    <3>1. PICK s \in Steps : k = RootKey(s)
      BY <2>2 DEF Keys, Types, Range, Steps, RootKey
    <3>2. Produces[s] \in Guarded
      BY <3>1 DEF RootKey
    <3> QED BY <3>1, <3>2 DEF Redrafts, Redraft
  <2> QED BY <2>1, <2>2
<1>2. Spec => []RunInv
  BY RunsKeepTheirInvariant
<1>3. ASSUME RunInv, AcceptanceInv, Redrafts, [Next]_vars PROVE (AcceptanceInv /\ Redrafts)'
  BY <1>3, NextKeepsAcceptance, NextKeepsRedrafts
<1> QED BY <1>1, <1>2, <1>3, AcceptanceInitially, RedraftsInitially, PTL DEF Spec

(* The workflow state, the context and the run keep their types: the step that *)
(* is executed and the entity it is for are always ones of the plan and of the *)
(* collection (WorkflowExecutor._execute_iteration_step).                      *)
THEOREM RunsKeepTheirTypes == ASSUME SourcesFirst PROVE Spec => []TypeOK
<1>1. RunInv => TypeOK
  BY DEF RunInv, Kinds
<1> QED BY <1>1, RunsKeepTheirInvariant, PTL

(* A paused workflow waits for one answer only, and for one that is due        *)
(* (WorkflowState.wait_for_acceptance, wait_for_clarification).                *)
THEOREM RunsWaitForOneAnswer == ASSUME SourcesFirst PROVE Spec => []WaitsForOne
<1>1. RunInv => WaitsForOne
  BY DEF RunInv, Waiting, WaitsForOne
<1> QED BY <1>1, RunsKeepTheirInvariant, PTL

(* A complete iteration did every nested step for every entity of its source,  *)
(* however often it was paused and came back (_execute_iteration_step).        *)
THEOREM IterationsServeAll == ASSUME SourcesFirst PROVE Spec => []EachEntityServed
<1>1. RunInv => EachEntityServed
  <2> SUFFICES ASSUME RunInv, NEW s \in Iterations \cap completed,
                      NEW e \in Range(Items(s)), NEW n \in Range(Nested[s])
      PROVE  <<n, e>> \in served
    BY DEF EachEntityServed
  <2>1. PICK j \in DOMAIN Items(s) : e = Items(s)[j]
    BY DEF Range
  <2>2. Done(s, Items(s)[j])
    BY DEF RunInv, Served
  <2> QED BY <2>1, <2>2 DEF Done
<1> QED BY <1>1, RunsKeepTheirInvariant, PTL
===============================================================================
