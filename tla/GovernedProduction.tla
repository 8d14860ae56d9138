------------------------- MODULE GovernedProduction -------------------------
(***************************************************************************)
(* What producing a governed document promises, without requests, copies,   *)
(* saves or routing: the plans of project_discovery 2.0.0, technical_       *)
(* architecture 2.0.0 and implementation_plan 1.0.0 read as a protocol.     *)
(* Questions are answered once, a draft is written from the answers, QA     *)
(* rejects it at most Limit times, a further rejection stops the line for   *)
(* an operator, a judged draft may be published, once, and then only closes *)
(* as stabilized, and closing is final.  Module PlanExecutor is shown to    *)
(* implement it for one request at a time.                                  *)
(***************************************************************************)
EXTENDS Naturals

CONSTANTS
    Answers,  \* answer sets the operator may give
    Nothing,  \* no answers yet
    Limit     \* rejections before the breaker trips

VARIABLES
    stage,      \* clarify, write, judge, rewrite or closed
    answers,    \* the operator's answers
    rejections, \* QA rejections sent round again
    stopped,    \* the breaker has tripped and nothing has happened since
    verdict,    \* how the production closed
    published   \* documents published

vars == <<stage, answers, rejections, stopped, verdict, published>>

\* Once its document is published a production can only close as stabilized.
Open == published = 0 /\ UNCHANGED published

Init ==
    /\ stage = "clarify" /\ answers = Nothing /\ rejections = 0
    /\ stopped = FALSE /\ verdict = "open" /\ published = 0

Answer ==
    /\ Open
    /\ stage = "clarify"
    /\ \E a \in Answers : answers' = a
    /\ UNCHANGED <<stage, rejections, stopped, verdict>>

Clarified ==
    /\ Open
    /\ stage = "clarify" /\ answers # Nothing
    /\ stage' = "write"
    /\ UNCHANGED <<answers, rejections, stopped, verdict>>

Written ==
    /\ Open
    /\ stage \in {"write", "rewrite"}
    /\ stage' = "judge"
    /\ UNCHANGED <<answers, rejections, stopped, verdict>>

SendBack ==
    /\ Open
    /\ stage = "judge" /\ rejections < Limit
    /\ stage' = "rewrite" /\ rejections' = rejections + 1
    /\ UNCHANGED <<answers, stopped, verdict>>

Stop ==
    /\ Open
    /\ stage = "judge" /\ rejections = Limit
    /\ stopped' = TRUE
    /\ UNCHANGED <<stage, answers, rejections, verdict>>

\* Of a judged draft, once, and ahead of closing.
Publish ==
    /\ stage = "judge" /\ published = 0
    /\ published' = 1
    /\ UNCHANGED <<stage, answers, rejections, stopped, verdict>>

\* Only a judged draft is stabilized; everything else may close at any time.
Close(v) ==
    /\ stage # "closed"
    /\ IF v = "stabilized" THEN stage = "judge" /\ UNCHANGED published ELSE Open
    /\ v = "blocked" => stage \in {"write", "rewrite"}
    /\ stage' = "closed" /\ stopped' = FALSE /\ verdict' = v
    /\ UNCHANGED <<answers, rejections>>

Next ==
    \/ Answer \/ Clarified \/ Written \/ SendBack \/ Stop \/ Publish
    \/ \E v \in {"stabilized", "blocked", "cancelled", "escalated", "failed"} : Close(v)

Spec == Init /\ [][Next]_vars
=============================================================================
