----------------------------- MODULE EdgeRouter -----------------------------
(***************************************************************************)
(* EdgeRouter (app/domain/workflow/edge_router.py): which edge an outcome   *)
(* takes.  Pure: it reads the plan and the in-memory state only.            *)
(***************************************************************************)
EXTENDS DocumentWorkflowState

\* The counter an edge reads is the generating node's when that is known.
RetryKey(st) == IF st.gen # NoNode THEN st.gen ELSE st.node

\* Mutant: one retry too many.
CompareOffByOne(actual, op, expected) ==
    \/ op = "eq"  /\ actual = expected
    \/ op \in {"lt", "lte"} /\ actual <= expected
    \/ op \in {"gt", "gte"} /\ actual > expected

\* Python compares numbers or strings; "lt" and the like are only ever asked
\* of retry counts.
Compare(actual, op, expected) ==
    \/ op = "eq"  /\ actual = expected
    \/ op = "ne"  /\ actual # expected
    \/ op = "lt"  /\ actual < expected
    \/ op = "lte" /\ actual <= expected
    \/ op = "gt"  /\ actual > expected
    \/ op = "gte" /\ actual >= expected

\* An unknown condition type has no value, and no value passes no comparison.
Holds(c, st) ==
    \/ c.type = "retry_count" /\ Compare(st.retries[RetryKey(st)], c.op, c.value)
    \/ c.type = "status" /\ Compare(st.status, c.op, c.value)
    \/ c.type = "escalation_active" /\ Compare(st.offered # {}, c.op, c.value)

Matching(st, outcome) ==
    {i \in DOMAIN Edges :
        /\ Edges[i].from = st.node
        /\ Edges[i].outcome = outcome
        /\ \A c \in Edges[i].conditions : Holds(c, st)}

\* get_next_node: the first matching edge wins, so at most one is selected.
Selected(st, outcome) ==
    {Edges[i] : i \in {m \in Matching(st, outcome) :
                          \A k \in Matching(st, outcome) : m <= k}}
=============================================================================
