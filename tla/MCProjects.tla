----------------------------- MODULE MCProjects -----------------------------
(***************************************************************************)
(* Module Projects for TLC: one client that makes, hides and is handed      *)
(* projects, one that works on instances, and pairs that race for the same  *)
(* number, the same intake or the same instance.                            *)
(***************************************************************************)
EXTENDS Projects, TLC

CONSTANTS c1, c2, x1

Pair(a, b) == (c1 :> a) @@ (c2 :> b)

Asking == {"ask", "reconnect"}
Hiding == {"archive", "unarchive", "delete"}

AnyCrowd ==
    {Pair({"create"} \cup Asking \cup Hiding, {}),
     Pair({"post", "delete"}, {}),
     Pair({"assign", "replace", "complete", "delete"}, {}),
     Pair({"create"} \cup Asking, {"ask", "create"}),
     Pair({"post"}, {"assign", "ask"}),
     Pair({"assign", "replace", "complete"}, {"assign", "replace"})}

Flow(steps, meta) == [steps |-> steps, meta |-> meta]

Shipped == ("develop" :> Flow(<<"a", "b">>, 1)) @@ ("review" :> Flow(<<"b">>, 2))

Stored == {Flow(<<"a">>, 1), Flow(<<"a", "b">>, 1), Flow(<<"b", "a">>, 1),
           Flow(<<"a", "b">>, 2), Flow(<<"a", "a", "b">>, 1)}

\* The largest number so far is a deleted project's, and has three digits.
Deleted == [prefix |-> "MA", number |-> 999, execution |-> Nothing,
            archived |-> FALSE, deleted |-> TRUE]
There == <<Deleted, [Deleted EXCEPT !.number = 998, !.deleted = FALSE]>>

IntakePrefix == x1 :> "MA"
=============================================================================
