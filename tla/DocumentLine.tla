---------------------------- MODULE DocumentLine ----------------------------
(***************************************************************************)
(* Producing one document type of one project, seen from outside its        *)
(* executions: start_execution's lookup and creation, and what stabilizing  *)
(* publishes (PlanExecutor._persist_produced_documents, mint_display_id).   *)
(* What an execution does between the two is module PlanExecutor.           *)
(*                                                                          *)
(* Neither part holds a lock: the lookup and the insert of an execution are *)
(* separated by the creation of its thread, the choice of a display id and  *)
(* its insert by the construction of the document.                          *)
(***************************************************************************)
EXTENDS Sequences, Functions

CONSTANTS
    Starters,   \* requests to start production
    Executions, \* bound: executions that may be created
    Existing,   \* documents published before
    Cap         \* 10^3: the first display number that outgrows its padding

ASSUME LineAssumption ==
    /\ Existing \in Nat
    /\ Cap \in Nat \ {0} /\ Cap % 10 = 0

VARIABLES
    status,    \* status[x] of each execution
    creating,  \* the starters that found nothing to resume
    minted,    \* display numbers chosen and not inserted yet; 0 = none
    documents  \* display numbers of the is_latest documents, in insertion order

vars == <<status, creating, minted, documents>>

\* terminal_outcome is NULL in "active" and "failed" rows.
ExecutionStates == {"absent", "active", "failed", "closed"}

TypeOK ==
    /\ status \in [Executions -> ExecutionStates]
    /\ creating \subseteq Starters
    /\ minted \in [Executions -> Nat]
    /\ documents \in Seq(Nat)

Init ==
    /\ status = [x \in Executions |-> "absent"]
    /\ creating = {}
    /\ minted = [x \in Executions |-> 0]
    /\ documents = [i \in 1..Existing |-> i]

\* load_by_document: one row without an outcome, whichever comes first.
Found == {x \in Executions : status[x] \in {"active", "failed"}}

\* start_execution: an active row found is returned as it is, which changes
\* nothing; with none, or a failed one, a new execution is created.
FindsNothing(s) ==
    /\ s \notin creating
    /\ Found # {} => \E x \in Found : status[x] = "failed"
    /\ creating' = creating \cup {s}
    /\ UNCHANGED <<status, minted, documents>>

Creates(s) ==
    /\ s \in creating
    /\ \E x \in Executions :
          status[x] = "absent" /\ status' = [status EXCEPT ![x] = "active"]
    /\ creating' = creating \ {s}
    /\ UNCHANGED <<minted, documents>>

\* A failed execution has no terminal outcome.
Fails(x) ==
    /\ status[x] = "active" /\ minted[x] = 0
    /\ status' = [status EXCEPT ![x] = "failed"]
    /\ UNCHANGED <<creating, minted, documents>>

\* Mutant: the outcome is written to the status column.
ClosesWithOutcome(x) ==
    /\ status[x] = "active" /\ minted[x] = 0
    /\ status' = [status EXCEPT ![x] = "cancelled"]
    /\ UNCHANGED <<creating, minted, documents>>

\* Blocked, cancelled, abandoned or escalated: an outcome and no document.
Closes(x) ==
    /\ status[x] = "active" /\ minted[x] = 0
    /\ status' = [status EXCEPT ![x] = "closed"]
    /\ UNCHANGED <<creating, minted, documents>>

\* SELECT MAX(display_id) compares strings: "PD-1000" sorts between "PD-100"
\* and "PD-101".  Numbers above Cap are never minted.
Place(n) == IF n < Cap THEN 10 * n ELSE n + 1

HighestId(numbers) == CHOOSE n \in numbers : \A m \in numbers : Place(m) <= Place(n)

\* mint_display_id
NextNumber(numbers) == IF numbers = {} THEN 1 ELSE HighestId(numbers) + 1

Mints(x) ==
    /\ status[x] = "active" /\ minted[x] = 0
    /\ minted' = [minted EXCEPT ![x] = NextNumber(Range(documents))]
    /\ UNCHANGED <<status, creating, documents>>

\* Mutant: no unique index.
PublishesAnyway(x) ==
    /\ minted[x] # 0
    /\ documents' = Append(documents, minted[x])
    /\ minted' = [minted EXCEPT ![x] = 0]
    /\ status' = [status EXCEPT ![x] = "closed"]
    /\ UNCHANGED creating

\* idx_documents_latest_display refuses a number in use; the executor logs
\* the error and completes the execution all the same.
Publishes(x) ==
    /\ minted[x] # 0
    /\ documents' = IF minted[x] \in Range(documents) THEN documents
                    ELSE Append(documents, minted[x])
    /\ minted' = [minted EXCEPT ![x] = 0]
    /\ status' = [status EXCEPT ![x] = "closed"]
    /\ UNCHANGED creating

Next ==
    \/ \E s \in Starters : FindsNothing(s) \/ Creates(s)
    \/ \E x \in Executions : Fails(x) \/ Closes(x) \/ Mints(x) \/ Publishes(x)

Spec == Init /\ [][Next]_vars

-----------------------------------------------------------------------------

\* Production of a document has at most one execution under way: a start joins
\* it instead of creating another.
AtMostOneActive ==
    \A x, y \in Executions : status[x] = "active" /\ status[y] = "active" => x = y

\* Display numbers are handed out in the order of publication, without a gap
\* and without a duplicate, whoever minted while another was publishing.
IdsInOrder == \A i \in DOMAIN documents : documents[i] = i
=============================================================================
