-------------------------- MODULE DocumentLineProofs --------------------------
(***************************************************************************)
(* Display ids are dense and in order for any number of concurrent          *)
(* publishers and on both sides of the padding limit, although the mint is  *)
(* a maximum of strings read long before the insert: the maximum, string    *)
(* order or not, is one of the numbers in use, so a minted number is at     *)
(* most one more than how many there are; documents only grow; and the      *)
(* unique index refuses every number in use.                                *)
(***************************************************************************)
EXTENDS DocumentLine, TLAPS

Inv ==
    /\ TypeOK
    /\ IdsInOrder
    /\ \A x \in Executions : minted[x] <= Len(documents) + 1

\* Of the numbers 1 to k one has the highest id, so the maximum exists.
LEMMA HighestIdExists ==
    ASSUME NEW k \in Nat \ {0}
    PROVE  HighestId(1..k) \in 1..k
<1>1. Cap \in Nat \ {0}
  BY LineAssumption
<1>2. \E n \in 1..k : \A m \in 1..k : Place(m) <= Place(n)
  <2>1. CASE k < Cap
    <3>1. k \in 1..k /\ \A m \in 1..k : Place(m) <= Place(k)
      BY <1>1, <2>1 DEF Place
    <3> QED
      BY <3>1
  <2>2. CASE k >= Cap /\ (Cap = 1 \/ 10 * (Cap - 1) <= k + 1)
    <3>1. k \in 1..k /\ \A m \in 1..k : Place(m) <= Place(k)
      BY <1>1, <2>2 DEF Place
    <3> QED
      BY <3>1
  <2>3. CASE k >= Cap /\ Cap # 1 /\ 10 * (Cap - 1) > k + 1
    <3>1. Cap - 1 \in 1..k /\ \A m \in 1..k : Place(m) <= Place(Cap - 1)
      BY <1>1, <2>3 DEF Place
    <3> QED
      BY <3>1
  <2> QED
    BY <1>1, <2>1, <2>2, <2>3
<1> QED
  BY <1>2 DEF HighestId

\* A minted number is at most one more than the number of documents.
LEMMA NextNumberBound ==
    ASSUME TypeOK, IdsInOrder
    PROVE  /\ NextNumber(Range(documents)) \in Nat
           /\ NextNumber(Range(documents)) <= Len(documents) + 1
<1>1. Len(documents) \in Nat /\ DOMAIN documents = 1..Len(documents)
  BY DEF TypeOK
<1>2. Range(documents) = 1..Len(documents)
  BY <1>1 DEF Range, IdsInOrder
<1>3. CASE Len(documents) = 0
  BY <1>2, <1>3 DEF NextNumber
<1>4. CASE Len(documents) # 0
  <2>1. HighestId(1..Len(documents)) \in 1..Len(documents)
    BY <1>1, <1>4, HighestIdExists
  <2>2. 1..Len(documents) # {}
    BY <1>1, <1>4
  <2> QED
    BY <1>1, <1>2, <2>1, <2>2 DEF NextNumber
<1> QED
  BY <1>3, <1>4

\* Whatever is appended is the next number.
LEMMA PublishesInOrder ==
    ASSUME Inv, NEW x \in Executions, Publishes(x)
    PROVE  Inv'
<1>1. /\ documents \in Seq(Nat) /\ Len(documents) \in Nat
      /\ DOMAIN documents = 1..Len(documents)
      /\ minted[x] \in Nat /\ minted[x] <= Len(documents) + 1 /\ minted[x] # 0
  BY DEF Inv, TypeOK, Publishes
<1>2. status' \in [Executions -> ExecutionStates] /\ creating' \subseteq Starters
  BY DEF Inv, TypeOK, Publishes, ExecutionStates
<1>3. minted' \in [Executions -> Nat]
      /\ \A y \in Executions : minted'[y] <= Len(documents) + 1
  BY <1>1 DEF Inv, TypeOK, Publishes
<1>4. CASE minted[x] \in Range(documents)
  <2>1. documents' = documents
    BY <1>4 DEF Publishes
  <2> QED
    BY <1>2, <1>3, <2>1 DEF Inv, TypeOK, IdsInOrder
<1>5. CASE minted[x] \notin Range(documents)
  <2>1. documents' = Append(documents, minted[x])
    BY <1>5 DEF Publishes
  <2>2. minted[x] = Len(documents) + 1
    <3>1. \A i \in 1..Len(documents) : i \in Range(documents)
      BY <1>1 DEF Inv, IdsInOrder, Range
    <3> QED
      BY <1>1, <1>5, <3>1
  <2>3. /\ documents' \in Seq(Nat) /\ Len(documents') = Len(documents) + 1
        /\ \A i \in 1..Len(documents) : documents'[i] = documents[i]
        /\ documents'[Len(documents) + 1] = minted[x]
    BY <1>1, <2>1
  <2>4. IdsInOrder'
    BY <1>1, <2>2, <2>3 DEF Inv, IdsInOrder
  <2>5. \A y \in Executions : minted'[y] <= Len(documents') + 1
    BY <1>1, <1>3, <2>3
  <2> QED
    BY <1>2, <1>3, <2>3, <2>4, <2>5 DEF Inv, TypeOK
<1> QED
  BY <1>4, <1>5

\* Lines begin with the invariant, and every step of a starter, a run or
\* another execution keeps it.
LEMMA InvInit == Init => Inv
BY LineAssumption DEF Init, Inv, TypeOK, IdsInOrder, ExecutionStates

LEMMA InvNext == Inv /\ [Next]_vars => Inv'
<1> SUFFICES ASSUME Inv, [Next]_vars PROVE Inv'
  OBVIOUS
<1>1. ASSUME NEW s \in Starters, FindsNothing(s) \/ Creates(s) PROVE Inv'
  BY <1>1 DEF Inv, TypeOK, IdsInOrder, FindsNothing, Creates, ExecutionStates
<1>2. ASSUME NEW x \in Executions, Fails(x) \/ Closes(x) PROVE Inv'
  BY <1>2 DEF Inv, TypeOK, IdsInOrder, Fails, Closes, ExecutionStates
<1>3. ASSUME NEW x \in Executions, Mints(x) PROVE Inv'
  <2>1. /\ NextNumber(Range(documents)) \in Nat
        /\ NextNumber(Range(documents)) <= Len(documents) + 1
    BY NextNumberBound DEF Inv
  <2> QED
    BY <1>3, <2>1 DEF Inv, TypeOK, IdsInOrder, Mints
<1>4. CASE UNCHANGED vars
  BY <1>4 DEF Inv, TypeOK, IdsInOrder, vars
<1> QED
  BY <1>1, <1>2, <1>3, <1>4, PublishesInOrder DEF Next

\* TypeOK: the string maximum of mint_display_id is a number whatever ids are
\* in use, on both sides of the padding limit, and executions only move between
\* the states of the workflow_executions row.
THEOREM LineTyped == Spec => []TypeOK
<1>1. Inv => TypeOK
  BY DEF Inv
<1> QED
  BY InvInit, InvNext, <1>1, PTL DEF Spec

\* IdsInOrder: mint_display_id and idx_documents_latest_display together number
\* documents densely and in order, although neither does so alone.
THEOREM IdsStayInOrder == Spec => []IdsInOrder
<1>1. Inv => IdsInOrder
  BY DEF Inv
<1> QED
  BY InvInit, InvNext, <1>1, PTL DEF Spec
=============================================================================
