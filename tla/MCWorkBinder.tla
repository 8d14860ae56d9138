---------------------------- MODULE MCWorkBinder ----------------------------
(***************************************************************************)
(* Module WorkBinder for TLC: one client with every operation, and pairs of *)
(* clients that write the same documents.                                   *)
(***************************************************************************)
EXTENDS WorkBinder

CONSTANTS c1, c2

Pair(a, b) == (c1 :> a) @@ (c2 :> b)

OneClient == {Pair(Ops, {})}

Setup == {"import", "promote", "patch"}

PairsOfClients ==
    {Pair(Setup \cup {"create", "propose"}, {"promote", "create", "propose"}),
     Pair(Setup \cup {"create"}, {"reorder", "patch"}),
     Pair({"import", "promote", "propose", "edit"}, {"stabilize", "edit"})}

AnyCrowd == OneClient \cup PairsOfClients
=============================================================================
