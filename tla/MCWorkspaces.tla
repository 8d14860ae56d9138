---- MODULE MCWorkspaces ----
(* The admin workbench on one document type of two versions, without inputs. *)
EXTENDS Workspaces, TLC

OneType == {1}
TwoVersions == {1, 2}
TwoReleases == OneType \X TwoVersions
NoInputs == [t \in Types |-> {}]

UserSymmetry == Permutations(Users) \union Permutations(Ids)
====
