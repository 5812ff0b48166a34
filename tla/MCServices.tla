------------------------------ MODULE MCServices ------------------------------
(* An instance of Services for TLC. *)
EXTENDS Services

CONSTANTS run1, run2, draft1, draft2, delivery1, delivery2, delivery3

\* A proposal and a past run for each of two graph versions.
TwoVersions == (draft1 :> 1) @@ (draft2 :> 2) @@ (run1 :> 1) @@ (run2 :> 2)

\* The checks of two check runs, and a third that names another commit.
CheckRuns == (delivery1 :> "check1") @@ (delivery2 :> "check2") @@ (delivery3 :> "check3")

\* Artifact contents are interchangeable.
HashSymmetry == Permutations(Hashes)
===============================================================================
