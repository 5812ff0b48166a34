------------------------------- MODULE MCGates -------------------------------
(* An instance of Gates for TLC: two runs, an approval and two waits. *)
EXTENDS Gates, TLC

CONSTANTS review, checks, deploy, first, second, key1, key2

\* The two waits, of different runs, are for the same provider event.
TwoRuns == (review :> first) @@ (checks :> first) @@ (deploy :> second)
OneCorrelation == [n \in Externals |-> "ci"]
Edges == (review :> {"success", "denied"}) @@ (checks :> {}) @@ (deploy :> {"timeout"})
Idempotent == [n \in Humans |-> "idempotent"]

\* Either review or deploy was routed around before: the gates that share a
\* run meet, and those that share a correlation.
MCInit == \E n \in {review, deploy} : InitSkipped({n})
MCSpec == MCInit /\ [][Next]_vars /\ Fairness
=============================================================================
