----------------------------- MODULE WaitOutcome -----------------------------
(***************************************************************************)
(* What a gate promises, whoever answers it: it opens once, is resolved at *)
(* most once, and the routes that leave it are taken in the very step that *)
(* resolves it and are those of its outcome.  Gates.tla implements it.     *)
(* Several gates may move in one step (a cancelled run cancels its waits). *)
(***************************************************************************)
CONSTANTS
  Gates,
  Outcomes,   \* how a gate may be resolved
  Leads       \* Leads[g][o]: the sets of routes outcome o of g may take

VARIABLES
  outcome,    \* "none", "open" or the outcome of each gate
  taken       \* the routes taken out of each gate

vars == <<outcome, taken>>

Init ==
  /\ outcome = [g \in Gates |-> "none"]
  /\ taken = [g \in Gates |-> {}]

Stay(g) == outcome'[g] = outcome[g] /\ taken'[g] = taken[g]

Open(g) ==
  /\ outcome[g] = "none"
  /\ outcome'[g] = "open"
  /\ taken'[g] = taken[g]

Resolve(g, o) ==
  /\ outcome[g] = "open"
  /\ outcome'[g] = o
  /\ taken'[g] \in Leads[g][o]

Next ==
  /\ DOMAIN outcome' = Gates
  /\ DOMAIN taken' = Gates
  /\ \A g \in Gates : Stay(g) \/ Open(g) \/ \E o \in Outcomes : Resolve(g, o)

Spec == Init /\ [][Next]_vars
=============================================================================
