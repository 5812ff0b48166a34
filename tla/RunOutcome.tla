------------------------------ MODULE RunOutcome ------------------------------
(***************************************************************************)
(* What a run promises its operator, whatever workers, recoveries and      *)
(* crashes there are between: a node ends once and only after what it      *)
(* waits for, the routes out of a node are taken in the very step that     *)
(* finishes it, a cancelled run finishes no node any more, and the end of  *)
(* the run is read off the ends of its nodes.  Engine.tla implements it    *)
(* when one step loop drives the run.                                      *)
(***************************************************************************)
CONSTANTS
  Nodes,
  Release,      \* <<from, to>>: to waits for from
  RouteEdges,   \* routes, with fields from and to
  Choices       \* Choices[n]: the sets of routes a finished n may take

VARIABLES
  run,          \* "running" and how it ended
  outcome,      \* "open", "stopping" or the end of each node
  taken         \* the routes taken so far

vars == <<run, outcome, taken>>

DoneOutcome == {"succeeded", "skipped"}
Outcomes    == {"open", "stopping", "failed", "cancelled"} \cup DoneOutcome

Init ==
  /\ run = "running"
  /\ outcome = [n \in Nodes |-> "open"]
  /\ taken = {}

\* Every dependency of n is done and every route to it taken.
May(n) ==
  /\ \A m \in Nodes : <<m, n>> \in Release => outcome[m] \in DoneOutcome
  /\ \A e \in RouteEdges : e.to = n => e \in taken

\* An abandoned run keeps its live executions until they return.
Live == run \in {"running", "abandoned"}

\* n succeeds, takes the routes it chose, and with it end targets that only
\* n could have routed to.
Finish(n, routes, skips) ==
  /\ Live /\ outcome[n] = "open" /\ May(n)
  /\ \A m \in skips :
       /\ outcome[m] = "open"
       /\ \E e \in RouteEdges : e.to = m
       /\ \A e \in RouteEdges : e.to = m => e.from = n /\ e \notin routes
  /\ outcome' = [m \in Nodes |-> IF m = n THEN "succeeded"
                                 ELSE IF m \in skips THEN "skipped" ELSE outcome[m]]
  /\ taken' = taken \cup routes
  /\ UNCHANGED run

Fail(n) ==
  /\ Live /\ outcome[n] = "open" /\ May(n)
  /\ outcome' = [outcome EXCEPT ![n] = "failed"]
  /\ UNCHANGED <<run, taken>>

\* A node that was asked to stop stops; in an abandoned run any node may.
Stop(n) ==
  /\ Live
  /\ \/ outcome[n] = "stopping"
     \/ outcome[n] = "open" /\ run = "abandoned"
  /\ outcome' = [outcome EXCEPT ![n] = "cancelled"]
  /\ UNCHANGED <<run, taken>>

\* Cancellation reaches every open node at once, and ends the run if there
\* is nothing left to stop.
RequestCancel ==
  /\ run = "running"
  /\ outcome' \in [Nodes -> Outcomes]
  /\ \A n \in Nodes : IF outcome[n] = "open" THEN outcome'[n] \in {"stopping", "cancelled"}
                                             ELSE outcome'[n] = outcome[n]
  /\ run' = IF \E n \in Nodes : outcome'[n] = "stopping" THEN run ELSE "cancelled"
  /\ UNCHANGED taken

Abandon ==
  /\ run = "running"
  /\ run' = "abandoned"
  /\ UNCHANGED <<outcome, taken>>

End ==
  /\ run = "running"
  /\ \/ /\ run' = "failed"
        /\ \E n \in Nodes : outcome[n] = "failed"
     \/ /\ run' = "cancelled"
        /\ \A n \in Nodes : outcome[n] \in DoneOutcome \cup {"cancelled"}
        /\ \E n \in Nodes : outcome[n] = "cancelled"
     \/ /\ run' = "completed"
        /\ \A n \in Nodes : outcome[n] \in DoneOutcome
  /\ UNCHANGED <<outcome, taken>>

Next ==
  \/ \E n \in Nodes : \/ \E routes \in Choices[n], skips \in SUBSET Nodes : Finish(n, routes, skips)
                      \/ Fail(n)
                      \/ Stop(n)
  \/ RequestCancel
  \/ Abandon
  \/ End

Spec == Init /\ [][Next]_vars
=============================================================================
