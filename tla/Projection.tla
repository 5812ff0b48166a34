------------------------------ MODULE Projection ------------------------------
(***************************************************************************)
(* The event projections of one run_node row and its node_attempt rows     *)
(* (internal/store/projection.go).  Appending an event to the log applies  *)
(* exactly one of these handlers inside the appending transaction, so every *)
(* status a node can have is the result of a sequence of them.             *)
(*                                                                         *)
(* A row is a record:                                                      *)
(*   status  the run_node.status column, "absent" while there is no row;   *)
(*   count   run_node.attempt_count;                                       *)
(*   att     the status of each node_attempt row, "none" where there is no *)
(*           row with that attempt_no;                                     *)
(*   latest  MAX(attempt_no) over the attempt rows, 0 without one;         *)
(*   lease   lease_expires_at of that attempt row (the only one that is    *)
(*           ever read): "null", "valid" (in the future) or "expired".     *)
(* The status "leased" is in the schema and in several queries; no handler *)
(* writes it, so it is left out.  Timestamps and results are left out.     *)
(***************************************************************************)
EXTENDS Integers

CONSTANT AttemptBound     \* bound on attempt numbers (named bound)

ASSUME AttemptBoundAssumption == AttemptBound \in Nat \ {0}

Attempts == 1 .. AttemptBound

NodeStatus == {"absent", "pending", "eligible", "running", "succeeded",
               "failed", "uncertain", "waiting", "reconciling",
               "cancel_requested", "cancelled", "skipped"}

AttemptStatus == {"none", "running", "succeeded", "failed", "uncertain",
                  "cancelled"}

Row == [status : NodeStatus,
        count  : 0 .. AttemptBound,
        att    : [Attempts -> AttemptStatus],
        latest : 0 .. AttemptBound,
        lease  : {"null", "valid", "expired"}]

NoRow == [status |-> "absent", count |-> 0,
          att |-> [a \in Attempts |-> "none"], latest |-> 0, lease |-> "null"]

\* The statuses the SQL guards of the handlers name.
Cancelling == {"cancel_requested", "cancelled"}
Terminal   == {"succeeded", "failed", "skipped", "cancelled"}
Done       == {"succeeded", "skipped"}

Larger(x, y) == IF x >= y THEN x ELSE y

\* ensureRunNode: a row that does not exist is inserted as pending.
EnsureRunNode(r) ==
  IF r.status = "absent" THEN [r EXCEPT !.status = "pending"] ELSE r

\* Mutant of OnNodeStarted: attempt_count is summed instead of maximised.
OnNodeStartedSum(r, a, keyed) ==
  [r EXCEPT !.status = "running",
            !.count  = @ + a,
            !.att    = IF keyed THEN [@ EXCEPT ![a] = "running"] ELSE @,
            !.latest = IF keyed THEN Larger(@, a) ELSE @,
            !.lease  = IF keyed /\ a >= r.latest THEN "valid" ELSE @]

\* node_started.  keyed: the payload carries an operation_key, so the
\* attempt row is upserted with a new lease.
OnNodeStarted(r, a, keyed) ==
  [r EXCEPT !.status = "running",
            !.count  = Larger(@, a),
            !.att    = IF keyed THEN [@ EXCEPT ![a] = "running"] ELSE @,
            !.latest = IF keyed THEN Larger(@, a) ELSE @,
            !.lease  = IF keyed /\ a >= r.latest THEN "valid" ELSE @]

\* node_finished, node_failed and node_uncertain; s is the resulting status.
\* keyed: the payload carries an operation_key, so a missing attempt row is
\* inserted (a rejected attempt, without lease).  Only the two cancellation
\* statuses resist; succeeded, failed and skipped are overwritten.
OnNodeTerminal(r, s, a, keyed) ==
  LET inserted == keyed /\ r.att[a] = "none"
  IN  [r EXCEPT
         !.att    = IF inserted \/ r.att[a] \notin {"none", "cancelled"}
                    THEN [@ EXCEPT ![a] = s] ELSE @,
         !.latest = IF inserted THEN Larger(@, a) ELSE @,
         !.lease  = IF inserted /\ a >= r.latest THEN "null" ELSE @,
         !.status = IF @ \in Cancelling THEN @ ELSE s,
         !.count  = IF r.status \in Cancelling THEN @ ELSE Larger(@, a)]

OnNodeCancelRequested(r) ==
  IF r.status \in Terminal THEN r ELSE [r EXCEPT !.status = "cancel_requested"]

OnNodeSkipped(r) ==
  IF r.status \in Cancelling THEN r ELSE [r EXCEPT !.status = "skipped"]

\* node_cancelled; a = 0 when the payload names no attempt.
OnNodeCancelled(r, a) ==
  [r EXCEPT
     !.att    = IF a = 0 THEN @
                ELSE IF r.att[a] \in {"none", "succeeded", "failed", "cancelled"} THEN @
                ELSE [@ EXCEPT ![a] = "cancelled"],
     !.status = IF @ \in Terminal THEN @ ELSE "cancelled"]

\* Mutant of OnNodeRequeued: resume_attempt is ignored.
OnNodeRequeuedFresh(r, a, resume) ==
  IF r.status \in Cancelling THEN r ELSE [r EXCEPT !.status = "eligible"]

\* node_requeued; resume: the same attempt number is to be used again.
OnNodeRequeued(r, a, resume) ==
  IF r.status \in Cancelling THEN r
  ELSE [r EXCEPT !.status = "eligible",
                 !.count  = IF resume /\ a > 0 THEN a - 1 ELSE @]

OnNodeWaiting(r) ==
  IF r.status \in Cancelling THEN r ELSE [r EXCEPT !.status = "waiting"]

\* Mutant of OnNodeReconciling: the status guard of the UPDATE is dropped.
OnNodeReconcilingAlways(r) == [r EXCEPT !.status = "reconciling"]

OnNodeReconciling(r) ==
  IF r.status \in Cancelling THEN r ELSE [r EXCEPT !.status = "reconciling"]

\* node_attempt_failed: the attempt row is overwritten whatever its status.
OnNodeAttemptFailed(r, a) ==
  [r EXCEPT !.att    = IF r.att[a] = "none" THEN @ ELSE [@ EXCEPT ![a] = "failed"],
            !.status = IF @ = "running" THEN "eligible" ELSE @]

\* The statuses that keep a run open.
Active == {"pending", "eligible", "running", "uncertain", "waiting",
           "reconciling", "cancel_requested"}

\* Mutant of CancelNode: running nodes are cancelled at once.
CancelNodeNow(r) ==
  IF r.status \in Terminal \cup {"cancel_requested"} THEN r
  ELSE OnNodeCancelled(EnsureRunNode(r), 0)

\* What CancelRun appends for a node of the run.
CancelNode(r) ==
  IF r.status \in {"running", "uncertain", "reconciling"}
  THEN OnNodeCancelRequested(r)
  ELSE IF r.status \in Terminal \cup {"cancel_requested"} THEN r
  ELSE OnNodeCancelled(EnsureRunNode(r), 0)
=============================================================================
