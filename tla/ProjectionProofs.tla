--------------------------- MODULE ProjectionProofs ---------------------------
(***************************************************************************)
(* What the projection handlers return for every row: a row again, and a   *)
(* status that respects the cancellation guards of their UPDATEs.  The     *)
(* proofs about Engine cite these lemmas and never expand a handler.       *)
(***************************************************************************)
EXTENDS Projection, TLAPS

\* Row s may follow row r: a cancellation is not taken back.
KeepsCancel(r, s) ==
  /\ r.status = "cancelled" => s.status = "cancelled"
  /\ r.status = "cancel_requested" => s.status \in Cancelling

\* The empty row is a row.
LEMMA NoRowType == NoRow \in Row
  BY AttemptBoundAssumption DEF NoRow, Row, NodeStatus, Attempts, AttemptStatus

\* ensureRunNode keeps the type and changes no status but "absent".
LEMMA EnsureType ==
  ASSUME NEW r \in Row
  PROVE  /\ EnsureRunNode(r) \in Row
         /\ EnsureRunNode(r).status = IF r.status = "absent" THEN "pending" ELSE r.status
  BY DEF EnsureRunNode, Row, NodeStatus

\* attempt_count and latest stay within the bound.
LEMMA BoundedLarger ==
  ASSUME NEW x \in 0 .. AttemptBound, NEW y \in 1 .. AttemptBound
  PROVE  Larger(x, y) \in 0 .. AttemptBound
  BY AttemptBoundAssumption DEF Larger

\* node_started leaves the node running.
LEMMA StartedType ==
  ASSUME NEW r \in Row, NEW a \in Attempts, NEW keyed \in BOOLEAN
  PROVE  /\ OnNodeStarted(r, a, keyed) \in Row
         /\ OnNodeStarted(r, a, keyed).status = "running"
<1> DEFINE count  == Larger(r.count, a)
           att    == IF keyed THEN [r.att EXCEPT ![a] = "running"] ELSE r.att
           latest == IF keyed THEN Larger(r.latest, a) ELSE r.latest
           lease  == IF keyed /\ a >= r.latest THEN "valid" ELSE r.lease
<1>1. OnNodeStarted(r, a, keyed)
        = [r EXCEPT !.status = "running", !.count = count, !.att = att,
                    !.latest = latest, !.lease = lease]
  BY DEF OnNodeStarted
<1>2. count \in 0 .. AttemptBound /\ latest \in 0 .. AttemptBound
  BY BoundedLarger DEF Row, Attempts
<1>3. att \in [Attempts -> AttemptStatus]
  BY DEF Row, AttemptStatus
<1>4. lease \in {"null", "valid", "expired"}
  BY DEF Row
<1> HIDE DEF count, att, latest, lease
<1> QED
  BY <1>1, <1>2, <1>3, <1>4 DEF Row, NodeStatus

\* node_finished, node_failed and node_uncertain set the status they name
\* unless the node is being cancelled.
LEMMA TerminalType ==
  ASSUME NEW r \in Row, NEW s \in {"succeeded", "failed", "uncertain"},
         NEW a \in Attempts, NEW keyed \in BOOLEAN
  PROVE  /\ OnNodeTerminal(r, s, a, keyed) \in Row
         /\ OnNodeTerminal(r, s, a, keyed).status =
              IF r.status \in Cancelling THEN r.status ELSE s
<1> DEFINE inserted == keyed /\ r.att[a] = "none"
           att    == IF inserted \/ r.att[a] \notin {"none", "cancelled"}
                     THEN [r.att EXCEPT ![a] = s] ELSE r.att
           latest == IF inserted THEN Larger(r.latest, a) ELSE r.latest
           lease  == IF inserted /\ a >= r.latest THEN "null" ELSE r.lease
           status == IF r.status \in Cancelling THEN r.status ELSE s
           count  == IF r.status \in Cancelling THEN r.count ELSE Larger(r.count, a)
<1>1. OnNodeTerminal(r, s, a, keyed)
        = [r EXCEPT !.att = att, !.latest = latest, !.lease = lease,
                    !.status = status, !.count = count]
  BY DEF OnNodeTerminal
<1>2. count \in 0 .. AttemptBound /\ latest \in 0 .. AttemptBound
  BY BoundedLarger DEF Row, Attempts
<1>3. att \in [Attempts -> AttemptStatus]
  BY DEF Row, AttemptStatus
<1>4. lease \in {"null", "valid", "expired"} /\ status \in NodeStatus
  BY DEF Row, NodeStatus
<1> HIDE DEF att, latest, lease, count
<1> QED
  BY <1>1, <1>2, <1>3, <1>4 DEF Row

\* node_cancel_requested keeps every terminal status.
LEMMA CancelRequestedType ==
  ASSUME NEW r \in Row
  PROVE  /\ OnNodeCancelRequested(r) \in Row
         /\ OnNodeCancelRequested(r).status =
              IF r.status \in Terminal THEN r.status ELSE "cancel_requested"
  BY DEF OnNodeCancelRequested, Row, NodeStatus

\* node_skipped
LEMMA SkippedType ==
  ASSUME NEW r \in Row
  PROVE  /\ OnNodeSkipped(r) \in Row
         /\ OnNodeSkipped(r).status =
              IF r.status \in Cancelling THEN r.status ELSE "skipped"
  BY DEF OnNodeSkipped, Row, NodeStatus

\* node_cancelled keeps every terminal status and ends all others.
LEMMA CancelledType ==
  ASSUME NEW r \in Row, NEW a \in 0 .. AttemptBound
  PROVE  /\ OnNodeCancelled(r, a) \in Row
         /\ OnNodeCancelled(r, a).status =
              IF r.status \in Terminal THEN r.status ELSE "cancelled"
  BY AttemptBoundAssumption
  DEF OnNodeCancelled, Row, NodeStatus, AttemptStatus, Attempts

\* node_requeued makes the node eligible unless it is being cancelled.
LEMMA RequeuedType ==
  ASSUME NEW r \in Row, NEW a \in 0 .. AttemptBound, NEW resume \in BOOLEAN
  PROVE  /\ OnNodeRequeued(r, a, resume) \in Row
         /\ OnNodeRequeued(r, a, resume).status =
              IF r.status \in Cancelling THEN r.status ELSE "eligible"
<1> DEFINE count == IF resume /\ a > 0 THEN a - 1 ELSE r.count
<1>1. count \in 0 .. AttemptBound
  BY AttemptBoundAssumption DEF Row
<1> HIDE DEF count
<1>2. [r EXCEPT !.status = "eligible", !.count = count] \in Row
  BY <1>1 DEF Row, NodeStatus
<1>3. CASE r.status \in Cancelling
  BY <1>3 DEF OnNodeRequeued
<1>4. CASE r.status \notin Cancelling
  <2>1. OnNodeRequeued(r, a, resume) = [r EXCEPT !.status = "eligible", !.count = count]
    BY <1>4 DEF OnNodeRequeued, count
  <2> QED
    BY <1>2, <1>4, <2>1 DEF Row
<1> QED
  BY <1>3, <1>4

\* node_waiting
LEMMA WaitingType ==
  ASSUME NEW r \in Row
  PROVE  /\ OnNodeWaiting(r) \in Row
         /\ OnNodeWaiting(r).status =
              IF r.status \in Cancelling THEN r.status ELSE "waiting"
  BY DEF OnNodeWaiting, Row, NodeStatus

\* node_reconciling
LEMMA ReconcilingType ==
  ASSUME NEW r \in Row
  PROVE  /\ OnNodeReconciling(r) \in Row
         /\ OnNodeReconciling(r).status =
              IF r.status \in Cancelling THEN r.status ELSE "reconciling"
  BY DEF OnNodeReconciling, Row, NodeStatus

\* node_attempt_failed makes only a running node eligible.
LEMMA AttemptFailedType ==
  ASSUME NEW r \in Row, NEW a \in Attempts
  PROVE  /\ OnNodeAttemptFailed(r, a) \in Row
         /\ OnNodeAttemptFailed(r, a).status =
              IF r.status = "running" THEN "eligible" ELSE r.status
  BY DEF OnNodeAttemptFailed, Row, NodeStatus, AttemptStatus

-----------------------------------------------------------------------------
(***************************************************************************)
(* What the handlers do to the attempt counter and the attempt rows.       *)
(***************************************************************************)
\* node_started of an attempt upserts its row and raises both counters.
LEMMA StartedFields ==
  ASSUME NEW r \in Row, NEW a \in Attempts
  PROVE  /\ OnNodeStarted(r, a, TRUE).count = Larger(r.count, a)
         /\ OnNodeStarted(r, a, TRUE).latest = Larger(r.latest, a)
         /\ OnNodeStarted(r, a, TRUE).att = [r.att EXCEPT ![a] = "running"]
<1> DEFINE lease == IF a >= r.latest THEN "valid" ELSE r.lease
<1>1. OnNodeStarted(r, a, TRUE)
        = [r EXCEPT !.status = "running", !.count = Larger(r.count, a),
                    !.att = [r.att EXCEPT ![a] = "running"],
                    !.latest = Larger(r.latest, a), !.lease = lease]
  BY DEF OnNodeStarted
<1> HIDE DEF lease
<1> QED
  BY <1>1 DEF Row

\* A terminal event without an operation key touches the row of its attempt only.
LEMMA TerminalFields ==
  ASSUME NEW r \in Row, NEW s \in {"succeeded", "failed", "uncertain"}, NEW a \in Attempts
  PROVE  /\ OnNodeTerminal(r, s, a, FALSE).status =
              IF r.status \in Cancelling THEN r.status ELSE s
         /\ OnNodeTerminal(r, s, a, FALSE).count =
              IF r.status \in Cancelling THEN r.count ELSE Larger(r.count, a)
         /\ OnNodeTerminal(r, s, a, FALSE).latest = r.latest
         /\ \A b \in Attempts : b # a => OnNodeTerminal(r, s, a, FALSE).att[b] = r.att[b]
<1> DEFINE att    == IF r.att[a] \notin {"none", "cancelled"}
                     THEN [r.att EXCEPT ![a] = s] ELSE r.att
           status == IF r.status \in Cancelling THEN r.status ELSE s
           count  == IF r.status \in Cancelling THEN r.count ELSE Larger(r.count, a)
<1>1. OnNodeTerminal(r, s, a, FALSE)
        = [r EXCEPT !.att = att, !.latest = r.latest, !.lease = r.lease,
                    !.status = status, !.count = count]
  BY DEF OnNodeTerminal
<1>2. \A b \in Attempts : b # a => att[b] = r.att[b]
  BY DEF Row
<1> HIDE DEF att
<1> QED
  BY <1>1, <1>2 DEF Row

\* node_attempt_failed marks the attempt, if it has a row.
LEMMA AttemptFailedFields ==
  ASSUME NEW r \in Row, NEW a \in Attempts
  PROVE  /\ OnNodeAttemptFailed(r, a).count = r.count
         /\ OnNodeAttemptFailed(r, a).latest = r.latest
         /\ OnNodeAttemptFailed(r, a).att =
              IF r.att[a] = "none" THEN r.att ELSE [r.att EXCEPT ![a] = "failed"]
  BY DEF OnNodeAttemptFailed, Row

\* node_requeued leaves the attempts alone; a resumed attempt gives its
\* number back.
LEMMA RequeuedFields ==
  ASSUME NEW r \in Row, NEW a \in 0 .. AttemptBound
  PROVE  /\ OnNodeRequeued(r, a, FALSE).status =
              IF r.status \in Cancelling THEN r.status ELSE "eligible"
         /\ OnNodeRequeued(r, a, FALSE).count = r.count
         /\ OnNodeRequeued(r, a, FALSE).latest = r.latest
         /\ OnNodeRequeued(r, a, FALSE).att = r.att
         /\ OnNodeRequeued(r, a, TRUE).status =
              IF r.status \in Cancelling THEN r.status ELSE "eligible"
         /\ OnNodeRequeued(r, a, TRUE).count =
              IF r.status \notin Cancelling /\ a > 0 THEN a - 1 ELSE r.count
         /\ OnNodeRequeued(r, a, TRUE).latest = r.latest
         /\ OnNodeRequeued(r, a, TRUE).att = r.att
  BY DEF OnNodeRequeued, Row

\* node_waiting and node_reconciling leave the attempts alone.
LEMMA WaitingFields ==
  ASSUME NEW r \in Row
  PROVE  /\ OnNodeReconciling(r).count = r.count
         /\ OnNodeReconciling(r).latest = r.latest
         /\ OnNodeReconciling(r).att = r.att
         /\ OnNodeWaiting(r).count = r.count
         /\ OnNodeWaiting(r).latest = r.latest
         /\ OnNodeWaiting(r).att = r.att
  BY DEF OnNodeReconciling, OnNodeWaiting, Row

\* Materialising or skipping a row, and CancelRun's event, leave the attempts alone.
LEMMA MaterialisedFields ==
  ASSUME NEW r \in Row
  PROVE  /\ EnsureRunNode(r).count = r.count
         /\ EnsureRunNode(r).latest = r.latest
         /\ EnsureRunNode(r).att = r.att
         /\ OnNodeSkipped(r).count = r.count
         /\ OnNodeSkipped(r).latest = r.latest
         /\ OnNodeSkipped(r).att = r.att
         /\ OnNodeCancelRequested(r).count = r.count
         /\ OnNodeCancelRequested(r).latest = r.latest
         /\ OnNodeCancelRequested(r).att = r.att
         /\ OnNodeCancelled(r, 0).count = r.count
         /\ OnNodeCancelled(r, 0).latest = r.latest
         /\ OnNodeCancelled(r, 0).att = r.att
  BY DEF EnsureRunNode, OnNodeSkipped, OnNodeCancelRequested, OnNodeCancelled, Row

\* What CancelRun leaves in the row of each node.
LEMMA CancelNodeFields ==
  ASSUME NEW r \in Row
  PROVE  /\ CancelNode(r).count = r.count
         /\ CancelNode(r).latest = r.latest
         /\ CancelNode(r).att = r.att
         /\ CancelNode(r).status =
              IF r.status \in {"running", "uncertain", "reconciling"} THEN "cancel_requested"
              ELSE IF r.status \in Terminal \cup {"cancel_requested"} THEN r.status
              ELSE "cancelled"
<1>1. CASE r.status \in {"running", "uncertain", "reconciling"}
  BY <1>1, CancelRequestedType, MaterialisedFields DEF CancelNode, Terminal
<1>2. CASE r.status \in Terminal \cup {"cancel_requested"}
  BY <1>2 DEF CancelNode, Terminal
<1>3. CASE r.status \notin {"running", "uncertain", "reconciling"} \cup Terminal \cup {"cancel_requested"}
  <2>1. /\ EnsureRunNode(r) \in Row
        /\ EnsureRunNode(r).status = IF r.status = "absent" THEN "pending" ELSE r.status
    BY EnsureType
  <2>2. 0 \in 0 .. AttemptBound
    BY AttemptBoundAssumption
  <2>3. OnNodeCancelled(EnsureRunNode(r), 0).status = "cancelled"
    BY <1>3, <2>1, <2>2, CancelledType DEF Terminal
  <2>4. CancelNode(r) = OnNodeCancelled(EnsureRunNode(r), 0)
    BY <1>3 DEF CancelNode
  <2> QED
    BY <1>3, <2>1, <2>3, <2>4, MaterialisedFields
<1> QED
  BY <1>1, <1>2, <1>3
=============================================================================
