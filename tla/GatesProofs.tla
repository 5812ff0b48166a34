----------------------------- MODULE GatesProofs -----------------------------
(***************************************************************************)
(* Gates for every graph, contract, schedule of crashes and set of keys:   *)
(* type correctness, the refinement of WaitOutcome and the properties of   *)
(* answers.  The inductive invariant says, per gate, which rows, workers   *)
(* and recovery lists go with each outcome.                                *)
(***************************************************************************)
EXTENDS Gates, ProjectionProofs

\* The handlers are assignments: every proof sees through them.
USE DEF OnApprovalRequested, OnApprovalDecided, OnExternalWaitRequested,
        OnExternalWaitEnded, OnRunTerminal

Inflight == {"running", "uncertain", "reconciling"}

\* What the outcome o of gate n allows: its row r, the routes t, the worker w
\* and the recovery list's entry c.
Consistent(n, o, r, t, w, c) ==
  /\ r.latest <= r.count + 1
  /\ w.pc = "listed" => w.att \in Attempts /\ r.latest <= w.att
  /\ o = "open" => r.status \in {"waiting", "cancelled"}
  /\ o \notin {"none", "open"} => r.status \in Terminal
  /\ o \in {"none", "open"} => t = {}
  /\ w.pc = "claimed" => o = "none" /\ r.status \in {"running"} \cup Cancelling
  /\ n \in Humans /\ w.pc = "claimed" => r.lease = "valid" /\ c = "no"
  /\ n \in Humans /\ c # "no" => o = "none" /\ r.status \in Inflight \cup Cancelling

GateInv(n) == Consistent(n, Outcome(n), row[n], routed[n], worker[n], rec[n])

\* An expired approval has no decision.
ExpiredIsOpen == \A n \in Humans : Recorded(ExpiryKey(n)) => decision[n] = "null"

Ind == TypeOK /\ ExpiredIsOpen /\ \A n \in Gates : GateInv(n)

-----------------------------------------------------------------------------
(***************************************************************************)
(* Rows.                                                                   *)
(***************************************************************************)
\* What no handler but node_started and node_requeued changes.
SameAttempts(r, s) == s.latest = r.latest /\ s.count = r.count /\ s.lease = r.lease

\* node_finished and node_failed as gates use them: without attempt row, at
\* the node's attempt_count.
LEMMA GateTerminal ==
  ASSUME NEW r \in Row, NEW s \in {"succeeded", "failed"}
  PROVE  LET q == OnNodeTerminal(r, s, r.count, FALSE)
         IN  /\ q \in Row /\ SameAttempts(r, q)
             /\ q.status = IF r.status \in Cancelling THEN r.status ELSE s
<1> DEFINE att == IF r.att[r.count] \notin {"none", "cancelled"}
                  THEN [r.att EXCEPT ![r.count] = s] ELSE r.att
           status == IF r.status \in Cancelling THEN r.status ELSE s
<1>1. Larger(r.count, r.count) = r.count
  BY DEF Larger
<1>2. OnNodeTerminal(r, s, r.count, FALSE) = [r EXCEPT !.att = att, !.status = status]
  BY <1>1 DEF OnNodeTerminal, Row
<1>3. att \in [Attempts -> AttemptStatus]
  BY DEF Row, AttemptStatus
<1>4. status \in NodeStatus
  BY DEF Row, NodeStatus
<1> HIDE DEF att
<1> QED
  BY <1>2, <1>3, <1>4 DEF Row, SameAttempts

\* CancelRun's event leaves every row final or about to be cancelled.
LEMMA GateCancelNode ==
  ASSUME NEW r \in Row
  PROVE  /\ CancelNode(r) \in Row /\ SameAttempts(r, CancelNode(r))
         /\ CancelNode(r).status =
              IF r.status \in Inflight THEN "cancel_requested"
              ELSE IF r.status \in Terminal \cup {"cancel_requested"} THEN r.status
              ELSE "cancelled"
<1>1. CASE r.status \in Inflight
  BY <1>1 DEF CancelNode, OnNodeCancelRequested, Row, NodeStatus, SameAttempts, Inflight, Terminal
<1>2. CASE r.status \notin Inflight /\ r.status \in Terminal \cup {"cancel_requested"}
  BY <1>2 DEF CancelNode, SameAttempts, Inflight
<1>3. CASE r.status \notin Inflight \cup Terminal \cup {"cancel_requested"}
  <2> DEFINE e == EnsureRunNode(r)
  <2>1. e \in Row /\ e.status \notin Terminal /\ SameAttempts(r, e)
    BY <1>3, EnsureType DEF EnsureRunNode, Row, SameAttempts, Terminal
  <2>2. CancelNode(r) = OnNodeCancelled(e, 0)
    BY <1>3 DEF CancelNode, Inflight
  <2> HIDE DEF e
  <2>3. OnNodeCancelled(e, 0) \in Row /\ OnNodeCancelled(e, 0).status = "cancelled"
    BY <2>1, CancelledType, AttemptBoundAssumption
  <2>4. SameAttempts(e, OnNodeCancelled(e, 0))
    BY <2>1 DEF OnNodeCancelled, SameAttempts, Row
  <2> QED
    BY <1>3, <2>1, <2>2, <2>3, <2>4 DEF SameAttempts
<1> QED
  BY <1>1, <1>2, <1>3

\* A claim: an attempt row, if there is one, has a valid lease.
LEMMA GateStarted ==
  ASSUME NEW r \in Row, NEW a \in Attempts, NEW keyed \in BOOLEAN,
         r.latest <= r.count + 1, r.latest <= a
  PROVE  LET q == OnNodeStarted(EnsureRunNode(r), a, keyed)
         IN  /\ q \in Row /\ q.status = "running"
             /\ q.latest <= q.count + 1
             /\ keyed => q.lease = "valid"
<1> DEFINE e == EnsureRunNode(r)
           q == OnNodeStarted(e, a, keyed)
<1>1. e \in Row /\ e.latest = r.latest /\ e.count = r.count
  BY EnsureType DEF EnsureRunNode, Row
<1> HIDE DEF e
<1>2. q \in Row /\ q.status = "running"
  BY <1>1, StartedType
<1>3. q.count = Larger(e.count, a) /\ q.latest = (IF keyed THEN Larger(e.latest, a) ELSE e.latest)
      /\ q.lease = IF keyed /\ a >= e.latest THEN "valid" ELSE e.lease
  BY <1>1 DEF OnNodeStarted, Row
<1>4. q.latest <= q.count + 1
  BY <1>1, <1>3, AttemptBoundAssumption DEF Larger, Row, Attempts
<1>5. keyed => q.lease = "valid"
  BY <1>1, <1>3, AttemptBoundAssumption DEF Row, Attempts
<1> HIDE DEF q
<1> QED
  BY <1>2, <1>4, <1>5 DEF q, e

\* The events of registration, cancellation and recovery.
LEMMA GateWaiting ==
  ASSUME NEW r \in Row
  PROVE  SameAttempts(r, OnNodeWaiting(r)) /\ SameAttempts(r, OnNodeReconciling(r))
  BY DEF OnNodeWaiting, OnNodeReconciling, SameAttempts, Row

\* node_cancelled changes statuses only: the row stays typed, its attempt numbers as they are.
LEMMA GateCancelled ==
  ASSUME NEW r \in Row, NEW a \in 0 .. AttemptBound
  PROVE  SameAttempts(r, OnNodeCancelled(r, a))
  BY DEF OnNodeCancelled, SameAttempts, Row

\* node_requeued keeps the attempt of a resumed node, and the attempt numbers without one.
LEMMA GateRequeued ==
  ASSUME NEW r \in Row, r.latest <= r.count + 1
  PROVE  /\ OnNodeRequeued(r, r.latest, TRUE).latest <= OnNodeRequeued(r, r.latest, TRUE).count + 1
         /\ OnNodeRequeued(r, r.latest, TRUE).latest = r.latest
         /\ SameAttempts(r, OnNodeRequeued(r, 0, FALSE))
  BY AttemptBoundAssumption DEF OnNodeRequeued, SameAttempts, Row

-----------------------------------------------------------------------------
(***************************************************************************)
(* Steps that leave every outcome as it is.                                *)
(***************************************************************************)
\* An outcome is made of the decision, the wait and the log.
LEMMA OutcomeStays ==
  ASSUME NEW n \in Gates, UNCHANGED <<decision, wait, log>>
  PROVE  Outcome(n)' = Outcome(n)
  BY DEF Outcome, Recorded

\* A gate nothing has happened to stays consistent.
LEMMA GateStays ==
  ASSUME NEW n \in Gates, GateInv(n),
         Outcome(n)' = Outcome(n), row'[n] = row[n], routed'[n] = routed[n],
         worker'[n] = worker[n], rec'[n] = rec[n]
  PROVE  GateInv(n)'
  BY DEF GateInv

\* The attempt number of a claim is that of the row, plus one.
LEMMA ListInd == ASSUME Ind, NEW n \in Gates, List(n) PROVE Ind'
<1>1. TypeOK'
  <2>1. row[n].count + 1 \in 0 .. AttemptBound
    BY AttemptBoundAssumption DEF Ind, TypeOK, List, Row
  <2> QED
    BY <2>1 DEF Ind, TypeOK, List, gateVars
<1>2. ASSUME NEW m \in Gates PROVE GateInv(m)'
  <2>1. Outcome(m)' = Outcome(m)
    BY OutcomeStays DEF List, gateVars
  <2>2. CASE m # n
    BY <2>1, <2>2, GateStays DEF Ind, TypeOK, List, gateVars
  <2>3. CASE m = n
    BY <2>1, <2>3, AttemptBoundAssumption
    DEF Ind, TypeOK, List, gateVars, Row, GateInv, Consistent, Attempts
  <2> QED
    BY <2>2, <2>3
<1> QED
  BY <1>1, <1>2 DEF Ind, List, gateVars, ExpiredIsOpen, Recorded

\* Only a gate without outcome is claimed, and nobody is recovering it.
LEMMA ClaimInd == ASSUME Ind, NEW n \in Gates, Claim(n) PROVE Ind'
<1> DEFINE q == OnNodeStarted(EnsureRunNode(row[n]), worker[n].att, n \in Humans)
<1> USE DEF Ind
<1>1. /\ q \in Row /\ q.status = "running" /\ q.latest <= q.count + 1
      /\ n \in Humans => q.lease = "valid"
  <2>1. row[n] \in Row /\ (n \in Humans) \in BOOLEAN
    BY DEF TypeOK
  <2>2. /\ worker[n].att \in Attempts /\ row[n].latest <= worker[n].att
        /\ row[n].latest <= row[n].count + 1
    BY DEF GateInv, Consistent, Claim
  <2> QED
    BY <2>1, <2>2, GateStarted
<1> HIDE DEF q
<1>2. CASE Claimable(n)
  <2>1. /\ row' = [row EXCEPT ![n] = q] /\ worker' = [worker EXCEPT ![n].pc = "claimed"]
        /\ UNCHANGED <<run, gateVars, request, scan, rec, faults>>
    BY <1>2 DEF Claim, q
  <2>2. TypeOK'
    BY <1>1, <2>1 DEF TypeOK, gateVars
  <2>3. ASSUME NEW m \in Gates PROVE GateInv(m)'
    <3>1. Outcome(m)' = Outcome(m)
      BY <2>1, OutcomeStays DEF gateVars
    <3>2. CASE m # n
      BY <2>1, <3>1, <3>2, GateStays DEF TypeOK, gateVars
    <3>3. CASE m = n
      <4>1. Outcome(n) = "none" /\ (n \in Humans => rec[n] = "no")
        BY <1>2 DEF Claimable, GateInv, Consistent, Terminal, Inflight, Cancelling
      <4>2. row'[n] = q /\ worker'[n].pc = "claimed" /\ routed'[n] = routed[n] /\ rec'[n] = rec[n]
        BY <2>1 DEF TypeOK, gateVars
      <4> QED
        BY <1>1, <3>1, <3>3, <4>1, <4>2 DEF GateInv, Consistent
    <3> QED
      BY <3>2, <3>3
  <2> QED
    BY <2>1, <2>2, <2>3 DEF ExpiredIsOpen, Recorded, gateVars
<1>3. CASE ~Claimable(n)
  <2>1. /\ worker' = [worker EXCEPT ![n] = Free]
        /\ UNCHANGED <<run, row, gateVars, request, scan, rec, faults>>
    BY <1>3 DEF Claim
  <2>2. TypeOK'
    BY <2>1, AttemptBoundAssumption DEF TypeOK, gateVars, Free
  <2>3. ASSUME NEW m \in Gates PROVE GateInv(m)'
    <3>1. Outcome(m)' = Outcome(m)
      BY <2>1, OutcomeStays DEF gateVars
    <3> QED
      BY <2>1, <3>1, GateStays DEF TypeOK, gateVars, GateInv, Consistent, Free
  <2> QED
    BY <2>1, <2>2, <2>3 DEF ExpiredIsOpen, Recorded, gateVars
<1> QED
  BY <1>2, <1>3

\* A cancelled row stays cancelled.
LEMMA CancelledNodeInd == ASSUME Ind, NEW n \in Gates, CancelledNode(n) PROVE Ind'
<1> DEFINE a == IF n \in Humans THEN worker[n].att ELSE 0
           q == OnNodeCancelled(row[n], a)
<1> USE DEF Ind
<1>1. a \in 0 .. AttemptBound /\ row[n] \in Row
  BY AttemptBoundAssumption DEF TypeOK
<1> HIDE DEF a
<1>2. q \in Row /\ SameAttempts(row[n], q)
      /\ q.status = IF row[n].status \in Terminal THEN row[n].status ELSE "cancelled"
  BY <1>1, CancelledType, GateCancelled
<1> HIDE DEF q
<1>3. /\ row' = [row EXCEPT ![n] = q] /\ worker' = [worker EXCEPT ![n] = Free]
      /\ UNCHANGED <<run, gateVars, request, scan, rec, faults>>
      /\ worker[n].pc = "claimed" /\ row[n].status \in Cancelling
  BY DEF CancelledNode, Return, a, q
<1>4. TypeOK'
  BY <1>2, <1>3, AttemptBoundAssumption DEF TypeOK, gateVars, Free
<1>5. ASSUME NEW m \in Gates PROVE GateInv(m)'
  <2>1. Outcome(m)' = Outcome(m)
    BY <1>3, OutcomeStays DEF gateVars
  <2>2. CASE m # n
    BY <1>3, <2>1, <2>2, GateStays DEF TypeOK, gateVars
  <2>3. CASE m = n
    BY <1>2, <1>3, <2>1, <2>3
    DEF TypeOK, gateVars, GateInv, Consistent, Free, SameAttempts, Cancelling, Terminal
  <2> QED
    BY <2>2, <2>3
<1> QED
  BY <1>3, <1>4, <1>5 DEF ExpiredIsOpen, Recorded, gateVars

\* Actions that move no row, worker, route or recovery list of any gate, and
\* log no answer.
LEMMA QuietInd ==
  ASSUME Ind, TypeOK', UNCHANGED <<row, decision, wait, log, routed, worker, rec>>
  PROVE  Ind'
<1>1. ASSUME NEW m \in Gates PROVE GateInv(m)'
  BY <1>1, OutcomeStays, GateStays DEF Ind
<1> QED
  BY <1>1 DEF Ind, ExpiredIsOpen, Recorded

\* A decision that is only asked for changes no gate.
LEMMA AskDecisionInd ==
  ASSUME Ind, NEW n \in Humans, NEW d \in {"grant", "deny"}, NEW k \in Keys,
         AskDecision(n, d, k)
  PROVE  Ind'
<1>1. TypeOK'
  BY DEF Ind, TypeOK, AskDecision, gateVars
<1> QED
  BY <1>1, QuietInd DEF AskDecision, gateVars

\* A deadline that passes changes no gate.
LEMMA PassDeadlineInd == ASSUME Ind, NEW n \in Gates, PassDeadline(n) PROVE Ind'
<1>1. TypeOK'
  BY DEF Ind, TypeOK, PassDeadline, procVars
<1> QED
  BY <1>1, QuietInd DEF PassDeadline, procVars

\* A scan that lists expired gates changes none.
LEMMA ListExpiredInd == ASSUME Ind, ListExpired PROVE Ind'
<1>1. TypeOK'
  BY DEF Ind, TypeOK, ListExpired, gateVars
<1> QED
  BY <1>1, QuietInd DEF ListExpired, gateVars

\* Abandoning or completing a run leaves its gates as they are.
LEMMA EndRunInd ==
  ASSUME Ind, NEW r \in Runs, AbandonRun(r) \/ TryCompleteRun(r)
  PROVE  Ind'
<1>1. TypeOK'
  BY DEF Ind, TypeOK, AbandonRun, TryCompleteRun, Verdict, gateVars, procVars
<1> QED
  BY <1>1, QuietInd DEF AbandonRun, TryCompleteRun, gateVars, procVars

\* A crash forgets the workers and the recovery list.
LEMMA CrashInd == ASSUME Ind, Crash PROVE Ind'
<1>1. TypeOK'
  BY AttemptBoundAssumption, GatesAssumption DEF Ind, TypeOK, Crash, gateVars, Free
<1>2. ASSUME NEW m \in Gates PROVE GateInv(m)'
  <2>1. Outcome(m)' = Outcome(m)
    BY OutcomeStays DEF Crash, gateVars
  <2>2. worker'[m].pc = "idle" /\ rec'[m] = "no"
    BY DEF Crash, Free
  <2> QED
    BY <2>1, <2>2 DEF Ind, Crash, gateVars, GateInv, Consistent
<1> QED
  BY <1>1, <1>2 DEF Ind, Crash, gateVars, ExpiredIsOpen, Recorded

\* The lease of a claimed approval does not run out.
LEMMA ExpireLeaseInd == ASSUME Ind, NEW n \in Gates, ExpireLease(n) PROVE Ind'
<1> DEFINE q == [row[n] EXCEPT !.lease = "expired"]
<1>1. q \in Row /\ q.latest = row[n].latest /\ q.count = row[n].count /\ q.status = row[n].status
  <2>1. row[n] \in Row
    BY DEF Ind, TypeOK
  <2> QED
    BY <2>1 DEF Row
<1> HIDE DEF q
<1>2. /\ row' = [row EXCEPT ![n] = q] /\ worker[n].pc # "claimed"
      /\ UNCHANGED <<run, gateVars, procVars, faults>>
  BY DEF ExpireLease, q, Ind, TypeOK
<1>3. TypeOK'
  BY <1>1, <1>2 DEF Ind, TypeOK, gateVars, procVars
<1>4. ASSUME NEW m \in Gates PROVE GateInv(m)'
  <2>1. Outcome(m)' = Outcome(m)
    BY <1>2, OutcomeStays DEF gateVars
  <2>2. CASE m # n
    BY <1>2, <2>1, <2>2, GateStays DEF Ind, TypeOK, gateVars, procVars
  <2>3. CASE m = n
    BY <1>1, <1>2, <2>1, <2>3 DEF Ind, TypeOK, gateVars, procVars, GateInv, Consistent
  <2> QED
    BY <2>2, <2>3
<1> QED
  BY <1>2, <1>3, <1>4 DEF Ind, ExpiredIsOpen, Recorded, gateVars

\* What Recover lists of the approvals has no worker: a claimed one has a
\* valid lease.
LEMMA RecoverScanInd == ASSUME Ind, NEW r \in Runs, RecoverScan(r) PROVE Ind'
<1>1. TypeOK'
  BY DEF Ind, TypeOK, RecoverScan, gateVars
<1>2. ASSUME NEW m \in Gates PROVE GateInv(m)'
  <2>1. Outcome(m)' = Outcome(m)
    BY OutcomeStays DEF RecoverScan, gateVars
  <2>2. \/ rec'[m] = "no"
        \/ row[m].lease # "valid" /\ row[m].status \in Inflight \cup {"cancel_requested"}
    BY DEF RecoverScan, Inflight
  <2>3. Outcome(m) \in {"none", "open"} \/ row[m].status \in Terminal
    BY DEF Ind, GateInv, Consistent
  <2>4. CASE rec'[m] = "no"
    BY <2>1, <2>4 DEF Ind, RecoverScan, gateVars, GateInv, Consistent
  <2>5. CASE row[m].lease # "valid" /\ row[m].status \in Inflight \cup {"cancel_requested"}
    <3>1. Outcome(m) = "none"
      BY <2>3, <2>5 DEF Ind, GateInv, Consistent, Inflight, Terminal
    <3> QED
      BY <2>1, <2>5, <3>1 DEF Ind, RecoverScan, gateVars, GateInv, Consistent, Cancelling
  <2> QED
    BY <2>2, <2>4, <2>5
<1> QED
  BY <1>1, <1>2 DEF Ind, RecoverScan, gateVars, ExpiredIsOpen, Recorded

\* Recovery moves only approvals without outcome, and no worker has them.
LEMMA RecoverHumanInd == ASSUME Ind, NEW n \in Gates, RecoverHuman(n) PROVE Ind'
<1> DEFINE r == row[n]
<1>1. /\ r \in Row /\ r.latest <= r.count + 1 /\ n \in Humans
      /\ Outcome(n) = "none" /\ worker[n].pc # "claimed"
      /\ r.status \in Inflight \cup Cancelling
  BY DEF Ind, TypeOK, GateInv, Consistent, RecoverHuman
<1>2. r.latest \in 0 .. AttemptBound /\ 0 \in 0 .. AttemptBound
  BY <1>1, AttemptBoundAssumption DEF Row
<1>3. PICK q \in {r, OnNodeCancelled(r, r.latest), OnNodeRequeued(r, 0, FALSE),
                  OnNodeRequeued(r, r.latest, TRUE), OnNodeReconciling(r), OnNodeWaiting(r)} :
        /\ row' = [row EXCEPT ![n] = q]
        /\ \/ rec' = [rec EXCEPT ![n] = "no"]
           \/ rec' = [rec EXCEPT ![n] = "reconciling"] /\ q = OnNodeReconciling(r)
  <2>1. row = [row EXCEPT ![n] = r]
    BY DEF Ind, TypeOK
  <2>2. CASE rec[n] = "cancel_requested"
    <3>1. /\ row' = row \/ row' = [row EXCEPT ![n] = OnNodeCancelled(r, r.latest)]
          /\ rec' = [rec EXCEPT ![n] = "no"]
      BY <2>2 DEF RecoverHuman
    <3> QED
      BY <2>1, <3>1
  <2>3. CASE rec[n] # "cancel_requested"
    <3>1. \/ /\ \/ row' = row
                \/ row' = [row EXCEPT ![n] = OnNodeRequeued(r, 0, FALSE)]
                \/ row' = [row EXCEPT ![n] = OnNodeRequeued(r, r.latest, TRUE)]
                \/ row' = [row EXCEPT ![n] = OnNodeWaiting(r)]
             /\ rec' = [rec EXCEPT ![n] = "no"]
          \/ /\ row' = [row EXCEPT ![n] = OnNodeReconciling(r)]
             /\ rec' = [rec EXCEPT ![n] = "reconciling"]
      BY <2>3 DEF RecoverHuman, AppendTransition
    <3> QED
      BY <2>1, <3>1
  <2> QED
    BY <2>2, <2>3
<1>4. UNCHANGED <<run, gateVars, worker, request, scan, faults>>
  BY DEF RecoverHuman
<1> HIDE DEF r
<1>5. /\ q \in Row /\ q.latest = r.latest /\ q.latest <= q.count + 1
      /\ q = OnNodeReconciling(r) => q.status \in Inflight \cup Cancelling
  <2>1. OnNodeCancelled(r, r.latest) \in Row /\ SameAttempts(r, OnNodeCancelled(r, r.latest))
    BY <1>1, <1>2, CancelledType, GateCancelled
  <2>2. OnNodeRequeued(r, 0, FALSE) \in Row /\ OnNodeRequeued(r, r.latest, TRUE) \in Row
    BY <1>1, <1>2, RequeuedType
  <2>3. OnNodeReconciling(r) \in Row /\ OnNodeWaiting(r) \in Row
        /\ OnNodeReconciling(r).status \in Inflight \cup Cancelling
    BY <1>1, ReconcilingType, WaitingType DEF Inflight
  <2>4. /\ OnNodeRequeued(r, r.latest, TRUE).latest <= OnNodeRequeued(r, r.latest, TRUE).count + 1
        /\ OnNodeRequeued(r, r.latest, TRUE).latest = r.latest
        /\ SameAttempts(r, OnNodeRequeued(r, 0, FALSE))
        /\ SameAttempts(r, OnNodeReconciling(r)) /\ SameAttempts(r, OnNodeWaiting(r))
    BY <1>1, GateRequeued, GateWaiting
  <2>5. CASE q = OnNodeRequeued(r, r.latest, TRUE)
    BY <2>2, <2>3, <2>4, <2>5
  <2>6. CASE q # OnNodeRequeued(r, r.latest, TRUE)
    <3>1. q \in Row /\ SameAttempts(r, q)
      BY <1>1, <1>3, <2>1, <2>2, <2>3, <2>4, <2>6 DEF SameAttempts
    <3> QED
      BY <1>1, <2>3, <3>1 DEF SameAttempts
  <2> QED
    BY <2>5, <2>6
<1>6. TypeOK'
  BY <1>3, <1>4, <1>5 DEF Ind, TypeOK, gateVars
<1>7. ASSUME NEW m \in Gates PROVE GateInv(m)'
  <2>1. Outcome(m)' = Outcome(m)
    BY <1>4, OutcomeStays DEF gateVars
  <2>2. CASE m # n
    BY <1>3, <1>4, <2>1, <2>2, GateStays DEF Ind, TypeOK, gateVars
  <2>3. CASE m = n
    <3>1. row'[n] = q /\ (rec'[n] = "no" \/ q.status \in Inflight \cup Cancelling)
      BY <1>3, <1>5 DEF Ind, TypeOK
    <3> QED
      BY <1>1, <1>4, <1>5, <2>1, <2>3, <3>1 DEF Ind, gateVars, GateInv, Consistent, r
  <2> QED
    BY <2>2, <2>3
<1> QED
  BY <1>4, <1>6, <1>7 DEF Ind, ExpiredIsOpen, Recorded, gateVars

\* Recover gives up at a gate node.
LEMMA RecoverGateInd == ASSUME Ind, NEW n \in Gates, RecoverGate(n) PROVE Ind'
<1>1. TypeOK'
  BY DEF Ind, TypeOK, RecoverGate, gateVars
<1>2. ASSUME NEW m \in Gates PROVE GateInv(m)'
  <2>1. Outcome(m)' = Outcome(m)
    BY OutcomeStays DEF RecoverGate, gateVars
  <2> QED
    BY <2>1 DEF Ind, RecoverGate, gateVars, GateInv, Consistent
<1> QED
  BY <1>1, <1>2 DEF Ind, RecoverGate, gateVars, ExpiredIsOpen, Recorded

-----------------------------------------------------------------------------
(***************************************************************************)
(* Steps that open or resolve a gate.                                      *)
(***************************************************************************)
\* Keys of decisions and deliveries are not those of expiries, and two
\* approvals expire under different ones.
LEMMA ExpiryKeyApart ==
  ASSUME NEW n \in Humans
  PROVE  /\ ExpiryKey(n) \in ExpiryKeys /\ ExpiryKey(n) \notin Keys
         /\ \A m \in Humans : ExpiryKey(m) = ExpiryKey(n) => m = n
  BY KeysAssumption DEF ExpiryKeys, ExpiryKey

\* An outcome changes with the gate's own decision, wait or expiry only.
LEMMA OutcomeOf ==
  ASSUME NEW n \in Gates,
         n \in Humans => decision'[n] = decision[n] /\ log'[ExpiryKey(n)] = log[ExpiryKey(n)],
         n \in Externals => wait'[n] = wait[n]
  PROVE  Outcome(n)' = Outcome(n)
  BY DEF Outcome, Recorded, Gates

\* What WaitOutcome allows gate n to do.
Promised(n) ==
  \/ Outcome(n)' = Outcome(n) /\ routed'[n] = routed[n]
  \/ Outcome(n) = "none" /\ Outcome(n)' = "open" /\ routed'[n] = routed[n]
  \/ /\ Outcome(n) = "open" /\ Outcome(n)' \in {"grant", "deny", "completed", "expired", "cancelled"}
     /\ routed'[n] \in LeadsOf(n)[Outcome(n)']

\* What FinalStays demands of gate n.
Kept(n) ==
  /\ row[n].status \in Terminal => row'[n].status = row[n].status
  /\ n \in Humans /\ ~Running(n) => Outcome(n)' = Outcome(n)

\* The routes of which one is taken.
To(n, routes) ==
  IF routes \cap Outgoing[n] = {} THEN {{}} ELSE {{c} : c \in routes \cap Outgoing[n]}

\* The routes of each outcome, as the promise gives them.
LEMMA LeadsTo ==
  ASSUME NEW n \in Gates
  PROVE  /\ LeadsOf(n)["grant"] = To(n, {"success"})
         /\ LeadsOf(n)["deny"] = To(n, {"denied", "failure"})
         /\ LeadsOf(n)["completed"] = To(n, {"success"}) \cup To(n, {"failure"})
         /\ LeadsOf(n)["expired"] = To(n, {"timeout"})
         /\ LeadsOf(n)["cancelled"] = {{}}
  BY DEF LeadsOf, To

\* A node that finishes or fails, and the routes it takes.
Ends(n, routes) ==
  /\ \E q \in Row :
       /\ row' = [row EXCEPT ![n] = q] /\ SameAttempts(row[n], q)
       /\ \/ row[n].status \in Cancelling /\ q.status = row[n].status
          \/ row[n].status \notin Cancelling /\ q.status \in {"succeeded", "failed"}
  /\ \E t \in To(n, routes) :
       routed' = [routed EXCEPT ![n] = t]

\* node_finished with a route ends the node by that route.
LEMMA FinishEnds ==
  ASSUME TypeOK, NEW n \in Gates, NEW c, routed[n] = {}, FinishWith(n, c)
  PROVE  Ends(n, {c})
<1>1. row[n] \in Row
  BY DEF TypeOK
<1>2. \E q \in Row :
       /\ row' = [row EXCEPT ![n] = q] /\ SameAttempts(row[n], q)
       /\ \/ row[n].status \in Cancelling /\ q.status = row[n].status
          \/ row[n].status \notin Cancelling /\ q.status \in {"succeeded", "failed"}
  BY <1>1, GateTerminal DEF FinishWith, TypeOK
<1>3. {c} \cap Outgoing[n] \in To(n, {c})
  BY DEF To
<1>4. routed' = [routed EXCEPT ![n] = {c} \cap Outgoing[n]]
  BY DEF FinishWith, TypeOK
<1> QED
  BY <1>2, <1>3, <1>4 DEF Ends

\* RouteOrFail ends the node by one of the routes, or fails it without any.
LEMMA RouteEnds ==
  ASSUME TypeOK, NEW n \in Gates, NEW routes, routed[n] = {}, RouteOrFail(n, routes)
  PROVE  Ends(n, routes)
<1>1. CASE \E c \in routes \cap Outgoing[n] : FinishWith(n, c)
  <2>1. PICK c \in routes \cap Outgoing[n] : FinishWith(n, c)
    BY <1>1
  <2>2. Ends(n, {c})
    BY <2>1, FinishEnds
  <2>3. To(n, {c}) \subseteq To(n, routes)
    BY <2>1 DEF To
  <2> QED
    BY <2>2, <2>3 DEF Ends
<1>2. CASE routes \cap Outgoing[n] = {} /\ Fail(n)
  <2>1. row[n] \in Row
    BY DEF TypeOK
  <2>2. \E q \in Row :
       /\ row' = [row EXCEPT ![n] = q] /\ SameAttempts(row[n], q)
       /\ \/ row[n].status \in Cancelling /\ q.status = row[n].status
          \/ row[n].status \notin Cancelling /\ q.status \in {"succeeded", "failed"}
    BY <1>2, <2>1, GateTerminal DEF Fail, TypeOK
  <2>3. {} \in To(n, routes) /\ routed' = [routed EXCEPT ![n] = {}]
    BY <1>2 DEF To, Fail, TypeOK
  <2> QED
    BY <2>2, <2>3 DEF Ends
<1> QED
  BY <1>1, <1>2 DEF RouteOrFail

\* A node that ends takes routes of its definition.
LEMMA EndsTyped ==
  ASSUME TypeOK, NEW n \in Gates, NEW routes, Ends(n, routes)
  PROVE  routed' \in [Gates -> SUBSET {"success", "denied", "failure", "timeout"}]
<1>1. Outgoing[n] \subseteq {"success", "denied", "failure", "timeout"}
  BY GatesAssumption
<1>2. PICK t \in To(n, routes) : routed' = [routed EXCEPT ![n] = t]
  BY DEF Ends
<1>3. t \subseteq Outgoing[n]
  BY DEF To
<1> QED
  BY <1>1, <1>2, <1>3 DEF TypeOK

\* A gate that is resolved was open, and its node did not end before.
LEMMA Resolved ==
  ASSUME Ind, NEW n \in Gates, NEW routes, Ends(n, routes),
         Outcome(n) = "open",
         Outcome(n)' \in {"grant", "deny", "completed", "expired"},
         To(n, routes) \subseteq LeadsOf(n)[Outcome(n)'],
         n \in Humans => Running(n),
         \A m \in Gates \ {n} : Outcome(m)' = Outcome(m),
         UNCHANGED <<worker, rec>>
  PROVE  /\ row' \in [Gates -> Row]
         /\ \A m \in Gates : GateInv(m)' /\ Promised(m) /\ Kept(m)
<1>1. PICK q \in Row :
       /\ row' = [row EXCEPT ![n] = q] /\ SameAttempts(row[n], q)
       /\ \/ row[n].status \in Cancelling /\ q.status = row[n].status
          \/ row[n].status \notin Cancelling /\ q.status \in {"succeeded", "failed"}
  BY DEF Ends
<1>2. PICK t \in To(n, routes) : routed' = [routed EXCEPT ![n] = t]
  BY DEF Ends
<1>3. row' \in [Gates -> Row] /\ row'[n] = q /\ routed'[n] = t
  BY <1>1, <1>2 DEF Ind, TypeOK
<1>4. ASSUME NEW m \in Gates PROVE GateInv(m)' /\ Promised(m) /\ Kept(m)
  <2>1. CASE m # n
    <3>1. row'[m] = row[m] /\ routed'[m] = routed[m]
      BY <1>1, <1>2, <2>1 DEF Ind, TypeOK
    <3> QED
      BY <2>1, <3>1, GateStays DEF Ind, Promised, Kept
  <2>2. CASE m = n
    <3>1. row[n].status \in {"waiting", "cancelled"} /\ worker[n].pc # "claimed"
          /\ (n \in Humans => rec[n] = "no")
      BY DEF Ind, GateInv, Consistent
    <3>2. q.status \in Terminal /\ (row[n].status = "cancelled" => q.status = "cancelled")
      BY <1>1, <3>1 DEF Terminal, Cancelling
    <3>3. GateInv(n)'
      BY <1>1, <1>3, <3>1, <3>2 DEF Ind, GateInv, Consistent, SameAttempts
    <3>4. Promised(n)
      BY <1>2, <1>3 DEF Promised
    <3>5. Kept(n)
      BY <1>3, <3>1, <3>2 DEF Kept, Terminal
    <3> QED
      BY <2>2, <3>3, <3>4, <3>5
  <2> QED
    BY <2>1, <2>2
<1> QED
  BY <1>3, <1>4

\* A gate opens when its node starts to wait.
LEMMA Opened ==
  ASSUME Ind, NEW n \in Gates,
         row' = [row EXCEPT ![n] = OnNodeWaiting(@)],
         worker' = [worker EXCEPT ![n] = Free],
         worker[n].pc = "claimed", Running(n), ~Closed(n),
         Outcome(n)' = "open",
         \A m \in Gates \ {n} : Outcome(m)' = Outcome(m),
         UNCHANGED <<routed, rec>>
  PROVE  /\ row' \in [Gates -> Row]
         /\ \A m \in Gates : GateInv(m)' /\ Promised(m) /\ Kept(m)
<1> DEFINE q == OnNodeWaiting(row[n])
<1>1. row[n] \in Row /\ Outcome(n) = "none" /\ row[n].status = "running"
      /\ (n \in Humans => rec[n] = "no")
  BY DEF Ind, TypeOK, GateInv, Consistent, Closed, Terminal, Cancelling
<1>2. q \in Row /\ q.status = "waiting" /\ SameAttempts(row[n], q)
  BY <1>1, WaitingType, GateWaiting DEF Cancelling
<1>3. row' = [row EXCEPT ![n] = q]
  BY DEF Ind, TypeOK
<1> HIDE DEF q
<1>4. row' \in [Gates -> Row] /\ row'[n] = q /\ worker'[n] = Free
  BY <1>2, <1>3 DEF Ind, TypeOK
<1>5. ASSUME NEW m \in Gates PROVE GateInv(m)' /\ Promised(m) /\ Kept(m)
  <2>1. CASE m # n
    <3>1. row'[m] = row[m] /\ worker'[m] = worker[m]
      BY <1>3, <2>1 DEF Ind, TypeOK
    <3> QED
      BY <2>1, <3>1, GateStays DEF Ind, Promised, Kept
  <2>2. CASE m = n
    BY <1>1, <1>2, <1>4, <2>2
    DEF Ind, GateInv, Consistent, SameAttempts, Free, Promised, Kept, Terminal
  <2> QED
    BY <2>1, <2>2
<1> QED
  BY <1>4, <1>5

\* A worker comes back without having opened its gate.
LEMMA Returned ==
  ASSUME Ind, NEW n \in Gates, worker' = [worker EXCEPT ![n] = Free],
         UNCHANGED <<row, decision, wait, log, routed, rec>>
  PROVE  \A m \in Gates : GateInv(m)' /\ Promised(m) /\ Kept(m)
<1>1. ASSUME NEW m \in Gates PROVE GateInv(m)' /\ Promised(m) /\ Kept(m)
  <2>1. Outcome(m)' = Outcome(m)
    BY OutcomeStays
  <2> QED
    BY <2>1 DEF Ind, TypeOK, GateInv, Consistent, Free, Promised, Kept
<1> QED
  BY <1>1

\* What every step does: the invariant, the promise, and what is final.
Good == Ind' /\ \A m \in Gates : Promised(m) /\ Kept(m)

\* Registering an approval opens the gate, or changes nothing but the worker.
LEMMA RegisterApprovalGood ==
  ASSUME Ind, NEW n \in Gates, RegisterApprovalGate(n)
  PROVE  Good
<1>1. n \in Humans /\ worker[n].pc = "claimed" /\ worker' = [worker EXCEPT ![n] = Free]
      /\ UNCHANGED <<run, wait, log, routed, request, scan, rec, faults>>
  BY DEF RegisterApprovalGate, Return
<1>2. Free \in [pc : {"idle", "listed", "claimed"}, att : 0 .. AttemptBound]
  BY AttemptBoundAssumption DEF Free
<1>3. CASE MayRegister(n) /\ decision[n] # "null"
  <2>1. decision' = [decision EXCEPT ![n] = "null"] /\ due' = due \ {n}
        /\ row' = [row EXCEPT ![n] = OnNodeWaiting(@)]
    BY <1>3 DEF RegisterApprovalGate
  <2>2. Outcome(n) = "none"
    BY <1>1 DEF Ind, GateInv, Consistent
  <2>3. ~Recorded(ExpiryKey(n)) /\ n \notin Externals
    BY <1>1, <2>2, GatesAssumption DEF Outcome
  <2>4. Outcome(n)' = "open"
    BY <1>1, <2>1, <2>3 DEF Outcome, Recorded, Ind, TypeOK
  <2>5. ASSUME NEW m \in Gates \ {n} PROVE Outcome(m)' = Outcome(m)
    BY <1>1, <2>1, <2>5, OutcomeOf DEF Ind, TypeOK
  <2>6. row' \in [Gates -> Row] /\ \A m \in Gates : GateInv(m)' /\ Promised(m) /\ Kept(m)
    BY <1>1, <1>3, <2>1, <2>4, <2>5, Opened DEF MayRegister
  <2>7. TypeOK'
    BY <1>1, <1>2, <2>1, <2>6 DEF Ind, TypeOK
  <2>8. ExpiredIsOpen'
    BY <1>1, <2>1 DEF Ind, ExpiredIsOpen, Recorded, TypeOK
  <2> QED
    BY <2>6, <2>7, <2>8 DEF Good, Ind
<1>4. CASE ~(MayRegister(n) /\ decision[n] # "null")
  <2>1. UNCHANGED <<decision, due, row>>
    BY <1>4 DEF RegisterApprovalGate
  <2>2. TypeOK'
    BY <1>1, <1>2, <2>1 DEF Ind, TypeOK
  <2> QED
    BY <1>1, <2>1, <2>2, Returned DEF Good, Ind, ExpiredIsOpen, Recorded
<1> QED
  BY <1>3, <1>4

\* Registering an external wait opens the gate, or changes nothing but the worker.
LEMMA RegisterWaitGood ==
  ASSUME Ind, NEW n \in Gates, RegisterExternalWait(n)
  PROVE  Good
<1>1. n \in Externals /\ worker[n].pc = "claimed" /\ worker' = [worker EXCEPT ![n] = Free]
      /\ UNCHANGED <<run, decision, log, routed, request, scan, rec, faults>>
  BY DEF RegisterExternalWait, Return
<1>2. Free \in [pc : {"idle", "listed", "claimed"}, att : 0 .. AttemptBound]
  BY AttemptBoundAssumption DEF Free
<1>3. CASE MayRegister(n) /\ ~Taken(n)
  <2>1. wait' = [wait EXCEPT ![n] = "pending"] /\ due' = due \ {n}
        /\ row' = [row EXCEPT ![n] = OnNodeWaiting(@)]
    BY <1>3 DEF RegisterExternalWait
  <2>2. Outcome(n)' = "open"
    BY <1>1, <2>1 DEF Outcome, Ind, TypeOK
  <2>3. ASSUME NEW m \in Gates \ {n} PROVE Outcome(m)' = Outcome(m)
    BY <1>1, <2>1, <2>3, OutcomeOf DEF Ind, TypeOK
  <2>4. row' \in [Gates -> Row] /\ \A m \in Gates : GateInv(m)' /\ Promised(m) /\ Kept(m)
    BY <1>1, <1>3, <2>1, <2>2, <2>3, Opened DEF MayRegister
  <2>5. TypeOK'
    BY <1>1, <1>2, <2>1, <2>4 DEF Ind, TypeOK
  <2> QED
    BY <1>1, <2>4, <2>5 DEF Good, Ind, ExpiredIsOpen, Recorded
<1>4. CASE ~(MayRegister(n) /\ ~Taken(n))
  <2>1. UNCHANGED <<wait, due, row>>
    BY <1>4 DEF RegisterExternalWait
  <2>2. TypeOK'
    BY <1>1, <1>2, <2>1 DEF Ind, TypeOK
  <2> QED
    BY <1>1, <2>1, <2>2, Returned DEF Good, Ind, ExpiredIsOpen, Recorded
<1> QED
  BY <1>3, <1>4

\* A decision is applied to an open approval of a running run.
LEMMA DecideGood == ASSUME Ind, DecideApproval PROVE Good
<1>1. PICK n \in Humans, k \in Keys, d \in {"grant", "deny"} :
        request.gate = n /\ request.key = k /\ request.decision = d
  <2>1. request # NoRequest
    BY DEF DecideApproval
  <2>2. request \in [gate : Humans, decision : {"grant", "deny"}, key : Keys, late : BOOLEAN]
    BY <2>1 DEF Ind, TypeOK
  <2> QED
    BY <2>2
<1>0. n \in Gates /\ n \notin Externals /\ k # ExpiryKey(n) /\ ExpiryKey(n) \in ExpiryKeys
  BY ExpiryKeyApart, GatesAssumption DEF Gates
<1>2. /\ request' = NoRequest
      /\ UNCHANGED <<run, wait, due, worker, scan, rec, faults>>
  BY DEF DecideApproval
<1>3. CASE MayDecide(request)
  <2> DEFINE e == [type |-> IF d = "grant" THEN "approval_granted" ELSE "approval_denied",
                   gate |-> n]
             routes == IF d = "grant" THEN {"success"} ELSE {"denied", "failure"}
  <2>1. /\ decision' = [decision EXCEPT ![n] = d] /\ log' = [log EXCEPT ![k] = e]
        /\ d = "grant" => FinishWith(n, "success")
        /\ d # "grant" => RouteOrFail(n, {"denied", "failure"})
    BY <1>1, <1>3 DEF DecideApproval
  <2>2. decision[n] = "null" /\ ~Recorded(ExpiryKey(n)) /\ Running(n)
    BY <1>1, <1>3 DEF MayDecide
  <2>3. e \in [type : EventTypes, gate : Gates]
    BY <1>0, <1>1 DEF EventTypes, DecisionEvents
  <2> HIDE DEF e
  <2>4. Outcome(n) = "open" /\ routed[n] = {}
    <3>1. Outcome(n) = "open"
      BY <1>0, <1>1, <2>2 DEF Outcome
    <3> QED
      BY <1>0, <1>1, <3>1 DEF Ind, GateInv, Consistent
  <2>5. Ends(n, routes)
    BY <1>0, <1>1, <2>1, <2>4, FinishEnds, RouteEnds DEF Ind
  <2>6. ~Recorded(ExpiryKey(n))' /\ Outcome(n)' = d
    <3>1. log'[ExpiryKey(n)] = log[ExpiryKey(n)]
      BY <1>0, <1>1, <2>1 DEF Ind, TypeOK
    <3>2. ~Recorded(ExpiryKey(n))'
      BY <2>2, <3>1 DEF Recorded
    <3>3. decision'[n] = d /\ d # "null"
      BY <1>0, <1>1, <2>1 DEF Ind, TypeOK
    <3> QED
      BY <1>0, <1>1, <3>2, <3>3 DEF Outcome
  <2>7. To(n, routes) \subseteq LeadsOf(n)[Outcome(n)']
    BY <1>0, <1>1, <2>6, LeadsTo
  <2>8. ASSUME NEW m \in Gates \ {n} PROVE Outcome(m)' = Outcome(m)
    <3>1. m \in Humans => decision'[m] = decision[m] /\ log'[ExpiryKey(m)] = log[ExpiryKey(m)]
      BY <1>0, <1>1, <2>1, <2>8, ExpiryKeyApart DEF Ind, TypeOK
    <3> QED
      BY <1>2, <3>1, OutcomeOf
  <2>9. row' \in [Gates -> Row] /\ \A m \in Gates : GateInv(m)' /\ Promised(m) /\ Kept(m)
    <3> HIDE DEF routes
    <3> QED
      BY <1>0, <1>1, <1>2, <2>2, <2>4, <2>5, <2>6, <2>7, <2>8, Resolved
  <2>10. routed' \in [Gates -> SUBSET {"success", "denied", "failure", "timeout"}]
    BY <1>0, <2>5, EndsTyped DEF Ind
  <2>11. TypeOK'
    BY <1>0, <1>1, <1>2, <2>1, <2>3, <2>9, <2>10 DEF Ind, TypeOK
  <2>12. ExpiredIsOpen'
    <3>1. ASSUME NEW m \in Humans, Recorded(ExpiryKey(m))' PROVE decision'[m] = "null"
      <4>1. Recorded(ExpiryKey(m)) /\ m # n
        BY <1>0, <1>1, <2>1, <2>6, <3>1, ExpiryKeyApart DEF Recorded, Ind, TypeOK
      <4> QED
        BY <2>1, <4>1 DEF Ind, ExpiredIsOpen, TypeOK
    <3> QED
      BY <3>1 DEF ExpiredIsOpen
  <2> QED
    BY <2>9, <2>11, <2>12 DEF Good, Ind
<1>4. CASE ~MayDecide(request)
  <2>1. UNCHANGED <<decision, log, row, routed>>
    BY <1>4 DEF DecideApproval
  <2>2. TypeOK'
    BY <1>2, <2>1 DEF Ind, TypeOK
  <2>3. ASSUME NEW m \in Gates PROVE Promised(m) /\ Kept(m)
    BY <1>2, <2>1, OutcomeStays DEF Promised, Kept
  <2> QED
    BY <1>2, <2>1, <2>2, <2>3, QuietInd DEF Good
<1> QED
  BY <1>3, <1>4

\* A rejected delivery leaves every gate as it is.
LEMMA RejectGood ==
  ASSUME Ind, NEW n \in Externals, NEW k \in Keys, NEW matches \in BOOLEAN,
         RejectEvent(n, k, matches)
  PROVE  Good
<1>1. /\ log' = [log EXCEPT ![k] = [type |-> "external_event_rejected", gate |-> n]]
      /\ UNCHANGED <<run, row, decision, wait, due, routed, procVars, faults>>
  BY DEF RejectEvent
<1>2. TypeOK'
  BY <1>1 DEF Ind, TypeOK, procVars, EventTypes, Gates
<1>3. ASSUME NEW m \in Humans PROVE log'[ExpiryKey(m)] = log[ExpiryKey(m)]
  BY <1>1, ExpiryKeyApart DEF Ind, TypeOK
<1>4. ASSUME NEW m \in Gates PROVE GateInv(m)' /\ Promised(m) /\ Kept(m)
  <2>1. Outcome(m)' = Outcome(m)
    BY <1>1, <1>3, OutcomeOf
  <2> QED
    BY <1>1, <2>1, GateStays DEF Ind, procVars, Promised, Kept
<1>5. ExpiredIsOpen'
  BY <1>1, <1>3 DEF Ind, ExpiredIsOpen, Recorded
<1> QED
  BY <1>2, <1>4, <1>5 DEF Good, Ind

\* A delivery completes a pending wait of a running run.
LEMMA AcceptGood ==
  ASSUME Ind, NEW n \in Externals, NEW k \in Keys, NEW status \in {"success", "failure"},
         NEW satisfied \in BOOLEAN, AcceptEvent(n, k, status, satisfied)
  PROVE  Good
<1> DEFINE c == CompletionRoute(n, status, satisfied)
<1>1. /\ log' = [log EXCEPT ![k] = [type |-> "external_event_received", gate |-> n]]
      /\ wait' = [wait EXCEPT ![n] = "completed"]
      /\ FinishWith(n, c)
      /\ UNCHANGED <<run, decision, due, procVars, faults>>
      /\ wait[n] = "pending" /\ Running(n)
  BY DEF AcceptEvent, Acceptable
<1>2. n \in Gates /\ n \notin Humans /\ c \in {"success", "failure"}
  BY GatesAssumption DEF Gates, CompletionRoute
<1> HIDE DEF c
<1>3. Outcome(n) = "open" /\ routed[n] = {}
  <2>1. Outcome(n) = "open"
    BY <1>1 DEF Outcome
  <2> QED
    BY <1>2, <2>1 DEF Ind, GateInv, Consistent
<1>4. Outcome(n)' = "completed"
  BY <1>1 DEF Outcome, Ind, TypeOK
<1>5. ASSUME NEW m \in Humans PROVE log'[ExpiryKey(m)] = log[ExpiryKey(m)]
  BY <1>1, ExpiryKeyApart DEF Ind, TypeOK
<1>6. ASSUME NEW m \in Gates \ {n} PROVE Outcome(m)' = Outcome(m)
  BY <1>1, <1>5, <1>6, OutcomeOf DEF Ind, TypeOK
<1>7. Ends(n, {c})
  BY <1>1, <1>2, <1>3, FinishEnds DEF Ind
<1>8. To(n, {c}) \subseteq LeadsOf(n)[Outcome(n)']
  BY <1>2, <1>4, LeadsTo
<1>9. row' \in [Gates -> Row] /\ \A m \in Gates : GateInv(m)' /\ Promised(m) /\ Kept(m)
  BY <1>1, <1>2, <1>3, <1>4, <1>6, <1>7, <1>8, Resolved DEF procVars
<1>10. routed' \in [Gates -> SUBSET {"success", "denied", "failure", "timeout"}]
  BY <1>2, <1>7, EndsTyped DEF Ind
<1>11. TypeOK'
  BY <1>1, <1>2, <1>9, <1>10 DEF Ind, TypeOK, procVars, EventTypes
<1>12. ExpiredIsOpen'
  BY <1>1, <1>5 DEF Ind, ExpiredIsOpen, Recorded
<1> QED
  BY <1>9, <1>11, <1>12 DEF Good, Ind

\* An approval expires once: the event it leaves keeps decisions off it.
LEMMA ExpireApprovalGood ==
  ASSUME Ind, NEW n \in Gates, ExpireApproval(n)
  PROVE  Good
<1> DEFINE e == [type |-> "approval_expired", gate |-> n]
<1>1. /\ n \in Humans /\ n \notin Externals /\ ExpiryKey(n) \in ExpiryKeys
      /\ scan' = scan \ {n}
      /\ UNCHANGED <<run, decision, wait, due, worker, request, rec, faults>>
  BY ExpiryKeyApart, GatesAssumption DEF ExpireApproval
<1>2. CASE MayExpire(n)
  <2>1. /\ log' = [log EXCEPT ![ExpiryKey(n)] = e] /\ RouteOrFail(n, {"timeout"})
        /\ decision[n] = "null" /\ Running(n) /\ ~Recorded(ExpiryKey(n))
    BY <1>2 DEF ExpireApproval, MayExpire
  <2>2. e \in [type : EventTypes, gate : Gates] /\ e # NoEvent
    BY DEF EventTypes, NoEvent
  <2> HIDE DEF e
  <2>3. Outcome(n) = "open" /\ routed[n] = {}
    <3>1. Outcome(n) = "open"
      BY <1>1, <2>1 DEF Outcome
    <3> QED
      BY <3>1 DEF Ind, GateInv, Consistent
  <2>4. Outcome(n)' = "expired"
    <3>1. Recorded(ExpiryKey(n))'
      BY <1>1, <2>1, <2>2 DEF Recorded, Ind, TypeOK, NoEvent
    <3> QED
      BY <1>1, <2>1, <3>1 DEF Outcome
  <2>5. ASSUME NEW m \in Gates \ {n} PROVE Outcome(m)' = Outcome(m)
    <3>1. m \in Humans => log'[ExpiryKey(m)] = log[ExpiryKey(m)]
      BY <1>1, <2>1, <2>5, ExpiryKeyApart DEF Ind, TypeOK
    <3> QED
      BY <1>1, <3>1, OutcomeOf
  <2>6. Ends(n, {"timeout"})
    BY <2>1, <2>3, RouteEnds DEF Ind
  <2>7. To(n, {"timeout"}) \subseteq LeadsOf(n)[Outcome(n)']
    BY <2>4, LeadsTo
  <2>8. row' \in [Gates -> Row] /\ \A m \in Gates : GateInv(m)' /\ Promised(m) /\ Kept(m)
    BY <1>1, <2>1, <2>3, <2>4, <2>5, <2>6, <2>7, Resolved
  <2>9. routed' \in [Gates -> SUBSET {"success", "denied", "failure", "timeout"}]
    BY <2>6, EndsTyped DEF Ind
  <2>10. TypeOK'
    BY <1>1, <2>1, <2>2, <2>8, <2>9 DEF Ind, TypeOK
  <2>11. ExpiredIsOpen'
    BY <1>1, <2>1, ExpiryKeyApart DEF Ind, ExpiredIsOpen, Recorded, TypeOK
  <2> QED
    BY <2>8, <2>10, <2>11 DEF Good, Ind
<1>3. CASE ~MayExpire(n)
  <2>1. UNCHANGED <<log, row, routed>>
    BY <1>3 DEF ExpireApproval
  <2>2. TypeOK'
    BY <1>1, <2>1 DEF Ind, TypeOK
  <2>3. ASSUME NEW m \in Gates PROVE Promised(m) /\ Kept(m)
    BY <1>1, <2>1, OutcomeStays DEF Promised, Kept
  <2> QED
    BY <1>1, <2>1, <2>2, <2>3, QuietInd DEF Good
<1> QED
  BY <1>2, <1>3

\* A wait expires whatever has become of its run.
LEMMA ExpireWaitGood ==
  ASSUME Ind, NEW n \in Gates, ExpireExternalWait(n)
  PROVE  Good
<1>1. /\ n \in Externals /\ n \notin Humans /\ scan' = scan \ {n}
      /\ UNCHANGED <<run, decision, due, log, worker, request, rec, faults>>
  BY GatesAssumption DEF ExpireExternalWait
<1>2. CASE wait[n] = "pending"
  <2>1. wait' = [wait EXCEPT ![n] = "expired"] /\ RouteOrFail(n, {"timeout"})
    BY <1>2 DEF ExpireExternalWait
  <2>2. Outcome(n) = "open" /\ routed[n] = {}
    <3>1. Outcome(n) = "open"
      BY <1>1, <1>2 DEF Outcome
    <3> QED
      BY <3>1 DEF Ind, GateInv, Consistent
  <2>3. Outcome(n)' = "expired"
    BY <1>1, <2>1 DEF Outcome, Ind, TypeOK
  <2>4. ASSUME NEW m \in Gates \ {n} PROVE Outcome(m)' = Outcome(m)
    BY <1>1, <2>1, <2>4, OutcomeOf DEF Ind, TypeOK
  <2>5. Ends(n, {"timeout"})
    BY <2>1, <2>2, RouteEnds DEF Ind
  <2>6. To(n, {"timeout"}) \subseteq LeadsOf(n)[Outcome(n)']
    BY <2>3, LeadsTo
  <2>7. row' \in [Gates -> Row] /\ \A m \in Gates : GateInv(m)' /\ Promised(m) /\ Kept(m)
    BY <1>1, <2>2, <2>3, <2>4, <2>5, <2>6, Resolved
  <2>8. routed' \in [Gates -> SUBSET {"success", "denied", "failure", "timeout"}]
    BY <2>5, EndsTyped DEF Ind
  <2>9. TypeOK'
    BY <1>1, <2>1, <2>7, <2>8 DEF Ind, TypeOK
  <2> QED
    BY <1>1, <2>7, <2>9 DEF Good, Ind, ExpiredIsOpen, Recorded
<1>3. CASE wait[n] # "pending"
  <2>1. UNCHANGED <<wait, row, routed>>
    BY <1>3 DEF ExpireExternalWait
  <2>2. TypeOK'
    BY <1>1, <2>1 DEF Ind, TypeOK
  <2>3. ASSUME NEW m \in Gates PROVE Promised(m) /\ Kept(m)
    BY <1>1, <2>1, OutcomeStays DEF Promised, Kept
  <2> QED
    BY <1>1, <2>1, <2>2, <2>3, QuietInd DEF Good
<1> QED
  BY <1>2, <1>3

\* A cancelled run cancels its waits with their nodes; its approvals keep
\* waiting for an answer nobody can give.
LEMMA CancelRunGood == ASSUME Ind, NEW r \in Runs, CancelRun(r) PROVE Good
<1>1. /\ row' = [n \in Gates |-> IF n \in Of(r) THEN CancelNode(row[n]) ELSE row[n]]
      /\ wait' = [n \in Externals |-> IF n \in Cancelled(r) THEN "cancelled" ELSE wait[n]]
      /\ UNCHANGED <<decision, due, log, routed, procVars, faults>>
  BY DEF CancelRun
<1>2. run' = [run EXCEPT ![r] = run'[r]] /\ run'[r] \in {"running", "cancelled"}
  BY DEF CancelRun, Ind, TypeOK
<1>3. \A n \in Gates : row[n] \in Row
  BY DEF Ind, TypeOK
<1>4. row' \in [Gates -> Row]
  BY <1>1, <1>3, GateCancelNode
<1>5. TypeOK'
  BY <1>1, <1>2, <1>4 DEF Ind, TypeOK, procVars
<1>6. ASSUME NEW m \in Gates PROVE GateInv(m)' /\ Promised(m) /\ Kept(m)
  <2>1. m \in Humans \/ m \notin Cancelled(r) => Outcome(m)' = Outcome(m)
    BY <1>1, OutcomeOf, GatesAssumption DEF Cancelled
  <2>2. CASE m \notin Of(r)
    <3>1. m \notin Cancelled(r) /\ row'[m] = row[m]
      BY <1>1, <2>2 DEF Of, Cancelled
    <3> QED
      BY <1>1, <2>1, <3>1, GateStays DEF Ind, procVars, Promised, Kept
  <2>3. CASE m \in Of(r)
    <3> DEFINE q == CancelNode(row[m])
    <3>1. row'[m] = q
      BY <1>1, <2>3
    <3>2. /\ SameAttempts(row[m], q)
          /\ q.status = IF row[m].status \in Inflight THEN "cancel_requested"
                        ELSE IF row[m].status \in Terminal \cup {"cancel_requested"} THEN row[m].status
                        ELSE "cancelled"
      BY <1>3, GateCancelNode
    <3> HIDE DEF q
    <3>3. CASE m \in Externals /\ wait[m] = "pending"
      <4>1. m \notin Humans /\ Outcome(m) = "open" /\ Outcome(m)' = "cancelled"
        BY <1>1, <2>3, <3>3, GatesAssumption DEF Outcome, Cancelled, Of
      <4>2. GateInv(m)'
        BY <1>1, <3>1, <3>2, <4>1
        DEF Ind, procVars, GateInv, Consistent, SameAttempts, Inflight, Terminal
      <4>3. routed[m] = {} /\ routed'[m] = {}
        BY <1>1, <4>1 DEF Ind, GateInv, Consistent
      <4>4. Promised(m)
        BY <4>1, <4>3, LeadsTo DEF Promised
      <4> QED
        BY <3>1, <3>2, <4>1, <4>2, <4>4 DEF Kept, Inflight, Terminal
    <3>4. CASE ~(m \in Externals /\ wait[m] = "pending")
      <4>1. Outcome(m)' = Outcome(m)
        BY <2>1, <3>4 DEF Cancelled
      <4>2. GateInv(m)'
        BY <1>1, <3>1, <3>2, <4>1
        DEF Ind, procVars, GateInv, Consistent, SameAttempts, Inflight, Terminal, Cancelling
      <4> QED
        BY <1>1, <3>1, <3>2, <4>1, <4>2 DEF Promised, Kept, Inflight, Terminal
    <3> QED
      BY <3>3, <3>4
  <2> QED
    BY <2>2, <2>3
<1> QED
  BY <1>1, <1>5, <1>6 DEF Good, Ind, ExpiredIsOpen, Recorded

-----------------------------------------------------------------------------
(***************************************************************************)
(* Every step.                                                             *)
(***************************************************************************)
LEMMA InitInd == Init => Ind
<1> SUFFICES ASSUME Init PROVE Ind
  OBVIOUS
<1>1. PICK skipped \in SUBSET Gates : InitSkipped(skipped)
  BY DEF Init
<1> DEFINE gone == [NoRow EXCEPT !.status = "skipped"]
<1>2. NoRow \in Row /\ NoRow.latest = 0 /\ NoRow.count = 0
  BY NoRowType DEF NoRow
<1>3. gone \in Row /\ gone.latest = 0 /\ gone.count = 0
  BY <1>2 DEF Row, NodeStatus
<1> HIDE DEF gone
<1>4. row \in [Gates -> Row] /\ \A n \in Gates : row[n].latest = 0 /\ row[n].count = 0
  BY <1>1, <1>2, <1>3 DEF InitSkipped, gone
<1>5. TypeOK
  <2>1. Free \in [pc : {"idle", "listed", "claimed"}, att : 0 .. AttemptBound] /\ 0 \in 0 .. MaxFaults
    BY AttemptBoundAssumption, GatesAssumption DEF Free
  <2> QED
    BY <1>1, <1>4, <2>1 DEF InitSkipped, TypeOK
<1>6. \A k \in Keys \cup ExpiryKeys : ~Recorded(k)
  BY <1>1 DEF InitSkipped, Recorded
<1>7. ASSUME NEW n \in Gates PROVE GateInv(n)
  <2>1. Outcome(n) = "none"
    BY <1>1, <1>6, ExpiryKeyApart DEF InitSkipped, Outcome, Gates
  <2> QED
    BY <1>1, <1>4, <2>1 DEF InitSkipped, GateInv, Consistent, Free
<1> QED
  BY <1>5, <1>6, <1>7, ExpiryKeyApart DEF Ind, ExpiredIsOpen

\* Steps that answer nothing.
LEMMA UnansweredGood ==
  ASSUME Ind, Ind', UNCHANGED <<decision, wait, log, routed>>,
         \A m \in Gates : row[m].status \in Terminal => row'[m].status = row[m].status
  PROVE  Good
<1>1. ASSUME NEW m \in Gates PROVE Promised(m) /\ Kept(m)
  BY OutcomeStays DEF Promised, Kept
<1> QED
  BY <1>1 DEF Good

\* No step of a dispatch resolves a gate.
LEMMA DispatchGood ==
  ASSUME Ind, NEW n \in Gates, Dispatch(n)
  PROVE  Good
<1>1. CASE List(n)
  BY <1>1, ListInd, UnansweredGood DEF List, gateVars
<1>2. CASE Claim(n)
  <2>1. Ind' /\ UNCHANGED <<decision, wait, log, routed>>
    BY <1>2, ClaimInd DEF Claim, gateVars
  <2>2. ASSUME NEW m \in Gates, row[m].status \in Terminal PROVE row'[m].status = row[m].status
    BY <1>2, <2>2 DEF Ind, TypeOK, Claim, Claimable, Terminal
  <2> QED
    BY <2>1, <2>2, UnansweredGood
<1>3. CASE CancelledNode(n)
  <2>1. Ind' /\ UNCHANGED <<decision, wait, log, routed>>
    BY <1>3, CancelledNodeInd DEF CancelledNode, Return, gateVars
  <2> DEFINE a == IF n \in Humans THEN worker[n].att ELSE 0
  <2>2. a \in 0 .. AttemptBound /\ row[n] \in Row
    BY AttemptBoundAssumption DEF Ind, TypeOK
  <2>3. row' = [row EXCEPT ![n] = OnNodeCancelled(row[n], a)]
    BY <1>3 DEF CancelledNode, Ind, TypeOK
  <2> HIDE DEF a
  <2>4. row[n].status \in Terminal => OnNodeCancelled(row[n], a).status = row[n].status
    BY <2>2, CancelledType
  <2>5. ASSUME NEW m \in Gates, row[m].status \in Terminal PROVE row'[m].status = row[m].status
    BY <2>3, <2>4, <2>5 DEF Ind, TypeOK
  <2> QED
    BY <2>1, <2>5, UnansweredGood
<1> QED
  BY <1>1, <1>2, <1>3, RegisterApprovalGood, RegisterWaitGood DEF Dispatch

\* Recovery resolves no gate and moves no node that is final.
LEMMA RecoverGood ==
  ASSUME Ind, NEW n \in Gates, Recover(n)
  PROVE  Good
<1>1. CASE RecoverHuman(n)
  <2>1. Ind' /\ UNCHANGED <<decision, wait, log, routed>>
    BY <1>1, RecoverHumanInd DEF RecoverHuman, gateVars
  <2>2. ASSUME NEW m \in Gates, row[m].status \in Terminal PROVE row'[m].status = row[m].status
    <3>1. row[n].status \in Inflight \cup Cancelling
      BY <1>1 DEF Ind, GateInv, Consistent, RecoverHuman
    <3>2. CASE m = n
      <4>1. row[n].status = "cancelled"
        BY <2>2, <3>1, <3>2 DEF Inflight, Cancelling, Terminal
      <4>2. row[n] \in Row /\ row[n].latest \in 0 .. AttemptBound
        BY DEF Ind, TypeOK, Row
      <4>3. /\ OnNodeCancelled(row[n], row[n].latest).status = "cancelled"
            /\ OnNodeRequeued(row[n], row[n].latest, TRUE) = row[n]
            /\ OnNodeReconciling(row[n]) = row[n]
        BY <4>1, <4>2, CancelledType
        DEF OnNodeRequeued, OnNodeReconciling, Cancelling, Terminal
      <4>4. row'[n] \in {row[n], OnNodeCancelled(row[n], row[n].latest),
                         OnNodeRequeued(row[n], row[n].latest, TRUE), OnNodeReconciling(row[n])}
        BY <1>1, <4>1 DEF RecoverHuman, AppendTransition, Cancelling, Ind, TypeOK
      <4> QED
        BY <3>2, <4>1, <4>3, <4>4
    <3>3. CASE m # n
      <4>1. row' = row \/ \E new : row' = [row EXCEPT ![n] = new]
        BY <1>1 DEF RecoverHuman, AppendTransition
      <4>2. row \in [Gates -> Row]
        BY DEF Ind, TypeOK
      <4> QED
        BY <3>3, <4>1, <4>2
    <3> QED
      BY <3>2, <3>3
  <2> QED
    BY <2>1, <2>2, UnansweredGood
<1>2. CASE RecoverGate(n)
  BY <1>2, RecoverGateInd, UnansweredGood DEF RecoverGate, gateVars
<1> QED
  BY <1>1, <1>2 DEF Recover

\* Every step keeps the invariant, the promise of each gate, and what is final.
LEMMA NextGood == Ind /\ [Next]_vars => Good
<1> SUFFICES ASSUME Ind, [Next]_vars PROVE Good
  OBVIOUS
<1>1. ASSUME NEW n \in Gates, PassDeadline(n) PROVE Good
  BY <1>1, PassDeadlineInd, UnansweredGood DEF PassDeadline, procVars
<1>2. ASSUME NEW n \in Gates, ExpireLease(n) PROVE Good
  <2>1. ASSUME NEW m \in Gates PROVE row'[m].status = row[m].status
    <3>1. row[n] \in Row
      BY DEF Ind, TypeOK
    <3> QED
      BY <1>2, <3>1 DEF ExpireLease, Ind, TypeOK, Row
  <2> QED
    BY <1>2, <2>1, ExpireLeaseInd, UnansweredGood DEF ExpireLease, gateVars
<1>3. CASE Answer
  <2>1. ASSUME NEW n \in Humans, NEW d \in {"grant", "deny"}, NEW k \in Keys, AskDecision(n, d, k)
        PROVE  Good
    BY <2>1, AskDecisionInd, UnansweredGood DEF AskDecision, gateVars
  <2> QED
    BY <1>3, <2>1, DecideGood, RejectGood, AcceptGood DEF Answer
<1>4. CASE ListExpired
  BY <1>4, ListExpiredInd, UnansweredGood DEF ListExpired, gateVars
<1>5. ASSUME NEW r \in Runs, AbandonRun(r) \/ TryCompleteRun(r) PROVE Good
  BY <1>5, EndRunInd, UnansweredGood DEF AbandonRun, TryCompleteRun, gateVars
<1>6. ASSUME NEW r \in Runs, RecoverScan(r) PROVE Good
  BY <1>6, RecoverScanInd, UnansweredGood DEF RecoverScan, gateVars
<1>7. CASE Crash
  BY <1>7, CrashInd, UnansweredGood DEF Crash, gateVars
<1>8. CASE UNCHANGED vars
  <2>1. TypeOK'
    BY <1>8 DEF Ind, TypeOK, vars, gateVars, procVars
  <2> QED
    BY <1>8, <2>1, QuietInd, UnansweredGood DEF vars, gateVars, procVars
<1> QED
  BY <1>1, <1>2, <1>3, <1>4, <1>5, <1>6, <1>7, <1>8,
     DispatchGood, RecoverGood, ExpireApprovalGood, ExpireWaitGood, CancelRunGood
  DEF Next, Expire

\* The invariant holds, whatever is answered, expires, crashes or recovers.
LEMMA Invariant == Spec => []Ind
<1>1. Ind /\ [Next]_vars => Ind'
  BY NextGood DEF Good
<1> QED
  BY InitInd, <1>1, PTL DEF Spec

\* Every variable keeps its type.
THEOREM GatesTyped == Spec => []TypeOK
<1>1. Ind => TypeOK
  BY DEF Ind
<1> QED
  BY Invariant, <1>1, PTL

\* An answer never moves a final node, and no approval is answered after its
\* run.
THEOREM FinalStaysFinal == Spec => FinalStays
<1>1. Ind /\ [Next]_vars =>
        [\A n \in Gates :
           /\ row[n].status \in Terminal => row'[n].status = row[n].status
           /\ n \in Humans /\ ~Running(n) => Outcome(n)' = Outcome(n)]_vars
  BY NextGood DEF Good, Kept
<1> QED
  BY Invariant, <1>1, PTL DEF Spec, FinalStays

\* Gates implements WaitOutcome.
THEOREM GatesImplementPromise == Spec => ImplementsPromise
<1>1. Init => Promise!Init
  <2> SUFFICES ASSUME Init PROVE Promise!Init
    OBVIOUS
  <2>1. ASSUME NEW n \in Gates PROVE Outcome(n) = "none"
    BY <2>1, ExpiryKeyApart DEF Init, InitSkipped, Outcome, Gates, Recorded
  <2> QED
    BY <2>1 DEF Promise!Init, Init, InitSkipped
<1>2. Ind /\ [Next]_vars => [Promise!Next]_(Promise!vars)
  <2> SUFFICES ASSUME Ind, [Next]_vars PROVE Promise!Next
    OBVIOUS
  <2>1. Good
    BY NextGood
  <2>2. ASSUME NEW n \in Gates
        PROVE  \/ Promise!Stay(n) \/ Promise!Open(n)
               \/ \E o \in {"grant", "deny", "completed", "expired", "cancelled"} : Promise!Resolve(n, o)
    BY <2>1 DEF Good, Promised, Promise!Stay, Promise!Open, Promise!Resolve
  <2>3. DOMAIN [n \in Gates |-> Outcome(n)]' = Gates /\ DOMAIN routed' = Gates
    BY <2>1 DEF Good, Ind, TypeOK
  <2> QED
    BY <2>2, <2>3 DEF Promise!Next
<1> QED
  BY Invariant, <1>1, <1>2, PTL DEF Spec, ImplementsPromise, Promise!Spec

-----------------------------------------------------------------------------
(***************************************************************************)
(* Correlations, the log of answers, and who waits.                        *)
(***************************************************************************)
\* Only a registration makes a wait pending.
LEMMA WhoPends ==
  ASSUME Ind, [Next]_vars, NEW m \in Externals, wait'[m] = "pending", wait[m] # "pending"
  PROVE  RegisterExternalWait(m)
<1>1. ASSUME NEW n \in Gates, RegisterExternalWait(n) PROVE n = m
  BY <1>1 DEF RegisterExternalWait, Ind, TypeOK
<1>2. ASSUME NEW r \in Runs PROVE ~CancelRun(r)
  BY <1>2 DEF CancelRun
<1>3. ASSUME NEW n \in Gates PROVE ~ExpireExternalWait(n)
  BY <1>3 DEF ExpireExternalWait, Ind, TypeOK
<1>4. ASSUME NEW n \in Externals, NEW k \in Keys, NEW status \in {"success", "failure"},
             NEW satisfied \in BOOLEAN
      PROVE  ~AcceptEvent(n, k, status, satisfied)
  BY <1>4 DEF AcceptEvent, Ind, TypeOK
<1>5. wait' # wait
  OBVIOUS
<1> QED
  BY <1>1, <1>2, <1>3, <1>4, <1>5
  DEF Next, vars, gateVars, procVars, Dispatch, List, Claim, CancelledNode, Return,
      RegisterApprovalGate, PassDeadline, Expire, ExpireApproval, ExpireLease, Recover, RecoverHuman,
      RecoverGate, Answer, AskDecision, DecideApproval, RejectEvent, ListExpired, AbandonRun,
      TryCompleteRun, RecoverScan, Crash

\* A provider event has one addressee.
THEOREM OneAddressee == Spec => []OneWaitPerCorrelation
<1>1. Init => OneWaitPerCorrelation
  BY DEF Init, InitSkipped, OneWaitPerCorrelation
<1>2. Ind /\ OneWaitPerCorrelation /\ [Next]_vars => OneWaitPerCorrelation'
  <2> SUFFICES ASSUME Ind, OneWaitPerCorrelation, [Next]_vars,
                      NEW m \in Externals, NEW n \in Externals, Corr[m] = Corr[n],
                      wait'[m] = "pending", wait'[n] = "pending", m # n
               PROVE  FALSE
    BY DEF OneWaitPerCorrelation
  <2>1. wait[m] = "pending" \/ wait[n] = "pending"
    <3>1. CASE RegisterExternalWait(m) /\ RegisterExternalWait(n)
      BY <3>1 DEF RegisterExternalWait, Return, Ind, TypeOK, Free
    <3> QED
      BY <3>1, WhoPends
  <2>2. wait[m] # "pending" \/ wait[n] # "pending"
    BY DEF OneWaitPerCorrelation
  <2>3. ASSUME NEW x \in Externals, NEW y \in Externals, Corr[x] = Corr[y], x # y,
               wait'[x] = "pending", wait[x] # "pending", wait[y] = "pending"
        PROVE  FALSE
    <3>1. RegisterExternalWait(x)
      BY <2>3, WhoPends
    <3>2. ~Taken(x)
      BY <2>3, <3>1 DEF RegisterExternalWait
    <3> QED
      BY <2>3, <3>2 DEF Taken
  <2> QED
    BY <2>1, <2>2, <2>3
<1> QED
  BY Invariant, <1>1, <1>2, PTL DEF Spec

Saying(n, type) == {k \in DOMAIN log : log[k] = [type |-> type, gate |-> n]}

\* Exactly one event of this type names the gate, or none.
OneSays(n, type) == \E k \in Saying(n, type) : Saying(n, type) = {k}
NoneSays(n, type) == Saying(n, type) = {}

\* The answers of each gate and the events that record them.
LoggedDecision(n) ==
  /\ decision[n] = "grant" => OneSays(n, "approval_granted")
  /\ decision[n] # "grant" => NoneSays(n, "approval_granted")
  /\ decision[n] = "deny" => OneSays(n, "approval_denied")
  /\ decision[n] # "deny" => NoneSays(n, "approval_denied")
LoggedEvent(n) ==
  /\ wait[n] = "completed" => OneSays(n, "external_event_received")
  /\ wait[n] # "completed" => NoneSays(n, "external_event_received")
LogInv ==
  /\ \A n \in Humans : LoggedDecision(n)
  /\ \A n \in Externals : LoggedEvent(n)

\* A gate whose answer and events stay.
LEMMA DecisionKept ==
  ASSUME NEW n, LoggedDecision(n),
         Saying(n, "approval_granted")' = Saying(n, "approval_granted"),
         Saying(n, "approval_denied")' = Saying(n, "approval_denied"),
         decision'[n] = decision[n] \/ {decision[n], decision'[n]} \cap {"grant", "deny"} = {}
  PROVE  LoggedDecision(n)'
  BY DEF LoggedDecision, OneSays, NoneSays

\* A wait whose status and events stay is still logged.
LEMMA EventKept ==
  ASSUME NEW n, LoggedEvent(n),
         Saying(n, "external_event_received")' = Saying(n, "external_event_received"),
         wait'[n] = wait[n] \/ {wait[n], wait'[n]} \cap {"completed"} = {}
  PROVE  LoggedEvent(n)'
  BY DEF LoggedEvent, OneSays, NoneSays

\* Steps that log nothing and answer nothing keep every answer logged.
LEMMA LogKept ==
  ASSUME LogInv, UNCHANGED log,
         \A n \in Humans : \/ decision'[n] = decision[n]
                          \/ {decision[n], decision'[n]} \cap {"grant", "deny"} = {},
         \A n \in Externals : wait'[n] = wait[n] \/ {wait[n], wait'[n]} \cap {"completed"} = {}
  PROVE  LogInv'
<1>1. ASSUME NEW n, NEW type PROVE Saying(n, type)' = Saying(n, type)
  BY DEF Saying
<1> QED
  BY <1>1, DecisionKept, EventKept DEF LogInv

\* A new event under a fresh key.
Logs(k, t, g) == ~Recorded(k) /\ log' = [log EXCEPT ![k] = [type |-> t, gate |-> g]]

\* A new event adds its key to the events of its gate and type, and to no others.
LEMMA LogGrows ==
  ASSUME TypeOK, NEW k \in Keys \cup ExpiryKeys, NEW t \in EventTypes, NEW g, Logs(k, t, g),
         NEW n, NEW type \in EventTypes
  PROVE  Saying(n, type)' = IF n = g /\ type = t THEN Saying(n, type) \cup {k} ELSE Saying(n, type)
<1>1. k \in DOMAIN log /\ DOMAIN log' = DOMAIN log
  BY DEF TypeOK, Logs
<1>2. \A j \in DOMAIN log : log'[j] = IF j = k THEN [type |-> t, gate |-> g] ELSE log[j]
  BY DEF TypeOK, Logs
<1>3. log[k] # [type |-> type, gate |-> n]
  BY DEF Recorded, NoEvent, EventTypes, DecisionEvents, Logs
<1> QED
  BY <1>1, <1>2, <1>3 DEF Saying

\* Every step keeps the agreement of answers and events.
LEMMA LogStep == Ind /\ LogInv /\ [Next]_vars => LogInv'
<1> SUFFICES ASSUME Ind, LogInv, [Next]_vars PROVE LogInv'
  OBVIOUS
<1>0. TypeOK
  BY DEF Ind
<1>1. ASSUME NEW n \in Gates, RegisterApprovalGate(n) PROVE LogInv'
  <2>1. n \in Humans /\ decision[n] = "none" /\ UNCHANGED <<wait, log>>
    <3>1. n \in Humans /\ Outcome(n) = "none" /\ n \notin Externals
      BY <1>1, GatesAssumption DEF RegisterApprovalGate, Return, Ind, GateInv, Consistent
    <3> QED
      BY <1>1, <3>1 DEF Outcome, RegisterApprovalGate
  <2>2. decision' = decision \/ decision' = [decision EXCEPT ![n] = "null"]
    BY <1>1 DEF RegisterApprovalGate
  <2> QED
    BY <2>1, <2>2, LogKept DEF Ind, TypeOK
<1>2. ASSUME NEW n \in Gates, RegisterExternalWait(n) PROVE LogInv'
  <2>1. n \in Externals /\ wait[n] = "none" /\ UNCHANGED <<decision, log>>
    <3>1. n \in Externals /\ Outcome(n) = "none"
      BY <1>2 DEF RegisterExternalWait, Return, Ind, GateInv, Consistent
    <3> QED
      BY <1>2, <3>1 DEF Outcome, RegisterExternalWait
  <2>2. wait' = wait \/ wait' = [wait EXCEPT ![n] = "pending"]
    BY <1>2 DEF RegisterExternalWait
  <2> QED
    BY <2>1, <2>2, LogKept DEF Ind, TypeOK
<1>3. CASE DecideApproval
  <2>1. CASE ~MayDecide(request)
    BY <1>3, <2>1, LogKept DEF DecideApproval
  <2>2. CASE MayDecide(request)
    <3>1. PICK n \in Humans, k \in Keys, d \in {"grant", "deny"} :
            request.gate = n /\ request.key = k /\ request.decision = d
      <4>1. request # NoRequest
        BY <1>3 DEF DecideApproval
      <4>2. request \in [gate : Humans, decision : {"grant", "deny"}, key : Keys, late : BOOLEAN]
        BY <4>1 DEF Ind, TypeOK
      <4> QED
        BY <4>2
    <3> DEFINE t == IF d = "grant" THEN "approval_granted" ELSE "approval_denied"
    <3>2. /\ decision' = [decision EXCEPT ![n] = d] /\ decision[n] = "null" /\ wait' = wait
          /\ Logs(k, t, n) /\ t \in EventTypes /\ k \in Keys \cup ExpiryKeys
      BY <1>3, <2>2, <3>1 DEF DecideApproval, MayDecide, EventTypes, DecisionEvents, Logs
    <3> HIDE DEF t
    <3>3. ASSUME NEW m, NEW type \in EventTypes
          PROVE  Saying(m, type)' =
                   IF m = n /\ type = t THEN Saying(m, type) \cup {k} ELSE Saying(m, type)
      BY <1>0, <3>2, LogGrows
    <3>4. Saying(n, "approval_granted") = {} /\ Saying(n, "approval_denied") = {}
      BY <3>2 DEF LogInv, LoggedDecision, NoneSays
    <3>5. \A m \in Humans : m # n => decision'[m] = decision[m]
      BY <3>2 DEF Ind, TypeOK
    <3>6. decision'[n] = d
      BY <3>2 DEF Ind, TypeOK
    <3>7. LoggedDecision(n)'
      BY <3>3, <3>4, <3>6 DEF LoggedDecision, OneSays, NoneSays, EventTypes, DecisionEvents, t
    <3>8. ASSUME NEW m \in Humans PROVE LoggedDecision(m)'
      BY <3>3, <3>5, <3>7, DecisionKept DEF LogInv, EventTypes, DecisionEvents
    <3>9. ASSUME NEW m \in Externals PROVE LoggedEvent(m)'
      BY <3>2, <3>3, EventKept DEF LogInv, EventTypes, t
    <3> QED
      BY <3>8, <3>9 DEF LogInv
  <2> QED
    BY <2>1, <2>2
<1>4. ASSUME NEW n \in Externals, NEW k \in Keys, NEW matches \in BOOLEAN, RejectEvent(n, k, matches)
      PROVE  LogInv'
  <2>1. /\ Logs(k, "external_event_rejected", n) /\ UNCHANGED <<decision, wait>>
        /\ "external_event_rejected" \in EventTypes /\ k \in Keys \cup ExpiryKeys
    BY <1>4 DEF RejectEvent, EventTypes, Logs
  <2>2. ASSUME NEW m, NEW type \in EventTypes \ {"external_event_rejected"}
        PROVE  Saying(m, type)' = Saying(m, type)
    BY <1>0, <2>1, LogGrows
  <2> QED
    BY <2>1, <2>2, DecisionKept, EventKept DEF LogInv, EventTypes, DecisionEvents
<1>5. ASSUME NEW n \in Externals, NEW k \in Keys, NEW status \in {"success", "failure"},
             NEW satisfied \in BOOLEAN, AcceptEvent(n, k, status, satisfied)
      PROVE  LogInv'
  <2>1. /\ Logs(k, "external_event_received", n) /\ UNCHANGED decision
        /\ wait' = [wait EXCEPT ![n] = "completed"] /\ wait[n] = "pending"
        /\ "external_event_received" \in EventTypes /\ k \in Keys \cup ExpiryKeys
    BY <1>5 DEF AcceptEvent, Acceptable, EventTypes, Logs
  <2>2. ASSUME NEW m, NEW type \in EventTypes
        PROVE  Saying(m, type)' =
                 IF m = n /\ type = "external_event_received" THEN Saying(m, type) \cup {k}
                 ELSE Saying(m, type)
    BY <1>0, <2>1, LogGrows
  <2>3. Saying(n, "external_event_received") = {}
    BY <2>1 DEF LogInv, LoggedEvent, NoneSays
  <2>4. wait'[n] = "completed" /\ \A m \in Externals : m # n => wait'[m] = wait[m]
    BY <2>1 DEF Ind, TypeOK
  <2>5. LoggedEvent(n)'
    BY <2>2, <2>3, <2>4 DEF LoggedEvent, OneSays, NoneSays, EventTypes
  <2>6. ASSUME NEW m \in Externals PROVE LoggedEvent(m)'
    BY <2>2, <2>4, <2>5, EventKept DEF LogInv, EventTypes
  <2>7. ASSUME NEW m \in Humans PROVE LoggedDecision(m)'
    BY <2>1, <2>2, DecisionKept DEF LogInv, EventTypes, DecisionEvents
  <2> QED
    BY <2>6, <2>7 DEF LogInv
<1>6. ASSUME NEW n \in Gates, ExpireApproval(n) PROVE LogInv'
  <2>1. CASE ~MayExpire(n)
    BY <1>6, <2>1, LogKept DEF ExpireApproval
  <2>2. CASE MayExpire(n)
    <3>1. /\ Logs(ExpiryKey(n), "approval_expired", n) /\ UNCHANGED <<decision, wait>>
          /\ "approval_expired" \in EventTypes /\ ExpiryKey(n) \in Keys \cup ExpiryKeys
      BY <1>6, <2>2, ExpiryKeyApart DEF ExpireApproval, MayExpire, EventTypes, Logs
    <3>2. ASSUME NEW m, NEW type \in EventTypes \ {"approval_expired"}
          PROVE  Saying(m, type)' = Saying(m, type)
      BY <1>0, <3>1, LogGrows
    <3> QED
      BY <3>1, <3>2, DecisionKept, EventKept DEF LogInv, EventTypes, DecisionEvents
  <2> QED
    BY <2>1, <2>2
<1>7. ASSUME NEW n \in Gates, ExpireExternalWait(n) PROVE LogInv'
  <2>1. UNCHANGED <<decision, log>> /\ n \in Externals
    BY <1>7 DEF ExpireExternalWait
  <2>2. \/ wait' = wait
        \/ wait[n] = "pending" /\ wait' = [wait EXCEPT ![n] = "expired"]
    BY <1>7 DEF ExpireExternalWait
  <2> QED
    BY <2>1, <2>2, LogKept DEF Ind, TypeOK
<1>8. ASSUME NEW r \in Runs, CancelRun(r) PROVE LogInv'
  <2>1. UNCHANGED <<decision, log>>
    BY <1>8 DEF CancelRun
  <2>2. \A n \in Externals : wait'[n] = wait[n] \/ {wait[n], wait'[n]} \cap {"completed"} = {}
    BY <1>8 DEF CancelRun, Cancelled
  <2> QED
    BY <2>1, <2>2, LogKept
<1>9. CASE UNCHANGED <<decision, wait, log>>
  BY <1>9, LogKept
<1> QED
  BY <1>1, <1>2, <1>3, <1>4, <1>5, <1>6, <1>7, <1>8, <1>9
  DEF Next, vars, gateVars, procVars, Dispatch, List, Claim, CancelledNode, Return,
      PassDeadline, Expire, ExpireLease, Recover, RecoverHuman, RecoverGate, Answer, AskDecision,
      ListExpired, AbandonRun, TryCompleteRun, RecoverScan, Crash

\* Each answer is recorded under exactly one key.
THEOREM AnswersLogged == Spec => []AnswersAreLogged
<1>1. Init => LogInv
  <2> SUFFICES ASSUME Init PROVE LogInv
    OBVIOUS
  <2>1. \A k \in DOMAIN log : log[k] = NoEvent
    BY DEF Init, InitSkipped
  <2>2. ASSUME NEW n, NEW type \in EventTypes PROVE Saying(n, type) = {}
    BY <2>1, <2>2 DEF Saying, NoEvent, EventTypes, DecisionEvents
  <2> QED
    BY <2>2 DEF Init, InitSkipped, LogInv, LoggedDecision, LoggedEvent, NoneSays, EventTypes, DecisionEvents
<1>2. LogInv => AnswersAreLogged
  BY DEF LogInv, LoggedDecision, LoggedEvent, OneSays, NoneSays, Saying, AnswersAreLogged
<1> QED
  BY Invariant, LogStep, <1>1, <1>2, PTL DEF Spec

-----------------------------------------------------------------------------
(***************************************************************************)
(* A node that waits has a gate.                                           *)
(***************************************************************************)
\* Approvals recovery sends back to be dispatched again.  One with another
\* contract is parked as waiting, with no approval to decide, if its process
\* dies between the claim and the registration.
Requeued == \A n \in Humans : Contract[n] \in {"pure", "idempotent"}

\* A waiting node has had its gate opened; no approval is being reconciled.
WaitInv ==
  /\ \A n \in Gates : row[n].status = "waiting" => Outcome(n) # "none"
  /\ \A n \in Humans : rec[n] # "reconciling"

\* What WaitInv demands of a step: it makes no gate wait that stays unopened.
Waits(n) ==
  row'[n].status = "waiting" => row[n].status = "waiting" \/ Outcome(n)' # "none"

\* A gate that was opened is never unopened, so the new waits decide.
LEMMA WaitsKept ==
  ASSUME Ind, WaitInv, [Next]_vars, \A n \in Gates : Waits(n)
  PROVE  \A n \in Gates : row'[n].status = "waiting" => Outcome(n)' # "none"
<1>1. ASSUME NEW n \in Gates, Outcome(n) # "none" PROVE Outcome(n)' # "none"
  BY <1>1, NextGood DEF Good, Promised
<1> QED
  BY <1>1 DEF WaitInv, Waits

\* Recovery requeues these approvals and parks none.
LEMMA RecoverWaits ==
  ASSUME Ind, WaitInv, Requeued, NEW n \in Gates, RecoverHuman(n)
  PROVE  \A m \in Gates : Waits(m)
<1> DEFINE r == row[n]
<1>1. /\ r \in Row /\ r.latest \in 0 .. AttemptBound /\ 0 \in 0 .. AttemptBound
      /\ r.status \in Inflight \cup Cancelling /\ row \in [Gates -> Row] /\ n \in Humans
  BY AttemptBoundAssumption DEF Ind, TypeOK, GateInv, Consistent, RecoverHuman, Row
<1>2. PICK q \in {r, OnNodeCancelled(r, r.latest), OnNodeRequeued(r, 0, FALSE),
                  OnNodeRequeued(r, r.latest, TRUE)} : row' = [row EXCEPT ![n] = q]
  BY <1>1 DEF RecoverHuman, AppendTransition, WaitInv, Requeued
<1>3. q.status # "waiting"
  <2>1. r.status # "waiting"
    BY <1>1 DEF Inflight, Cancelling
  <2>2. OnNodeCancelled(r, r.latest).status # "waiting"
    BY <1>1, <2>1, CancelledType
  <2>3. OnNodeRequeued(r, 0, FALSE).status # "waiting" /\ OnNodeRequeued(r, r.latest, TRUE).status # "waiting"
    BY <1>1, <2>1 DEF OnNodeRequeued, Row
  <2> QED
    BY <2>1, <2>2, <2>3
<1> QED
  BY <1>1, <1>2, <1>3 DEF Waits

\* Cancellation, of a run or noticed by the worker, and claims leave no node
\* waiting.
LEMMA CancelWaits ==
  ASSUME Ind, NEW r \in Runs, CancelRun(r)
  PROVE  \A m \in Gates : Waits(m)
<1>1. ASSUME NEW m \in Gates PROVE Waits(m)
  <2>1. row'[m] = (IF m \in Of(r) THEN CancelNode(row[m]) ELSE row[m]) /\ row[m] \in Row
    BY DEF CancelRun, Ind, TypeOK
  <2>2. CASE m \in Of(r)
    BY <2>1, <2>2, GateCancelNode DEF Waits, Terminal, Inflight
  <2> QED
    BY <2>1, <2>2 DEF Waits
<1> QED
  BY <1>1

\* A dispatch makes a node wait only by opening its gate.
LEMMA DispatchWaits ==
  ASSUME Ind, NEW n \in Gates, Dispatch(n)
  PROVE  \A m \in Gates : Waits(m)
<1>1. CASE List(n)
  BY <1>1 DEF List, Waits
<1>2. CASE Claim(n)
  <2>1. row \in [Gates -> Row]
    BY DEF Ind, TypeOK
  <2>2. row' = row \/ \E q : row' = [row EXCEPT ![n] = q] /\ q.status = "running"
    <3>1. worker[n].att \in Attempts /\ row[n].latest <= row[n].count + 1 /\ row[n].latest <= worker[n].att
      BY <1>2 DEF Claim, Ind, GateInv, Consistent
    <3> DEFINE keyed == n \in Humans
    <3>2. keyed \in BOOLEAN
      OBVIOUS
    <3>3. row' = row \/ row' = [row EXCEPT ![n] = OnNodeStarted(EnsureRunNode(row[n]), worker[n].att, keyed)]
      BY <1>2, <2>1 DEF Claim
    <3> HIDE DEF keyed
    <3>4. OnNodeStarted(EnsureRunNode(row[n]), worker[n].att, keyed).status = "running"
      BY <2>1, <3>1, <3>2, GateStarted
    <3> QED
      BY <3>3, <3>4
  <2> QED
    BY <2>1, <2>2 DEF Waits
<1>3. CASE CancelledNode(n)
  <2>1. row \in [Gates -> Row] /\ row[n].status \in Cancelling
    BY <1>3 DEF CancelledNode, Ind, TypeOK
  <2> DEFINE a == IF n \in Humans THEN worker[n].att ELSE 0
  <2>2. /\ a \in 0 .. AttemptBound
        /\ row' = [row EXCEPT ![n] = OnNodeCancelled(row[n], a)]
    BY <1>3, <2>1, AttemptBoundAssumption DEF CancelledNode, Ind, TypeOK
  <2> HIDE DEF a
  <2>3. OnNodeCancelled(row[n], a).status # "waiting"
    BY <2>1, <2>2, CancelledType DEF Cancelling
  <2> QED
    BY <2>1, <2>2, <2>3 DEF Waits
<1>4. CASE RegisterApprovalGate(n)
  <2>1. CASE UNCHANGED row
    BY <2>1 DEF Waits
  <2>2. CASE ~UNCHANGED row
    <3>1. /\ n \in Humans /\ decision' = [decision EXCEPT ![n] = "null"]
          /\ row' = [row EXCEPT ![n] = OnNodeWaiting(row[n])] /\ row \in [Gates -> Row]
      BY <1>4, <2>2 DEF RegisterApprovalGate, Ind, TypeOK
    <3>2. n \notin Externals /\ decision'[n] = "null"
      BY <3>1, GatesAssumption DEF Ind, TypeOK
    <3>3. Outcome(n)' # "none"
      BY <3>2 DEF Outcome
    <3> QED
      BY <3>1, <3>3 DEF Waits
  <2> QED
    BY <2>1, <2>2
<1>5. CASE RegisterExternalWait(n)
  <2>1. CASE UNCHANGED row
    BY <2>1 DEF Waits
  <2>2. CASE ~UNCHANGED row
    <3>1. /\ n \in Externals /\ wait' = [wait EXCEPT ![n] = "pending"]
          /\ row' = [row EXCEPT ![n] = OnNodeWaiting(row[n])] /\ row \in [Gates -> Row]
      BY <1>5, <2>2 DEF RegisterExternalWait, Ind, TypeOK
    <3>2. Outcome(n)' # "none"
      BY <3>1 DEF Outcome, Ind, TypeOK
    <3> QED
      BY <3>1, <3>2 DEF Waits
  <2> QED
    BY <2>1, <2>2
<1> QED
  BY <1>1, <1>2, <1>3, <1>4, <1>5 DEF Dispatch

\* An answer, a rejection or an expiry leaves no node newly waiting: it
\* finishes the node, fails it or does not touch it.
LEMMA EndWaits ==
  ASSUME Ind, NEW n \in Gates,
         \/ UNCHANGED row
         \/ \E s \in {"succeeded", "failed"} :
              row' = [row EXCEPT ![n] = OnNodeTerminal(@, s, @.count, FALSE)]
  PROVE  \A m \in Gates : Waits(m)
<1>1. CASE UNCHANGED row
  BY <1>1 DEF Waits
<1>2. ASSUME NEW s \in {"succeeded", "failed"},
             row' = [row EXCEPT ![n] = OnNodeTerminal(@, s, @.count, FALSE)]
      PROVE  \A m \in Gates : Waits(m)
  <2>1. row \in [Gates -> Row]
    BY DEF Ind, TypeOK
  <2>2. OnNodeTerminal(row[n], s, row[n].count, FALSE).status # "waiting"
    BY <2>1, GateTerminal DEF Cancelling
  <2> QED
    BY <1>2, <2>1, <2>2 DEF Waits
<1> QED
  BY <1>1, <1>2

\* No step makes a gate wait that was never opened.
LEMMA NextWaits ==
  ASSUME Ind, WaitInv, Requeued, [Next]_vars
  PROVE  \A m \in Gates : Waits(m)
<1>1. CASE DecideApproval
  <2>1. CASE UNCHANGED row
    BY <2>1 DEF Waits
  <2>2. CASE ~UNCHANGED row
    <3>1. request.gate \in Gates
      BY <1>1 DEF DecideApproval, Ind, TypeOK, Gates, NoRequest
    <3> QED
      BY <1>1, <2>2, <3>1, EndWaits DEF DecideApproval, RouteOrFail, FinishWith, Fail
  <2> QED
    BY <2>1, <2>2
<1>2. ASSUME NEW n \in Gates, ExpireApproval(n) \/ ExpireExternalWait(n)
      PROVE  \A m \in Gates : Waits(m)
  BY <1>2, EndWaits DEF ExpireApproval, ExpireExternalWait, RouteOrFail, FinishWith, Fail
<1>3. ASSUME NEW n \in Externals, NEW k \in Keys, NEW status \in {"success", "failure"},
             NEW satisfied \in BOOLEAN, AcceptEvent(n, k, status, satisfied)
      PROVE  \A m \in Gates : Waits(m)
  BY <1>3, EndWaits DEF AcceptEvent, FinishWith, Gates
<1>4. ASSUME NEW n \in Gates, ExpireLease(n)
      PROVE  \A m \in Gates : Waits(m)
  BY <1>4 DEF ExpireLease, Waits, Ind, TypeOK, Row
<1>5. CASE UNCHANGED row
  BY <1>5 DEF Waits
<1> QED
  BY <1>1, <1>2, <1>3, <1>4, <1>5, DispatchWaits, CancelWaits, RecoverWaits
  DEF Next, vars, procVars, Expire, Recover, RecoverGate, Answer, AskDecision, RejectEvent,
      PassDeadline, ListExpired, AbandonRun, TryCompleteRun, RecoverScan, Crash

\* Only a reconcilable approval is ever reconciled.
LEMMA NextReconciles ==
  ASSUME Ind, WaitInv, Requeued, [Next]_vars
  PROVE  \A n \in Humans : rec'[n] # "reconciling"
<1>1. ASSUME NEW n \in Gates, RecoverHuman(n) PROVE \A m \in Humans : rec'[m] # "reconciling"
  <2>1. rec' = [rec EXCEPT ![n] = "no"]
    BY <1>1 DEF RecoverHuman, Requeued, WaitInv
  <2> QED
    BY <2>1 DEF WaitInv, Ind, TypeOK, Gates
<1>2. ASSUME NEW n \in Gates, RecoverGate(n) PROVE \A m \in Humans : rec'[m] # "reconciling"
  BY <1>2 DEF RecoverGate, Gates
<1>3. ASSUME NEW r \in Runs, RecoverScan(r) PROVE \A m \in Humans : rec'[m] # "reconciling"
  BY <1>3 DEF RecoverScan, Gates
<1>4. CASE Crash
  BY <1>4 DEF Crash, Gates
<1>5. CASE UNCHANGED rec
  BY <1>5 DEF WaitInv
<1> QED
  BY <1>1, <1>2, <1>3, <1>4, <1>5
  DEF Next, vars, procVars, gateVars, Dispatch, List, Claim, CancelledNode, Return,
      RegisterApprovalGate, RegisterExternalWait, PassDeadline, Expire, ExpireApproval,
      ExpireExternalWait, ExpireLease, Recover, Answer, AskDecision, DecideApproval, RejectEvent,
      AcceptEvent, ListExpired, CancelRun, AbandonRun, TryCompleteRun

\* A waiting node of a running run can still be answered, whatever crashes,
\* if every approval is one that recovery dispatches again.
THEOREM WaitingIsAnswerable == ASSUME Requeued PROVE Spec => []WaitIsAnswerable
<1>1. Init => WaitInv
  BY DEF Init, InitSkipped, WaitInv, NoRow, Gates
<1>2. Ind /\ WaitInv /\ [Next]_vars => WaitInv'
  BY WaitsKept, NextWaits, NextReconciles DEF WaitInv
<1>3. Ind /\ WaitInv => WaitIsAnswerable
  BY DEF Ind, WaitInv, WaitIsAnswerable, GateInv, Consistent, Terminal
<1> QED
  BY Invariant, <1>1, <1>2, <1>3, PTL DEF Spec
=============================================================================
