-------------------------------- MODULE Engine --------------------------------
(***************************************************************************)
(* One durable run driven by the controller of one process at a time       *)
(* (internal/controller: engine.go, outcomes.go, reconciler.go, recover.go, *)
(* cancel.go).  Several step loops of the process work on the run at once: *)
(* the serve ticker (Recover, then DrainServeTick/ResumeRun) and the        *)
(* Drain/ResumeRun calls of API requests, webhooks and schedules.  A step  *)
(* loop lists the eligible nodes, starts one goroutine (a worker) per node *)
(* and waits for all of them.  Everything a worker read when it was listed *)
(* may be stale when it acts.                                              *)
(*                                                                         *)
(* Every store transaction is one action (SQLite, _txlock=immediate); what *)
(* happens between two transactions, or between a read and the transaction *)
(* that relies on it, is interleaved.                                      *)
(*                                                                         *)
(* Left to other modules: gates, approvals and external waits; the         *)
(* controller lease (its loss is a nondeterministic fault here); effect    *)
(* rows and artifacts.                                                     *)
(***************************************************************************)
EXTENDS Projection, FiniteSets

CONSTANTS
  Nodes,          \* the graph's node keys
  Contract,       \* side-effect contract of each node, "none" without executor
  Routers,        \* the nodes of type router
  Release,        \* <<from, to>>: depends_on, produces and consumes edges
  RouteEdges,     \* [from, to, when]: routes_to edges, when = Always if unconditional
  Routes,         \* the routes an executor may return
  Always,
  MaxAttempts,    \* retry.max_attempts of each node
  Loops,          \* step loops of the process
  Ticker,         \* the one that also recovers
  MaxConcurrent,  \* goroutines per Step
  Rejectable,     \* nodes whose preparation or admission may fail before the claim
  LongExecutions, \* may an execution outlive its attempt lease (LeaseTTL)?
  Ops,            \* operator requests that may arrive: "cancel", "abandon"
  MaxFaults       \* bound on faults (named bound)

Contracts == {"pure", "idempotent", "reconcilable", "non_replayable", "none"}

ASSUME EngineAssumption ==
  /\ Contract \in [Nodes -> Contracts]
  /\ Routers \subseteq Nodes
  /\ \A n \in Nodes \ Routers : Contract[n] # "none"
  /\ Release \subseteq Nodes \X Nodes
  /\ \A e \in RouteEdges : e.from \in Nodes /\ e.to \in Nodes
  /\ MaxAttempts \in [Nodes -> Nat \ {0}]
  /\ Ticker \in Loops
  /\ MaxConcurrent \in Nat \ {0}
  /\ Rejectable \subseteq Nodes \ Routers
  /\ LongExecutions \in BOOLEAN
  /\ Ops \subseteq {"cancel", "abandon"}
  /\ MaxFaults \in Nat

VARIABLES
  run,        \* graph_run.status
  row,        \* run_node and node_attempt rows of each node
  traversed,  \* run_edge rows of the routes_to edges
  loop,       \* what each step loop is doing
  work,       \* the worker of each loop for each node
  inflight,   \* Controller.inflight: nodes with a tracked execution
  rec,        \* progress of the ticker's Recover
  op,         \* progress of CancelRun / AbandonRun
  faults,     \* faults so far
  effect,     \* history: what is known of the node's external effect
  failures    \* history: executions of the node that ended in failure

dbVars   == <<run, row, traversed>>
procVars == <<loop, work, inflight, rec, op>>
histVars == <<effect, failures>>
vars == <<run, row, traversed, loop, work, inflight, rec, op, faults, effect, failures>>

(***************************************************************************)
(* Worker states, in the order executeNode goes through them.              *)
(***************************************************************************)
Idle == [pc |-> "idle", att |-> 0, route |-> Always, sig |-> FALSE]

WorkerPc == {"idle", "listed", "tracked", "claimed", "exec", "ok", "fail",
             "requeue", "uncertain", "cancel", "commit", "routing"}

\* The worker's entry is in the inflight map.
Tracked == {"tracked", "claimed", "exec", "ok", "fail", "requeue",
            "uncertain", "cancel", "commit"}

Worker == [pc : WorkerPc, att : 0 .. AttemptBound,
           route : Routes \cup {Always}, sig : BOOLEAN]

\* Progress of Recover: the candidates still to do, those listed as
\* cancel_requested, the one in progress, its phase and attempt number.
NoRec == [todo |-> {}, canc |-> {}, cur |-> {}, phase |-> "none", att |-> 0]

RecPhase == {"none", "resume", "query", "queryCancelled", "check", "requeue",
             "cancel", "commit", "commitNil"}

TypeOK ==
  /\ run \in {"running", "completed", "failed", "cancelled", "abandoned"}
  /\ row \in [Nodes -> Row]
  /\ traversed \subseteq RouteEdges
  /\ loop \in [Loops -> {"idle", "stepping", "completing", "recovering"}]
  /\ work \in [Loops -> [Nodes -> Worker]]
  /\ inflight \subseteq Nodes
  /\ rec \in [todo : SUBSET Nodes, canc : SUBSET Nodes, cur : SUBSET Nodes,
              phase : RecPhase, att : 0 .. AttemptBound]
  /\ op \in {"idle", "cancel", "abandon", "signal"}
  /\ faults \in 0 .. MaxFaults
  /\ effect \in [Nodes -> {"clear", "maybe", "applied"}]
  /\ failures \in [Nodes -> Nat]

\* CreateRun: run_started has been appended, no node has a row.
Init ==
  /\ run = "running"
  /\ row = [n \in Nodes |-> NoRow]
  /\ traversed = {}
  /\ loop = [l \in Loops |-> "idle"]
  /\ work = [l \in Loops |-> [n \in Nodes |-> Idle]]
  /\ inflight = {}
  /\ rec = NoRec
  /\ op = "idle"
  /\ faults = 0
  /\ effect = [n \in Nodes |-> "clear"]
  /\ failures = [n \in Nodes |-> 0]

-----------------------------------------------------------------------------
(***************************************************************************)
(* Eligibility and routing.                                                *)
(***************************************************************************)
Ready(n) ==
  /\ \A m \in Nodes : <<m, n>> \in Release => row[m].status \in Done
  /\ \A e \in RouteEdges : e.to = n => e \in traversed

\* Mutant of Eligible: only the routes of a node that has not run are looked at.
EligibleByRoute ==
  {n \in Nodes : \/ row[n].status = "eligible"
                 \/ /\ row[n].status \in {"absent", "pending"}
                    /\ \A e \in RouteEdges : e.to = n => e \in traversed}

Eligible == {n \in Nodes : \/ row[n].status = "eligible"
                           \/ row[n].status \in {"absent", "pending"} /\ Ready(n)}

\* routeFromTx: the edges a finishing node selects.
Selected(n, route, known) ==
  {e \in RouteEdges : known /\ e.from = n /\ e.when \in {Always, route}}

\* Mutant of Unselected: nothing is skipped when no route was selected.
UnselectedOther(n, route, known) ==
  {m \in Nodes : /\ \E e \in RouteEdges : e.from = n /\ e.to = m
                 /\ Selected(n, route, known) # {}
                 /\ \A e \in Selected(n, route, known) : e.to # m
                 /\ \A e \in RouteEdges : e.to = m => e.from = n}

\* The route targets that fail closed: not selected, no other incoming route.
Unselected(n, route, known) ==
  {m \in Nodes : /\ \E e \in RouteEdges : e.from = n /\ e.to = m
                 /\ \A e \in Selected(n, route, known) : e.to # m
                 /\ \A e \in RouteEdges : e.to = m => e.from = n}

\* node_skipped is appended only for targets without a run_node row.
WithSkips(rows, targets) ==
  [m \in Nodes |-> IF m \in targets /\ rows[m].status = "absent"
                   THEN OnNodeSkipped(EnsureRunNode(rows[m])) ELSE rows[m]]

\* The routing and eligibility decisions materialise the nodes they concern.
WithDecisions(rows, n, selected) ==
  [m \in Nodes |->
     IF \/ \E e \in selected : e.to = m
        \/ /\ <<n, m>> \in Release
           /\ \A k \in Nodes : <<k, m>> \in Release => rows[k].status \in Done
     THEN EnsureRunNode(rows[m]) ELSE rows[m]]

\* node_finished followed by routeFromTx.
Finished(n, a, route, known) ==
  LET rows == [row EXCEPT ![n] = OnNodeTerminal(@, "succeeded", a, FALSE)]
  IN  WithDecisions(WithSkips(rows, Unselected(n, route, known)),
                    n, Selected(n, route, known))

\* Mutant of CommitNodeSuccess: the status is not read again.
CommitNodeSuccessBlind(n, a, route, known) ==
  /\ row' = Finished(n, a, route, known)
  /\ traversed' = traversed \cup Selected(n, route, known)

\* commitNodeSuccess: one transaction that re-reads the node's status.
CommitNodeSuccess(n, a, route, known) ==
  LET accepted == row[n].status \in {"running", "reconciling"}
  IN  /\ row' = IF row[n].status = "cancel_requested"
                THEN [row EXCEPT ![n] = OnNodeCancelled(@, a)]
                ELSE IF accepted THEN Finished(n, a, route, known) ELSE row
      /\ traversed' = IF accepted THEN traversed \cup Selected(n, route, known)
                      ELSE traversed

\* appendEvent of a node event whose handler turns row r into new.
Append(n, new) == row' = [row EXCEPT ![n] = new]

\* appendNodeTransition: no event once cancellation was requested.
AppendTransition(n, new) ==
  row' = IF row[n].status \in Cancelling THEN row ELSE [row EXCEPT ![n] = new]

-----------------------------------------------------------------------------
(***************************************************************************)
(* Step: list the eligible nodes, or try to end the run when there is none. *)
(***************************************************************************)
Step(l) ==
  /\ loop[l] = "idle"
  /\ run = "running"
  /\ \A n \in Eligible : row[n].count < AttemptBound
  /\ IF Eligible = {}
     THEN /\ loop' = [loop EXCEPT ![l] = "completing"]
          /\ UNCHANGED work
     ELSE /\ loop' = [loop EXCEPT ![l] = "stepping"]
          /\ work' = [work EXCEPT ![l] =
               [n \in Nodes |-> IF n \in Eligible
                                THEN [Idle EXCEPT !.pc = "listed", !.att = row[n].count + 1]
                                ELSE Idle]]
  /\ UNCHANGED <<dbVars, inflight, rec, op, faults, histVars>>

\* wg.Wait returns: every worker of the Step is finished.
StepDone(l) ==
  /\ loop[l] = "stepping"
  /\ \A n \in Nodes : work[l][n].pc = "idle"
  /\ loop' = [loop EXCEPT ![l] = "idle"]
  /\ UNCHANGED <<dbVars, work, inflight, rec, op, faults, histVars>>

\* tryCompleteRun's verdict on the rows.
TerminalEvent ==
  IF \E n \in Nodes : row[n].status = "failed" THEN "failed"
  ELSE IF \E n \in Nodes : row[n].status \in Active THEN "running"
  ELSE IF \E n \in Nodes : row[n].status = "cancelled" THEN "cancelled"
  ELSE IF Nodes # {} /\ \A n \in Nodes : row[n].status \in Done THEN "completed"
  ELSE "running"

TryCompleteRun(l) ==
  /\ loop[l] = "completing"
  /\ run' = IF run = "running" THEN TerminalEvent ELSE run
  /\ loop' = [loop EXCEPT ![l] = "idle"]
  /\ UNCHANGED <<row, traversed, work, inflight, rec, op, faults, histVars>>

-----------------------------------------------------------------------------
(***************************************************************************)
(* Workers: executeNode.                                                   *)
(***************************************************************************)
SetPc(l, n, pc) == work' = [work EXCEPT ![l][n].pc = pc]

\* Mutant of Return: a refused claim leaves its inflight entry behind.
ReturnTracked(l, n) ==
  /\ work' = [work EXCEPT ![l][n] = Idle]
  /\ inflight' = IF work[l][n].pc \in Tracked \ {"tracked"} THEN inflight \ {n} ELSE inflight

\* executeNode returns; a tracked execution is untracked.
Return(l, n) ==
  /\ work' = [work EXCEPT ![l][n] = Idle]
  /\ inflight' = IF work[l][n].pc \in Tracked THEN inflight \ {n} ELSE inflight

\* The semaphore of Step admits the goroutine.
Admitted(l) ==
  Cardinality({m \in Nodes : work[l][m].pc \notin {"idle", "listed"}}) < MaxConcurrent

\* Mutant of Claimable: the claim also takes nodes that wait for an operator.
ClaimableWaiting(n) == row[n].status \in {"absent", "pending", "eligible", "waiting"}

Claimable(n) == row[n].status \in {"absent", "pending", "eligible"}

\* claimNonExecutable: a router is claimed without attempt row.
ClaimNonExecutable(l, n) ==
  /\ work[l][n].pc = "listed" /\ n \in Routers /\ Admitted(l)
  /\ IF Claimable(n)
     THEN /\ Append(n, OnNodeStarted(row[n], 1, FALSE))
          /\ SetPc(l, n, "routing")
     ELSE /\ work' = [work EXCEPT ![l][n] = Idle]
          /\ UNCHANGED row
  /\ UNCHANGED <<run, traversed, loop, inflight, rec, op, faults, histVars>>

\* The router's rest of executeNode: cancelled, or finished with no route.
FinishRouter(l, n) ==
  /\ work[l][n].pc = "routing"
  /\ \/ /\ row[n].status \in Cancelling
        /\ Append(n, OnNodeCancelled(row[n], work[l][n].att))
        /\ UNCHANGED traversed
     \/ CommitNodeSuccess(n, work[l][n].att, Always, TRUE)
  /\ Return(l, n)
  /\ UNCHANGED <<run, loop, rec, op, faults, histVars>>

\* failNode or rejectNode before the claim: node_failed is appended for a
\* node that this worker never claimed.
RejectNode(l, n) ==
  /\ work[l][n].pc = "listed" /\ n \in Rejectable /\ Admitted(l)
  /\ \E keyed \in BOOLEAN :
       Append(n, OnNodeTerminal(EnsureRunNode(row[n]), "failed", work[l][n].att, keyed))
  /\ Return(l, n)
  /\ UNCHANGED <<run, traversed, loop, rec, op, faults, histVars>>

\* beginClaimedAttempt: trackInflight refuses a node already in flight.
TrackInflight(l, n) ==
  /\ work[l][n].pc = "listed" /\ n \notin Routers /\ Admitted(l)
  /\ IF n \in inflight
     THEN /\ work' = [work EXCEPT ![l][n] = Idle]
          /\ UNCHANGED inflight
     ELSE /\ SetPc(l, n, "tracked")
          /\ inflight' = inflight \cup {n}
  /\ UNCHANGED <<dbVars, loop, rec, op, faults, histVars>>

\* beginClaimedAttempt: the claim transaction, with the listed attempt number.
ClaimAttempt(l, n) ==
  /\ work[l][n].pc = "tracked"
  /\ IF Claimable(n)
     THEN /\ Append(n, OnNodeStarted(row[n], work[l][n].att, TRUE))
          /\ SetPc(l, n, "claimed")
          /\ UNCHANGED inflight
     ELSE /\ Return(l, n)
          /\ UNCHANGED row
  /\ UNCHANGED <<run, traversed, loop, rec, op, faults, histVars>>

\* Mutant of Exhausted: off by one.
ExhaustedLate(n, a) == a > MaxAttempts[n]

\* recordAttemptFailure: no retry is left.
Exhausted(n, a) == a >= MaxAttempts[n]

\* Contracts whose external effect must not be repeated blindly.
Guarded(n) == Contract[n] \in {"reconcilable", "non_replayable"}

\* Execute starts unless the worker was signalled or the node cancelled.
Dispatch(l, n) ==
  /\ work[l][n].pc = "claimed"
  /\ IF work[l][n].sig \/ row[n].status \in Cancelling
     THEN /\ SetPc(l, n, "cancel")
          /\ UNCHANGED effect
     ELSE /\ SetPc(l, n, "exec")
          /\ effect' = IF Guarded(n) THEN [effect EXCEPT ![n] = "maybe"] ELSE effect
  /\ UNCHANGED <<dbVars, loop, inflight, rec, op, faults, failures>>

\* Execute returns a result; a guarded effect has been applied.
ExecuteOk(l, n) ==
  /\ work[l][n].pc = "exec"
  /\ \E r \in Routes \cup {Always} :
       work' = [work EXCEPT ![l][n].pc = "ok", ![l][n].route = r]
  /\ effect' = IF Guarded(n) THEN [effect EXCEPT ![n] = "applied"] ELSE effect
  /\ UNCHANGED <<dbVars, loop, inflight, rec, op, faults, failures>>

\* Execute returns an error that excludes an external effect.  Together with
\* the controller's own cancel signal it is a cancellation, unless the
\* timeout_ms timer had fired.
ExecuteError(l, n) ==
  /\ work[l][n].pc = "exec"
  /\ \/ /\ work[l][n].sig
        /\ SetPc(l, n, "cancel")
        /\ UNCHANGED failures
     \/ /\ SetPc(l, n, "fail")
        /\ failures' = [failures EXCEPT ![n] = @ + 1]
  /\ effect' = IF Guarded(n) THEN [effect EXCEPT ![n] = "clear"] ELSE effect
  /\ UNCHANGED <<dbVars, loop, inflight, rec, op, faults>>

\* ErrCancelled after the cancel signal; the effect may have happened.
ExecuteCancelled(l, n) ==
  /\ work[l][n].pc = "exec" /\ work[l][n].sig
  /\ SetPc(l, n, "cancel")
  /\ UNCHANGED <<dbVars, loop, inflight, rec, op, faults, histVars>>

Fault == faults < MaxFaults /\ faults' = faults + 1

\* Mutant of TimeoutOutcome: reconcilable nodes are forgotten.
TimeoutOutcomeRetry(n) == IF Contract[n] = "non_replayable" THEN "uncertain" ELSE "fail"

\* A timeout is a failure unless the effect can neither be verified nor
\* safely repeated.
TimeoutOutcome(n) == IF Guarded(n) THEN "uncertain" ELSE "fail"

\* timeout_ms fires and the executor returns nothing definite.
ExecuteTimeout(l, n) ==
  /\ work[l][n].pc = "exec" /\ Fault
  /\ SetPc(l, n, TimeoutOutcome(n))
  /\ failures' = IF TimeoutOutcome(n) = "fail" THEN [failures EXCEPT ![n] = @ + 1] ELSE failures
  /\ UNCHANGED <<dbVars, loop, inflight, rec, op, effect>>

\* The executor reports ErrUncertain.
ExecuteUncertain(l, n) ==
  /\ work[l][n].pc = "exec" /\ Fault
  /\ SetPc(l, n, "uncertain")
  /\ UNCHANGED <<dbVars, loop, inflight, rec, op, histVars>>

\* After a successful execution: leaseValid, then nodeCancelled, then commit.
CheckResult(l, n) ==
  /\ work[l][n].pc = "ok"
  /\ \/ Fault /\ SetPc(l, n, "uncertain")
     \/ /\ SetPc(l, n, IF row[n].status \in Cancelling THEN "cancel" ELSE "commit")
        /\ UNCHANGED faults
  /\ UNCHANGED <<dbVars, loop, inflight, rec, op, histVars>>

CommitResult(l, n) ==
  /\ work[l][n].pc = "commit"
  /\ CommitNodeSuccess(n, work[l][n].att, work[l][n].route, TRUE)
  /\ Return(l, n)
  /\ UNCHANGED <<run, loop, rec, op, faults, histVars>>

UncertainNode(l, n) ==
  /\ work[l][n].pc = "uncertain"
  /\ Append(n, OnNodeTerminal(row[n], "uncertain", work[l][n].att, FALSE))
  /\ Return(l, n)
  /\ UNCHANGED <<run, traversed, loop, rec, op, faults, histVars>>

CancelledNode(l, n) ==
  /\ work[l][n].pc = "cancel"
  /\ Append(n, OnNodeCancelled(row[n], work[l][n].att))
  /\ Return(l, n)
  /\ UNCHANGED <<run, traversed, loop, rec, op, faults, histVars>>

\* recordAttemptFailure: node_failed when the attempts are used up, else
\* node_attempt_failed, and node_requeued in a second transaction.
RecordAttemptFailure(l, n) ==
  /\ work[l][n].pc = "fail"
  /\ IF Exhausted(n, work[l][n].att)
     THEN /\ Append(n, OnNodeTerminal(row[n], "failed", work[l][n].att, FALSE))
          /\ Return(l, n)
     ELSE /\ Append(n, OnNodeAttemptFailed(row[n], work[l][n].att))
          /\ SetPc(l, n, "requeue")
          /\ UNCHANGED inflight
  /\ UNCHANGED <<run, traversed, loop, rec, op, faults, histVars>>

RequeueNode(l, n) ==
  /\ work[l][n].pc = "requeue"
  /\ AppendTransition(n, OnNodeRequeued(row[n], work[l][n].att, FALSE))
  /\ Return(l, n)
  /\ UNCHANGED <<run, traversed, loop, rec, op, faults, histVars>>

\* The worker returns without an event: its context ended (errLeaseLost) or
\* the store refused the transaction.
Abort(l, n) ==
  /\ work[l][n].pc # "idle" /\ Fault
  /\ Return(l, n)
  /\ UNCHANGED <<dbVars, loop, rec, op, histVars>>

-----------------------------------------------------------------------------
(***************************************************************************)
(* Recover, run by the ticker of the same process for a running run.       *)
(***************************************************************************)
\* Mutants of RecoverList: failed nodes are recovered too; running nodes are
\* forgotten; cancel_requested nodes are forgotten.
RecoverListFailed ==
  {n \in Nodes : /\ row[n].status \in {"uncertain", "running", "reconciling", "cancel_requested", "failed"}
                 /\ row[n].lease # "valid"}
RecoverListNoRunning ==
  {n \in Nodes : /\ row[n].status \in {"uncertain", "reconciling", "cancel_requested"}
                 /\ row[n].lease # "valid"}
RecoverListNoCancel ==
  {n \in Nodes : /\ row[n].status \in {"uncertain", "running", "reconciling"}
                 /\ row[n].lease # "valid"}

RecoverList ==
  {n \in Nodes : /\ row[n].status \in {"uncertain", "running", "reconciling", "cancel_requested"}
                 /\ row[n].lease # "valid"}

RecoverScan ==
  /\ loop[Ticker] = "idle" /\ run = "running" /\ RecoverList # {}
  /\ loop' = [loop EXCEPT ![Ticker] = "recovering"]
  /\ rec' = [NoRec EXCEPT !.todo = RecoverList,
                          !.canc = {n \in RecoverList : row[n].status = "cancel_requested"}]
  /\ UNCHANGED <<dbVars, work, inflight, op, faults, histVars>>

\* Recover returns: the list is done, or recoverNode returned an error.
EndRecover ==
  /\ rec' = NoRec
  /\ loop' = [loop EXCEPT ![Ticker] = "idle"]

\* Recover goes on with the next candidate.
NextCandidate(n) ==
  IF rec.todo \ {n} = {} THEN EndRecover
  ELSE /\ rec' = [rec EXCEPT !.todo = @ \ {n}, !.cur = {}, !.phase = "none"]
       /\ UNCHANGED loop

\* Candidate n continues in another transaction.
InPhase(n, phase, a) ==
  /\ rec' = [rec EXCEPT !.cur = {n}, !.phase = phase, !.att = a]
  /\ UNCHANGED loop

\* recoverNode and recoverCancelledNode: the snapshot status decides.
RecoverNode(n) ==
  /\ loop[Ticker] = "recovering" /\ rec.phase = "none" /\ n \in rec.todo
  /\ LET a == row[n].latest
         c == Contract[n]
     IN \/ /\ \/ c = "none"
              \/ a = 0 /\ (n \in rec.canc \/ c = "idempotent")
           /\ EndRecover /\ UNCHANGED row
        \/ /\ n \in rec.canc /\ a > 0 /\ c = "pure"
           /\ Append(n, OnNodeCancelled(row[n], a)) /\ NextCandidate(n)
        \/ /\ n \in rec.canc /\ a > 0 /\ c = "reconcilable"
           /\ InPhase(n, "queryCancelled", a) /\ UNCHANGED row
        \/ /\ \/ c = "non_replayable" /\ (n \in rec.canc => a > 0)
              \/ c = "idempotent" /\ n \in rec.canc /\ a > 0
           /\ AppendTransition(n, OnNodeWaiting(row[n])) /\ NextCandidate(n)
        \/ /\ n \notin rec.canc /\ c = "pure"
           /\ AppendTransition(n, OnNodeRequeued(row[n], 0, FALSE)) /\ NextCandidate(n)
        \/ /\ n \notin rec.canc /\ c = "idempotent" /\ a > 0
           /\ InPhase(n, "resume", a) /\ UNCHANGED row
        \/ /\ n \notin rec.canc /\ c = "reconcilable"
           /\ Append(n, OnNodeReconciling(row[n])) /\ InPhase(n, "query", 0)
  /\ UNCHANGED <<run, traversed, work, inflight, op, faults, histVars>>

\* resumeIdempotentAttempt: the append, with the attempt number read before.
ResumeIdempotentAttempt(n) ==
  /\ rec.phase = "resume" /\ n \in rec.cur
  /\ Append(n, OnNodeRequeued(row[n], rec.att, TRUE))
  /\ NextCandidate(n)
  /\ UNCHANGED <<run, traversed, work, inflight, op, faults, histVars>>

\* Some worker of the process is executing n: what the provider knows of
\* the effect is not final.
Executing(n) == \E l \in Loops : work[l][n].pc = "exec"

\* The provider says the effect did not happen.  It does not say so of an
\* effect that did.
Absent(n) ==
  /\ effect[n] # "applied"
  /\ effect' = IF Executing(n) THEN effect ELSE [effect EXCEPT ![n] = "clear"]

\* The provider says it happened.
Confirmed(n) ==
  /\ effect[n] # "clear"
  /\ effect' = [effect EXCEPT ![n] = "applied"]

\* reconcileNode after node_reconciling: the latest attempt is read and the
\* provider asked.
ReconcileNode(n) ==
  /\ rec.phase = "query" /\ n \in rec.cur
  /\ LET a == row[n].latest
     IN \/ a = 0 /\ EndRecover /\ UNCHANGED <<row, effect>>
        \/ /\ a > 0 /\ n \in Rejectable
           /\ Append(n, OnNodeTerminal(row[n], "failed", a, FALSE))
           /\ NextCandidate(n) /\ UNCHANGED effect
        \/ /\ a > 0                              \* unknown or not reconcilable
           /\ AppendTransition(n, OnNodeWaiting(row[n]))
           /\ NextCandidate(n) /\ UNCHANGED effect
        \/ /\ a > 0 /\ Confirmed(n)
           /\ \E p \in {"commit", "commitNil"} : InPhase(n, p, a)
           /\ UNCHANGED row
        \/ a > 0 /\ Absent(n) /\ InPhase(n, "check", a) /\ UNCHANGED row
  /\ UNCHANGED <<run, traversed, work, inflight, op, faults, failures>>

\* Confirmed: commitNodeSuccess; a Reconciler without result (commitNil)
\* leaves the route unknown.
CommitReconciled(n) ==
  /\ rec.phase \in {"commit", "commitNil"} /\ n \in rec.cur
  /\ CommitNodeSuccess(n, rec.att, Always, rec.phase = "commit")
  /\ NextCandidate(n)
  /\ UNCHANGED <<run, work, inflight, op, faults, histVars>>

\* Absent: nodeCancelRequested is read, then the node is cancelled or requeued.
CheckAbsent(n) ==
  /\ rec.phase = "check" /\ n \in rec.cur
  /\ InPhase(n, IF row[n].status = "cancel_requested" THEN "cancel" ELSE "requeue", rec.att)
  /\ UNCHANGED <<dbVars, work, inflight, op, faults, histVars>>

SettleAbsent(n) ==
  /\ rec.phase \in {"cancel", "requeue"} /\ n \in rec.cur
  /\ IF rec.phase = "cancel"
     THEN Append(n, OnNodeCancelled(row[n], rec.att))
     ELSE AppendTransition(n, OnNodeRequeued(row[n], rec.att, FALSE))
  /\ NextCandidate(n)
  /\ UNCHANGED <<run, traversed, work, inflight, op, faults, histVars>>

\* reconcileCancelledNode: a definite answer cancels the node.
ReconcileCancelledNode(n) ==
  /\ rec.phase = "queryCancelled" /\ n \in rec.cur
  /\ \/ /\ n \in Rejectable
        /\ Append(n, OnNodeTerminal(row[n], "failed", rec.att, FALSE))
        /\ NextCandidate(n) /\ UNCHANGED effect
     \/ /\ AppendTransition(n, OnNodeWaiting(row[n]))
        /\ NextCandidate(n) /\ UNCHANGED effect
     \/ /\ Confirmed(n) \/ Absent(n)
        /\ InPhase(n, "cancel", row[n].latest) /\ UNCHANGED row
  /\ UNCHANGED <<run, traversed, work, inflight, op, faults, failures>>

-----------------------------------------------------------------------------
(***************************************************************************)
(* CancelRun and AbandonRun: the run is read, then the transaction, then    *)
(* the tracked executions are signalled.                                   *)
(***************************************************************************)
RequestOp(o) ==
  /\ op = "idle" /\ run = "running"
  /\ op' = o
  /\ UNCHANGED <<dbVars, loop, work, inflight, rec, faults, histVars>>

CancelRun ==
  /\ op = "cancel"
  /\ op' = "signal"
  /\ IF run = "running"
     THEN /\ row' = [n \in Nodes |-> CancelNode(row[n])]
          /\ run' = IF \E n \in Nodes : row'[n].status \in Active THEN run ELSE "cancelled"
     ELSE UNCHANGED <<run, row>>
  /\ UNCHANGED <<traversed, loop, work, inflight, rec, faults, histVars>>

AbandonRun ==
  /\ op = "abandon"
  /\ op' = "signal"
  /\ run' = IF run = "running" THEN "abandoned" ELSE run
  /\ UNCHANGED <<row, traversed, loop, work, inflight, rec, faults, histVars>>

CancelInflightRun ==
  /\ op = "signal"
  /\ op' = "idle"
  /\ work' = [l \in Loops |-> [n \in Nodes |->
       IF work[l][n].pc \in Tracked THEN [work[l][n] EXCEPT !.sig = TRUE] ELSE work[l][n]]]
  /\ UNCHANGED <<dbVars, loop, inflight, rec, faults, histVars>>

-----------------------------------------------------------------------------
(***************************************************************************)
(* Time and failures.                                                      *)
(***************************************************************************)
\* A worker of the process holds the latest attempt of n.
Held(n) == \E l \in Loops : work[l][n].pc \in Tracked \ {"tracked"}
                            /\ work[l][n].att = row[n].latest

\* The lease of the latest attempt runs out; it is never renewed.  While a
\* worker holds the attempt this takes an execution longer than LeaseTTL.
ExpireLease(n) ==
  /\ row[n].lease = "valid"
  /\ \/ ~Held(n) /\ UNCHANGED faults
     \/ Held(n) /\ LongExecutions /\ Fault
  /\ row' = [row EXCEPT ![n].lease = "expired"]
  /\ UNCHANGED <<run, traversed, procVars, histVars>>

\* The process dies and is started again: only the store survives.
Crash ==
  /\ Fault
  /\ loop' = [l \in Loops |-> "idle"]
  /\ work' = [l \in Loops |-> [n \in Nodes |-> Idle]]
  /\ inflight' = {}
  /\ rec' = NoRec
  /\ op' = "idle"
  /\ UNCHANGED <<dbVars, histVars>>

WorkerStep(l, n) ==
  \/ ClaimNonExecutable(l, n) \/ FinishRouter(l, n) \/ RejectNode(l, n)
  \/ TrackInflight(l, n) \/ ClaimAttempt(l, n) \/ Dispatch(l, n)
  \/ ExecuteOk(l, n) \/ ExecuteError(l, n) \/ ExecuteCancelled(l, n)
  \/ ExecuteTimeout(l, n) \/ ExecuteUncertain(l, n)
  \/ CheckResult(l, n) \/ CommitResult(l, n)
  \/ UncertainNode(l, n) \/ CancelledNode(l, n)
  \/ RecordAttemptFailure(l, n) \/ RequeueNode(l, n)

RecoverStep ==
  \/ RecoverScan
  \/ \E n \in Nodes : \/ RecoverNode(n) \/ ResumeIdempotentAttempt(n)
                      \/ ReconcileNode(n) \/ CommitReconciled(n)
                      \/ CheckAbsent(n) \/ SettleAbsent(n)
                      \/ ReconcileCancelledNode(n)

LoopStep(l) == Step(l) \/ StepDone(l) \/ TryCompleteRun(l)

OpStep == CancelRun \/ AbandonRun \/ CancelInflightRun

Next ==
  \/ \E l \in Loops : LoopStep(l)
  \/ \E l \in Loops, n \in Nodes : WorkerStep(l, n) \/ Abort(l, n)
  \/ RecoverStep
  \/ \E o \in Ops : RequestOp(o)
  \/ OpStep
  \/ \E n \in Nodes : ExpireLease(n)
  \/ Crash

Spec == Init /\ [][Next]_vars

(***************************************************************************)
(* Fairness.  Every loop, worker and operator request of a live process    *)
(* goes on (an execution ends, timeout_ms or not); leases run out with      *)
(* time; the ticker calls RecoverAll on every tick before it steps, so a    *)
(* scan that is possible again and again happens.  Faults, which are        *)
(* bounded, are never forced.                                              *)
(***************************************************************************)
Fairness ==
  /\ \A l \in Loops : WF_vars(LoopStep(l))
  /\ \A l \in Loops, n \in Nodes : WF_vars(WorkerStep(l, n))
  /\ SF_vars(RecoverScan)
  /\ WF_vars(RecoverStep)
  /\ WF_vars(OpStep)
  /\ \A n \in Nodes : WF_vars(ExpireLease(n))

FairSpec == Spec /\ Fairness

-----------------------------------------------------------------------------
(***************************************************************************)
(* Properties.                                                             *)
(***************************************************************************)
\* The inflight map holds exactly the nodes with a tracked worker, and no
\* node has two of them: trackInflight, the claim and the deferred
\* untrackInflight never leave a stale entry (which would make the node
\* unclaimable for ever) nor lose one (which would allow a second,
\* concurrent execution of the node in the process).
InflightExact ==
  /\ inflight = {n \in Nodes : \E l \in Loops : work[l][n].pc \in Tracked}
  /\ \A n \in Nodes, l1, l2 \in Loops :
       work[l1][n].pc \in Tracked /\ work[l2][n].pc \in Tracked => l1 = l2

\* Cancellation is final: no event of a late worker, of a stale recovery or
\* of a retry takes a node out of cancel_requested except to cancelled, and
\* nothing takes it out of cancelled.
CancelIsFinal ==
  [][\A n \in Nodes :
       /\ row[n].status = "cancelled" => row'[n].status = "cancelled"
       /\ row[n].status = "cancel_requested" => row'[n].status \in Cancelling]_vars

\* An Execute of a node whose external effect is guarded (non_replayable or
\* reconcilable) starts only when no earlier execution of the node can have
\* had an effect: it failed before the effect, or the provider said that
\* the effect did not happen.
Starts(n) == ~Executing(n) /\ Executing(n)'

NoBlindRedispatch == [][\A n \in Nodes : Guarded(n) /\ Starts(n) => effect[n] = "clear"]_vars

\* The part of NoBlindRedispatch about non_replayable nodes.
NonReplayableOnce ==
  [][\A n \in Nodes : Contract[n] = "non_replayable" /\ Starts(n) => effect[n] = "clear"]_vars

\* A new attempt number (a new operation key) is used only after every
\* earlier attempt of an idempotent node was recorded as failed: an attempt
\* whose outcome was lost is resumed under its own key.
FreshKeyAfterFailure ==
  \A l \in Loops, n \in Nodes :
    Contract[n] = "idempotent" /\ work[l][n].pc = "exec"
      => \A b \in 1 .. work[l][n].att - 1 : row[n].att[b] = "failed"

\* Terminal history is preserved: a succeeded, failed, skipped or cancelled
\* node keeps its status.
TerminalHistory ==
  [][\A n \in Nodes : row[n].status \in Terminal => row'[n].status = row[n].status]_vars

\* A cancelled run is quiet: no worker of it is still inside Execute.
CancelledIsQuiet == run = "cancelled" => \A n \in Nodes : ~Executing(n)

\* A node has been started only after everything it depends on was done and
\* every route to it taken, and that stays so while it is not finished.
StartedAfterDependencies ==
  \A n \in Nodes :
    row[n].status \in {"running", "uncertain", "waiting", "reconciling", "eligible", "succeeded"}
      => Ready(n)

\* Routing fails closed: once a node has succeeded without selecting any of
\* its routes to a target that has no other incoming route, the target is
\* skipped (or cancelled), whatever else finished before.
UnselectedIsSkipped ==
  \A e \in RouteEdges :
    /\ row[e.from].status = "succeeded"
    /\ \A f \in RouteEdges : f.to = e.to => f.from = e.from /\ f \notin traversed
    => row[e.to].status \in {"skipped", "cancelled"}

\* A node fails for good after at most max_attempts failed executions; each
\* fault (a crash, an aborted worker) costs at most one execution more.
RetryBudget == \A n \in Nodes : failures[n] <= MaxAttempts[n] + faults

\* Every run ends, in spite of crashes and lost workers.
RunEnds == <>(run # "running")

\* A cancelled run ends: whatever was in flight when CancelRun committed is
\* settled by its worker or, after a crash, by recovery.
CancelEnds == (op = "signal") ~> (run # "running")

-----------------------------------------------------------------------------
(***************************************************************************)
(* What the engine promises of a run: RunOutcome, with the end of a node   *)
(* read off its row.                                                       *)
(***************************************************************************)
\* The end of a node, "stopping" once CancelRun wants it to stop.
Outcome(n) == IF row[n].status \in Terminal THEN row[n].status
              ELSE IF row[n].status = "cancel_requested" THEN "stopping" ELSE "open"

\* The sets of routes that routeFromTx may select for n.
RouteChoices(n) == {{}} \cup {Selected(n, r, TRUE) : r \in Routes \cup {Always}}

RunPromise == INSTANCE RunOutcome WITH
  outcome <- [n \in Nodes |-> Outcome(n)],
  taken   <- traversed,
  Choices <- [n \in Nodes |-> RouteChoices(n)]

\* What a run does implements the promise when one step loop drives it:
\* however workers, Recover, CancelRun, AbandonRun and crashes interleave, a
\* node ends once and only after what it waits for, with the routes it takes
\* in the same step; a cancelled run finishes no further node, and the end
\* of the run agrees with the ends of its nodes.
ImplementsRun == RunPromise!Spec
=============================================================================
