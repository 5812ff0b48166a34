-------------------------------- MODULE Gates --------------------------------
(***************************************************************************)
(* Nodes that wait for somebody: human approvals (a node whose executor is *)
(* human_approval, internal/controller/approval.go) and external waits (a  *)
(* gate node that waits for a provider event, external_wait.go), with the  *)
(* requests that answer them, their expiry, cancellation, crashes and the  *)
(* recovery of the nodes that were being dispatched.                       *)
(*                                                                         *)
(* Every store transaction is one action; a request handler's clock read,  *)
(* a scan's list and a recovery's list are older than the transactions     *)
(* that use them.  The graph is reduced to the gates: each is ready from   *)
(* the start, and routeFromTx is the set of routes_to conditions a gate    *)
(* traverses (Engine.tla models what happens downstream).                  *)
(***************************************************************************)
EXTENDS Projection

CONSTANTS
  Humans,      \* nodes with a human_approval executor
  Externals,   \* gate nodes with a declared external wait
  Runs,
  RunOf,       \* the run each node belongs to
  Corr,        \* event_type and correlation_key of each external wait
  Outgoing,    \* conditions of the routes_to edges leaving each node
  Conditioned, \* external waits with an expected_condition
  Timed,       \* external waits with an expires_at
  Contract,    \* side-effect contract of each human node
  Keys,        \* decision_idempotency_key and provider_event_id values
  MaxFaults    \* bound on crashes (named bound)

Gates == Humans \cup Externals

ASSUME GatesAssumption ==
  /\ Humans \cap Externals = {}
  /\ RunOf \in [Gates -> Runs]
  /\ Outgoing \in [Gates -> SUBSET {"success", "denied", "failure", "timeout"}]
  /\ Conditioned \subseteq Externals /\ Timed \subseteq Externals
  /\ Contract \in [Humans -> {"pure", "idempotent", "reconcilable", "non_replayable"}]
  /\ MaxFaults \in Nat

\* The key ExpireApprovals derives from the approval's id; no client uses one
\* of this form.
ExpiryKey(n) == <<"approval_expired", n>>
ExpiryKeys == {ExpiryKey(n) : n \in Humans}

ASSUME KeysAssumption == Keys \cap ExpiryKeys = {}

VARIABLES
  run,        \* graph_run.status
  row,        \* run_node and node_attempt rows
  decision,   \* approval.decision of the node's last approval, "none" without row
  wait,       \* external_wait.status of the node's last wait, "none" without row
  due,        \* gates whose expires_at has passed
  log,        \* the event recorded under each idempotency key
  routed,     \* conditions of the traversed routes_to edges
  worker,     \* executeNode of the node
  request,    \* the DecideApproval call being served
  scan,       \* expired gates a scan listed and has not come to
  rec,        \* what Recover listed and has not come to
  faults

gateVars == <<decision, wait, due, log, routed>>
procVars == <<worker, request, scan, rec>>
vars == <<run, row, gateVars, procVars, faults>>

NoEvent == [type |-> "none", gate |-> "none"]
NoRequest == [gate |-> "none"]
Free == [pc |-> "idle", att |-> 0]

DecisionEvents == {"approval_granted", "approval_denied"}
EventTypes == DecisionEvents \cup {"approval_expired", "external_event_received",
                                   "external_event_rejected"}

TypeOK ==
  /\ run \in [Runs -> {"running", "completed", "failed", "cancelled", "abandoned"}]
  /\ row \in [Gates -> Row]
  /\ decision \in [Humans -> {"none", "null", "grant", "deny"}]
  /\ wait \in [Externals -> {"none", "pending", "completed", "expired", "cancelled"}]
  /\ due \subseteq Gates
  /\ log \in [Keys \cup ExpiryKeys -> {NoEvent} \cup [type : EventTypes, gate : Gates]]
  /\ routed \in [Gates -> SUBSET {"success", "denied", "failure", "timeout"}]
  /\ worker \in [Gates -> [pc : {"idle", "listed", "claimed"}, att : 0 .. AttemptBound]]
  /\ request \in {NoRequest} \cup [gate : Humans, decision : {"grant", "deny"},
                                   key : Keys, late : BOOLEAN]
  /\ scan \subseteq Gates
  /\ rec \in [Gates -> {"no", "inflight", "cancel_requested", "reconciling"}]
  /\ faults \in 0 .. MaxFaults

\* CreateRun; the gates the rest of the graph routed around are skipped.
InitSkipped(skipped) ==
  /\ run = [r \in Runs |-> "running"]
  /\ row = [n \in Gates |-> IF n \in skipped THEN [NoRow EXCEPT !.status = "skipped"] ELSE NoRow]
  /\ decision = [n \in Humans |-> "none"]
  /\ wait = [n \in Externals |-> "none"]
  /\ due = {}
  /\ log = [k \in Keys \cup ExpiryKeys |-> NoEvent]
  /\ routed = [n \in Gates |-> {}]
  /\ worker = [n \in Gates |-> Free]
  /\ request = NoRequest
  /\ scan = {}
  /\ rec = [n \in Gates |-> "no"]
  /\ faults = 0

Init == \E skipped \in SUBSET Gates : InitSkipped(skipped)

Running(n) == run[RunOf[n]] = "running"

\* Mutant of Recorded: the duplicate check looks at decisions only.
RecordedDecision(k) == log[k].type \in DecisionEvents

\* An event carries this idempotency key.
Recorded(k) == log[k] # NoEvent

\* The handlers of the gates' events.  A new approval or wait has its whole
\* time before it.  Nothing guards a decided approval, nor an ended run, but
\* the transaction that appends the event; only a wait that is pending ends.
OnApprovalRequested(n) ==
  decision' = [decision EXCEPT ![n] = "null"] /\ due' = due \ {n}

OnApprovalDecided(n, by) == decision' = [decision EXCEPT ![n] = by]

OnExternalWaitRequested(n) ==
  wait' = [wait EXCEPT ![n] = "pending"] /\ due' = due \ {n}

OnExternalWaitEnded(n, how) ==
  wait' = [wait EXCEPT ![n] = IF @ = "pending" THEN how ELSE @]

OnRunTerminal(r, how) == run' = [run EXCEPT ![r] = how]

\* isTerminalNodeStatus: what no gate is registered for.
Closed(n) == row[n].status \in Terminal \cup {"cancel_requested"}

\* node_finished with a route, and routeFromTx.
FinishWith(n, route) ==
  /\ row' = [row EXCEPT ![n] = OnNodeTerminal(@, "succeeded", @.count, FALSE)]
  /\ routed' = [routed EXCEPT ![n] = @ \cup ({route} \cap Outgoing[n])]

Fail(n) ==
  /\ row' = [row EXCEPT ![n] = OnNodeTerminal(@, "failed", @.count, FALSE)]
  /\ UNCHANGED routed

\* Mutant of RouteOrFail: a definition without such an edge changes nothing.
RouteOnly(n, routes) ==
  \/ \E c \in routes \cap Outgoing[n] : FinishWith(n, c)
  \/ routes \cap Outgoing[n] = {} /\ UNCHANGED <<row, routed>>

\* The node leaves by one of these routes if the definition has such an edge
\* and fails otherwise.
RouteOrFail(n, routes) ==
  \/ \E c \in routes \cap Outgoing[n] : FinishWith(n, c)
  \/ routes \cap Outgoing[n] = {} /\ Fail(n)

-----------------------------------------------------------------------------
(***************************************************************************)
(* Dispatch: Step lists the node, executeNode claims it and registers the  *)
(* gate in a second transaction.                                           *)
(***************************************************************************)
\* Mutant of List: the attempt number skips one.
ListSkipping(n) ==
  /\ Running(n)
  /\ worker[n].pc = "idle"
  /\ row[n].status \in {"absent", "pending", "eligible"}
  /\ row[n].count < AttemptBound
  /\ worker' = [worker EXCEPT ![n] = [pc |-> "listed", att |-> row[n].count + 2]]
  /\ UNCHANGED <<run, row, gateVars, request, scan, rec, faults>>

List(n) ==
  /\ Running(n)
  /\ worker[n].pc = "idle"
  /\ row[n].status \in {"absent", "pending", "eligible"}
  /\ row[n].count < AttemptBound
  /\ worker' = [worker EXCEPT ![n] = [pc |-> "listed", att |-> row[n].count + 1]]
  /\ UNCHANGED <<run, row, gateVars, request, scan, rec, faults>>

\* What the claiming transaction looks at.
Claimable(n) == row[n].status \in {"absent", "pending", "eligible"}

\* claimNonExecutable and beginClaimedAttempt; only the latter leaves an
\* attempt row.
Claim(n) ==
  /\ worker[n].pc = "listed"
  /\ IF Claimable(n)
     THEN /\ row' = [row EXCEPT ![n] =
                       OnNodeStarted(EnsureRunNode(@), worker[n].att, n \in Humans)]
          /\ worker' = [worker EXCEPT ![n].pc = "claimed"]
     ELSE UNCHANGED row /\ worker' = [worker EXCEPT ![n] = Free]
  /\ UNCHANGED <<run, gateVars, request, scan, rec, faults>>

Return(n) ==
  /\ worker[n].pc = "claimed"
  /\ worker' = [worker EXCEPT ![n] = Free]
  /\ UNCHANGED <<run, request, scan, rec, faults>>

\* The cancellation is noticed before or during the execution.
CancelledNode(n) ==
  /\ Return(n)
  /\ row[n].status \in Cancelling
  /\ row' = [row EXCEPT ![n] = OnNodeCancelled(@, IF n \in Humans THEN worker[n].att ELSE 0)]
  /\ UNCHANGED gateVars

MayRegister(n) == Running(n) /\ ~Closed(n)

\* RegisterApprovalGate: a pending approval makes it a no-op (the node is not
\* moved to waiting then); a refusal leaves the claimed node as it is.
RegisterApprovalGate(n) ==
  /\ n \in Humans
  /\ Return(n)
  /\ IF MayRegister(n) /\ decision[n] # "null"
     THEN /\ OnApprovalRequested(n)
          /\ row' = [row EXCEPT ![n] = OnNodeWaiting(@)]
     ELSE UNCHANGED <<decision, due, row>>
  /\ UNCHANGED <<wait, log, routed>>

\* Mutant of Taken: only waits of the same run are looked at.
TakenInRun(n) ==
  \E m \in Externals : Corr[m] = Corr[n] /\ RunOf[m] = RunOf[n] /\ wait[m] = "pending"

\* A pending wait of any run holds the correlation.
Taken(n) == \E m \in Externals : Corr[m] = Corr[n] /\ wait[m] = "pending"

RegisterExternalWait(n) ==
  /\ n \in Externals
  /\ Return(n)
  /\ IF MayRegister(n) /\ ~Taken(n)
     THEN /\ OnExternalWaitRequested(n)
          /\ row' = [row EXCEPT ![n] = OnNodeWaiting(@)]
     ELSE UNCHANGED <<wait, due, row>>
  /\ UNCHANGED <<decision, log, routed>>

-----------------------------------------------------------------------------
(***************************************************************************)
(* Answers.                                                                *)
(***************************************************************************)
\* DecideApproval reads the clock before its transaction.
AskDecision(n, d, k) ==
  /\ request = NoRequest
  /\ decision[n] # "none"
  /\ request' = [gate |-> n, decision |-> d, key |-> k, late |-> n \in due]
  /\ UNCHANGED <<run, row, gateVars, worker, scan, rec, faults>>

\* Mutant of MayDecide: the expiry event is not looked at.
MayDecideExpired(q) ==
  /\ ~Recorded(q.key)
  /\ decision[q.gate] = "null"
  /\ ~q.late
  /\ Running(q.gate)

\* Mutant of MayDecide: the run is not looked at.
MayDecideEnded(q) ==
  /\ ~Recorded(q.key)
  /\ decision[q.gate] = "null"
  /\ ~Recorded(ExpiryKey(q.gate)) /\ ~q.late

\* The checks of the transaction; the node's status is not one of them.
MayDecide(q) ==
  /\ ~Recorded(q.key)
  /\ decision[q.gate] = "null"
  /\ ~Recorded(ExpiryKey(q.gate)) /\ ~q.late
  /\ Running(q.gate)

DecideApproval ==
  /\ request # NoRequest
  /\ LET q == request
         n == q.gate
     IN  IF MayDecide(q)
         THEN /\ OnApprovalDecided(n, q.decision)
              /\ log' = [log EXCEPT ![q.key] =
                   [type |-> IF q.decision = "grant" THEN "approval_granted"
                             ELSE "approval_denied", gate |-> n]]
              /\ IF q.decision = "grant" THEN FinishWith(n, "success")
                 ELSE RouteOrFail(n, {"denied", "failure"})
         ELSE UNCHANGED <<decision, log, row, routed>>
  /\ request' = NoRequest
  /\ UNCHANGED <<run, wait, due, worker, scan, rec, faults>>

\* What CompleteExternalWait checks before it looks at the provider's status.
Acceptable(n, matches) == wait[n] = "pending" /\ matches /\ Running(n)

\* A delivery that cannot apply still consumes its provider event id.
RejectEvent(n, k, matches) ==
  /\ wait[n] # "none" /\ ~Recorded(k)
  /\ ~Acceptable(n, matches)
  /\ log' = [log EXCEPT ![k] = [type |-> "external_event_rejected", gate |-> n]]
  /\ UNCHANGED <<run, row, decision, wait, due, routed, procVars, faults>>

\* An expected condition that holds is a success whatever the status.
CompletionRoute(n, status, satisfied) ==
  IF n \in Conditioned /\ satisfied THEN "success" ELSE status

\* CompleteExternalWait accepts.  Provider states that are not final, and a
\* success that does not meet the condition, only add an event without key.
AcceptEvent(n, k, status, satisfied) ==
  /\ ~Recorded(k)
  /\ Acceptable(n, TRUE)
  /\ ~(n \in Conditioned /\ ~satisfied /\ status = "success")
  /\ log' = [log EXCEPT ![k] = [type |-> "external_event_received", gate |-> n]]
  /\ OnExternalWaitEnded(n, "completed")
  /\ FinishWith(n, CompletionRoute(n, status, satisfied))
  /\ UNCHANGED <<run, decision, due, procVars, faults>>

-----------------------------------------------------------------------------
(***************************************************************************)
(* Expiry: every Step, whatever its run, and every Recover.                *)
(***************************************************************************)
Open(n) == IF n \in Humans THEN decision[n] = "null" ELSE wait[n] = "pending"

PassDeadline(n) ==
  /\ Open(n) /\ n \notin due
  /\ n \in Humans \cup Timed
  /\ due' = due \cup {n}
  /\ UNCHANGED <<run, row, decision, wait, log, routed, procVars, faults>>

\* ListExpiredExternalWaits and ListExpiredApprovals, outside a transaction.
\* An approval whose expiry was recorded has no decision and is listed again.
ListExpired ==
  /\ scan = {}
  /\ \E r \in Runs : run[r] = "running"
  /\ scan' = {n \in due : Open(n)}
  /\ scan' # {}
  /\ UNCHANGED <<run, row, gateVars, worker, request, rec, faults>>

\* Mutant of MayExpire: an approval is expired only while its node waits.
MayExpireWaiting(n) ==
  /\ decision[n] = "null" /\ Running(n) /\ ~Recorded(ExpiryKey(n))
  /\ row[n].status = "waiting"

MayExpire(n) == decision[n] = "null" /\ Running(n) /\ ~Recorded(ExpiryKey(n))

ExpireApproval(n) ==
  /\ n \in scan \cap Humans
  /\ scan' = scan \ {n}
  /\ IF MayExpire(n)
     THEN /\ log' = [log EXCEPT ![ExpiryKey(n)] = [type |-> "approval_expired", gate |-> n]]
          /\ RouteOrFail(n, {"timeout"})
     ELSE UNCHANGED <<log, row, routed>>
  /\ UNCHANGED <<run, decision, wait, due, worker, request, rec, faults>>

\* The wait's run may be over.
ExpireExternalWait(n) ==
  /\ n \in scan \cap Externals
  /\ scan' = scan \ {n}
  /\ IF wait[n] = "pending"
     THEN /\ OnExternalWaitEnded(n, "expired")
          /\ RouteOrFail(n, {"timeout"})
     ELSE UNCHANGED <<wait, row, routed>>
  /\ UNCHANGED <<run, decision, due, log, worker, request, rec, faults>>

-----------------------------------------------------------------------------
(***************************************************************************)
(* The run around the gates.                                               *)
(***************************************************************************)
Of(r) == {n \in Gates : RunOf[n] = r}

\* The waits CancelRun cancels; approvals have no such event.
Cancelled(r) == {n \in Externals : RunOf[n] = r /\ wait[n] = "pending"}

CancelRun(r) ==
  /\ run[r] = "running"
  /\ row' = [n \in Gates |-> IF n \in Of(r) THEN CancelNode(row[n]) ELSE row[n]]
  /\ wait' = [n \in Externals |-> IF n \in Cancelled(r) THEN "cancelled" ELSE wait[n]]
  /\ run' = [run EXCEPT ![r] =
               IF \E n \in Of(r) : row'[n].status \in Active THEN @ ELSE "cancelled"]
  /\ UNCHANGED <<decision, due, log, routed, procVars, faults>>

AbandonRun(r) ==
  /\ run[r] = "running"
  /\ OnRunTerminal(r, "abandoned")
  /\ UNCHANGED <<row, gateVars, procVars, faults>>

\* tryCompleteRun: a failed node ends the run, open gates or not.
Verdict(r) ==
  IF \E n \in Of(r) : row[n].status = "failed" THEN "failed"
  ELSE IF \E n \in Of(r) : row[n].status \in Active THEN "running"
  ELSE IF \E n \in Of(r) : row[n].status = "cancelled" THEN "cancelled"
  ELSE "completed"

TryCompleteRun(r) ==
  /\ run[r] = "running"
  /\ \A n \in Of(r) : row[n].status \notin {"absent", "pending", "eligible"}
  /\ Verdict(r) # "running"
  /\ OnRunTerminal(r, Verdict(r))
  /\ UNCHANGED <<row, gateVars, procVars, faults>>

-----------------------------------------------------------------------------
(***************************************************************************)
(* Crash and recovery.                                                     *)
(***************************************************************************)
Crash ==
  /\ faults < MaxFaults
  /\ faults' = faults + 1
  /\ worker' = [n \in Gates |-> Free]
  /\ request' = NoRequest
  /\ scan' = {}
  /\ rec' = [n \in Gates |-> "no"]
  /\ UNCHANGED <<run, row, gateVars>>

\* The lease of an attempt nobody executes any more runs out.
ExpireLease(n) ==
  /\ row[n].lease = "valid" /\ worker[n].pc # "claimed"
  /\ row[n].status \notin Terminal
  /\ row' = [row EXCEPT ![n].lease = "expired"]
  /\ UNCHANGED <<run, gateVars, procVars, faults>>

\* Recover lists what was in flight; a gate claimed without attempt row has
\* no lease and is listed too, even while its worker is alive.
RecoverScan(r) ==
  /\ run[r] = "running"
  /\ \A n \in Gates : rec[n] = "no"
  /\ rec' = [n \in Gates |->
       IF n \notin Of(r) \/ row[n].lease = "valid" THEN "no"
       ELSE IF row[n].status = "cancel_requested" THEN "cancel_requested"
       ELSE IF row[n].status \in {"running", "uncertain", "reconciling"} THEN "inflight"
       ELSE "no"]
  /\ rec' # rec
  /\ UNCHANGED <<run, row, gateVars, worker, request, scan, faults>>

AppendTransition(n, new) ==
  row' = IF row[n].status \in Cancelling THEN row ELSE [row EXCEPT ![n] = new]

\* recoverNode and recoverCancelledNode of a human node.
RecoverHuman(n) ==
  /\ n \in Humans /\ rec[n] # "no"
  /\ IF rec[n] = "cancel_requested"
     THEN /\ row' = IF Contract[n] = "pure"
                    THEN [row EXCEPT ![n] = OnNodeCancelled(@, @.latest)] ELSE row
          /\ rec' = [rec EXCEPT ![n] = "no"]
     ELSE \/ /\ Contract[n] = "pure"
             /\ AppendTransition(n, OnNodeRequeued(row[n], 0, FALSE))
             /\ rec' = [rec EXCEPT ![n] = "no"]
          \/ /\ Contract[n] = "idempotent"
             /\ row' = [row EXCEPT ![n] = OnNodeRequeued(@, @.latest, TRUE)]
             /\ rec' = [rec EXCEPT ![n] = "no"]
          \/ /\ Contract[n] = "reconcilable" /\ rec[n] = "inflight"
             /\ row' = [row EXCEPT ![n] = OnNodeReconciling(@)]
             /\ rec' = [rec EXCEPT ![n] = "reconciling"]
          \/ /\ \/ Contract[n] = "non_replayable"
                \/ rec[n] = "reconciling"      \* the executor cannot reconcile
             /\ AppendTransition(n, OnNodeWaiting(row[n]))
             /\ rec' = [rec EXCEPT ![n] = "no"]
  /\ UNCHANGED <<run, gateVars, worker, request, scan, faults>>

\* A gate node has no executor: contractFor fails and Recover returns.
RecoverGate(n) ==
  /\ n \in Externals /\ rec[n] # "no"
  /\ rec' = [m \in Gates |-> "no"]
  /\ UNCHANGED <<run, row, gateVars, worker, request, scan, faults>>

-----------------------------------------------------------------------------
Dispatch(n) ==
  \/ List(n) \/ Claim(n) \/ CancelledNode(n)
  \/ RegisterApprovalGate(n) \/ RegisterExternalWait(n)

Answer ==
  \/ \E n \in Humans, d \in {"grant", "deny"}, k \in Keys : AskDecision(n, d, k)
  \/ DecideApproval
  \/ \E n \in Externals, k \in Keys, matches \in BOOLEAN : RejectEvent(n, k, matches)
  \/ \E n \in Externals, k \in Keys, status \in {"success", "failure"},
        satisfied \in BOOLEAN : AcceptEvent(n, k, status, satisfied)

Expire(n) == ExpireApproval(n) \/ ExpireExternalWait(n)

Recover(n) == RecoverHuman(n) \/ RecoverGate(n)

Next ==
  \/ \E n \in Gates : Dispatch(n) \/ PassDeadline(n) \/ Expire(n)
                      \/ ExpireLease(n) \/ Recover(n)
  \/ Answer
  \/ ListExpired
  \/ \E r \in Runs : CancelRun(r) \/ AbandonRun(r) \/ TryCompleteRun(r) \/ RecoverScan(r)
  \/ Crash

\* The serve ticker keeps stepping the running runs, and every Step scans.
Fairness ==
  /\ WF_vars(ListExpired)
  /\ \A n \in Gates : WF_vars(Expire(n))

Spec == Init /\ [][Next]_vars /\ Fairness

-----------------------------------------------------------------------------
(***************************************************************************)
(* Properties.                                                             *)
(***************************************************************************)
\* How a gate stands.  An approval has no expired state of its own: it is the
\* recorded expiry event that says so, and nothing but the order of the checks
\* keeps a decision off an expired approval and an expiry off a decided one.
Outcome(n) ==
  IF n \in Externals
  THEN IF wait[n] = "pending" THEN "open" ELSE wait[n]
  ELSE IF Recorded(ExpiryKey(n))
  THEN IF decision[n] = "null" THEN "expired" ELSE "decided and expired"
  ELSE IF decision[n] = "null" THEN "open" ELSE decision[n]

\* The sets of routes each outcome of a gate may take.
LeadsOf(n) ==
  LET to(routes) == IF routes \cap Outgoing[n] = {} THEN {{}}
                    ELSE {{c} : c \in routes \cap Outgoing[n]}
  IN  [grant |-> to({"success"}), deny |-> to({"denied", "failure"}),
       completed |-> to({"success"}) \cup to({"failure"}),
       expired |-> to({"timeout"}), cancelled |-> {{}}]

Promise == INSTANCE WaitOutcome WITH
  Outcomes <- {"grant", "deny", "completed", "expired", "cancelled"},
  Leads <- [n \in Gates |-> LeadsOf(n)],
  outcome <- [n \in Gates |-> Outcome(n)],
  taken <- routed

\* Decisions, deliveries, expiry scans and cancellation race for a gate; one of
\* them resolves it, once, and only its routes are ever taken.
ImplementsPromise == Promise!Spec

\* Two runs of a definition share the correlation of their gates: a delivery
\* must have one addressee.
OneWaitPerCorrelation ==
  \A m, n \in Externals :
    Corr[m] = Corr[n] /\ wait[m] = "pending" /\ wait[n] = "pending" => m = n

\* Idempotency keys of decisions and of provider events live in one table: a
\* gate is answered exactly when one event under one key says so.
AnswersAreLogged ==
  LET saying(n, type) == {k \in DOMAIN log : log[k] = [type |-> type, gate |-> n]}
      one(S) == \E k \in S : S = {k}
  IN  /\ \A n \in Humans :
           /\ decision[n] = "grant" <=> one(saying(n, "approval_granted"))
           /\ decision[n] = "deny" <=> one(saying(n, "approval_denied"))
      /\ \A n \in Externals :
           wait[n] = "completed" <=> one(saying(n, "external_event_received"))

\* A waiting node of a running run can still be answered: its gate is open.
\* Nothing else moves a waiting node, recovery included.
WaitIsAnswerable ==
  \A n \in Gates : Running(n) /\ row[n].status = "waiting" => Outcome(n) = "open"

\* "decision cannot revive it": no approval is decided or expired once its run
\* is over, and an answer never moves a node that is already final.
FinalStays ==
  [][\A n \in Gates :
       /\ row[n].status \in Terminal => row'[n].status = row[n].status
       /\ n \in Humans /\ ~Running(n) => Outcome(n)' = Outcome(n)]_vars

\* A gate past its deadline does not stay open while its run goes on, whatever
\* crashes: some scan comes to it.
DueIsResolved ==
  \A n \in Gates :
    n \in due /\ Outcome(n) = "open" ~> Outcome(n) # "open" \/ ~Running(n)
=============================================================================
