------------------------------ MODULE HttpEffect ------------------------------
(***************************************************************************)
(* One node with an http executor, from its claim to its outcome           *)
(* (internal/executor/http/executor.go), the effect rows it leaves         *)
(* (internal/controller/effects.go), and what recovery makes of them       *)
(* (recover.go, outcomes.go).  The remote system is external: it performs  *)
(* a request or refuses it with a status of 400 or more, it may answer a   *)
(* request with a redirect, it may serve a request its client has given up *)
(* on, and it honours the Idempotency-Key header.                          *)
(*                                                                         *)
(* Engine.tla models the node's row under all interleavings; here one      *)
(* controller works at a time and the row is its status only.              *)
(***************************************************************************)
EXTENDS Naturals, FiniteSets, Sequences

CONSTANTS
  HttpContracts,  \* side-effect contracts to try
  MaxAttempts,    \* the node's max_attempts
  MaxEffects,     \* bound on the effect rows (named bound)
  MaxHttpCrashes  \* bound on crashes (named bound)

ASSUME HttpAssumption ==
  /\ HttpContracts \subseteq {"pure", "idempotent", "reconcilable", "non_replayable"}
  /\ MaxAttempts \in Nat \ {0} /\ MaxEffects \in Nat \ {0} /\ MaxHttpCrashes \in Nat

VARIABLES
  contract,     \* side_effect_contract
  node,         \* run_node.status
  attempt,      \* the attempt number the next or current claim uses
  pc,           \* where Execute, or reconcileNode, is
  result,       \* what Execute is about to return
  cancelled,    \* the cancellation signal of the execution
  effects,      \* effect rows, oldest first
  performed,    \* effects whose request the remote system performed
  wire,         \* effects whose request is on its way to the remote system
  httpCrashes

httpVars == <<contract, node, attempt, pc, result, cancelled, effects, performed, wire, httpCrashes>>

\* "refused": an answer with a status of 400 or more.
Results == {"none", "ok", "refused", "failure", "uncertain", "timeout", "cancelled"}
NodeEnds == {"succeeded", "failed", "cancelled"}
EffectStatus == {"pending", "confirmed", "rejected", "unknown"}

HttpTypeOK ==
  /\ contract \in HttpContracts
  /\ node \in NodeEnds \cup {"eligible", "running", "uncertain", "waiting", "reconciling",
                             "cancel_requested"}
  /\ attempt \in 1 .. MaxAttempts + MaxEffects + MaxHttpCrashes
  /\ pc \in {"idle", "claimed", "intended", "sent", "redirected", "answered", "receipted",
             "returned", "late", "marked", "reconciling", "confirmed", "absent"}
  /\ result \in Results
  /\ cancelled \in BOOLEAN
  /\ effects \in Seq([attempt : Nat, status : EffectStatus, redirected : BOOLEAN])
  /\ Len(effects) <= MaxEffects
  /\ performed \subseteq 1 .. Len(effects) /\ wire \subseteq 1 .. Len(effects)
  /\ httpCrashes \in 0 .. MaxHttpCrashes

HttpStart(c) ==
  /\ contract = c
  /\ node = "eligible" /\ attempt = 1
  /\ pc = "idle" /\ result = "none" /\ cancelled = FALSE
  /\ effects = <<>> /\ performed = {} /\ wire = {}
  /\ httpCrashes = 0

HttpInit == \E c \in HttpContracts : HttpStart(c)

Current == Len(effects)

Go(to) == pc' = to /\ UNCHANGED result
Yield(r) == pc' = "returned" /\ result' = r
Classify(r) == pc' = "answered" /\ result' = r

Rest == UNCHANGED <<contract, httpCrashes>>

\* Only node_cancelled moves a node whose cancellation was requested.
Finish(status) ==
  /\ node' = IF node = "cancel_requested" /\ status # "cancelled" THEN node ELSE status
  /\ pc' = "idle" /\ result' = "none"

-----------------------------------------------------------------------------
(***************************************************************************)
(* Execute.                                                                *)
(***************************************************************************)
ClaimHttp ==
  /\ node = "eligible" /\ pc = "idle"
  /\ Len(effects) < MaxEffects
  /\ node' = "running" /\ cancelled' = FALSE
  /\ Go("claimed")
  /\ UNCHANGED <<attempt, effects, performed, wire>> /\ Rest

\* Configuration, secrets or the intent's transaction fail, or a cancellation
\* is noticed before Execute is called: nothing was sent.
RefuseRequest ==
  /\ pc = "claimed"
  /\ \/ Yield("failure") /\ UNCHANGED node
     \/ cancelled /\ Finish("cancelled")
  /\ UNCHANGED <<attempt, cancelled, effects, performed, wire>> /\ Rest

RecordIntent ==
  /\ pc = "claimed"
  /\ effects' = Append(effects, [attempt |-> attempt, status |-> "pending", redirected |-> FALSE])
  /\ Go("intended")
  /\ UNCHANGED <<node, attempt, cancelled, performed, wire>> /\ Rest

\* isPreSendError: the name does not resolve or nobody accepts the connection.
PreSendError ==
  /\ pc = "intended"
  /\ Classify("failure")
  /\ UNCHANGED <<node, attempt, cancelled, effects, performed, wire>> /\ Rest

Send ==
  /\ pc = "intended"
  /\ wire' = wire \cup {Current}
  /\ Go("sent")
  /\ UNCHANGED <<node, attempt, cancelled, effects, performed>> /\ Rest

\* Mutant of OperationHeader: the key is that of the attempt.
AttemptHeader(i) == IF contract = "idempotent" THEN effects[i].attempt ELSE i

\* stableOperationKey, of run, definition and node, is sent with an idempotent
\* contract only; a request without a key is like no other.
OperationHeader(i) == IF contract = "idempotent" THEN 0 ELSE i

\* The remote system has performed a request with the same key.
AlreadyPerformed(i) == \E j \in performed : OperationHeader(j) = OperationHeader(i)

\* What the client gets for its current request; the remote system may serve
\* a request long after its client gave up.
Waiting(i) == pc = "sent" /\ i = Current
Answer(i, to, r) ==
  IF Waiting(i) THEN pc' = to /\ result' = r ELSE UNCHANGED <<pc, result>>

Perform(i) == performed' = IF AlreadyPerformed(i) THEN performed ELSE performed \cup {i}

RemotePerforms(i) ==
  /\ i \in wire
  /\ wire' = wire \ {i}
  /\ Perform(i)
  /\ Answer(i, "answered", "ok")
  /\ UNCHANGED <<node, attempt, cancelled, effects>> /\ Rest

\* An error status; a key the remote system knows gets the stored answer.
RemoteRefuses(i) ==
  /\ i \in wire /\ ~AlreadyPerformed(i)
  /\ wire' = wire \ {i}
  /\ Answer(i, "answered", "refused")
  /\ UNCHANGED <<node, attempt, cancelled, effects, performed>> /\ Rest

\* The request was performed and the answer sends the client elsewhere.
RemoteRedirects(i) ==
  /\ i \in wire /\ Waiting(i)
  /\ wire' = wire \ {i}
  /\ Perform(i)
  /\ effects' = [effects EXCEPT ![i].redirected = TRUE]
  /\ Go("redirected")
  /\ UNCHANGED <<node, attempt, cancelled>> /\ Rest

\* CheckRedirect denies the host or the next host cannot be dialled: a
\* definitive failure, like a request that was never sent.  Otherwise its
\* answer is the answer.
FollowRedirect ==
  /\ pc = "redirected"
  /\ \E r \in {"failure", "refused", "ok"} : Classify(r)
  /\ UNCHANGED <<node, attempt, cancelled, effects, performed, wire>> /\ Rest

\* Mutant of LostAnswer: a connection that breaks is a failed delivery.
BrokenIsFailure == {"failure"} \cup {"timeout"}

\* How dispatch classifies a request whose answer does not arrive: the
\* connection breaks or the body is torn, or the deadline passes.
LostAnswer == {"uncertain", "timeout"}

GiveUp ==
  /\ pc \in {"sent", "redirected"}
  /\ \E r \in LostAnswer \cup (IF cancelled THEN {"cancelled"} ELSE {}) : Classify(r)
  /\ UNCHANGED <<node, attempt, cancelled, effects, performed, wire>> /\ Rest

TornBody ==
  /\ pc = "answered" /\ result \in {"ok", "refused"}
  /\ Classify("uncertain")
  /\ UNCHANGED <<node, attempt, cancelled, effects, performed, wire>> /\ Rest

\* The receipt's status for each outcome of dispatch.
ReceiptOf(r) ==
  CASE r = "ok" -> "confirmed"
    [] r \in {"refused", "failure"} -> "rejected"
    [] OTHER -> "unknown"

\* RecordReceipt on a detached context; if its transaction fails the outcome
\* is uncertain whatever it was.
RecordReceipt ==
  /\ pc = "answered"
  /\ \/ /\ effects' = [effects EXCEPT ![Current].status = ReceiptOf(result)]
        /\ IF result \in {"ok", "refused"} THEN Go("receipted") ELSE Yield(result)
     \/ Yield("uncertain") /\ UNCHANGED effects
  /\ UNCHANGED <<node, attempt, cancelled, performed, wire>> /\ Rest

\* Publish, whatever the answer's status; when it fails after the receipt, the
\* request must not be retried.  Only then is a refusal a failure.
PublishResponse ==
  /\ pc = "receipted"
  /\ \/ Yield(IF result = "refused" THEN "failure" ELSE result)
     \/ Yield("uncertain")
  /\ UNCHANGED <<node, attempt, cancelled, effects, performed, wire>> /\ Rest

-----------------------------------------------------------------------------
(***************************************************************************)
(* The controller's classification of what Execute returned.               *)
(***************************************************************************)
\* The controller's own timer fired before Execute returned: what Execute
\* made of that, unless it was a failure or an uncertainty, is a timeout.
TimedOut ==
  /\ pc = "returned" /\ result # "uncertain"
  /\ pc' = "late"
  /\ result' = IF result = "failure" THEN result ELSE "timeout"
  /\ UNCHANGED <<node, attempt, cancelled, effects, performed, wire>> /\ Rest

\* leaseValid fails: nobody may record the success any more.
LoseLease ==
  /\ pc = "returned" /\ result = "ok"
  /\ Yield("uncertain")
  /\ UNCHANGED <<node, attempt, cancelled, effects, performed, wire>> /\ Rest

CommitSuccess ==
  /\ pc = "returned" /\ result = "ok"
  /\ Finish(IF node = "cancel_requested" THEN "cancelled" ELSE "succeeded")
  /\ UNCHANGED <<attempt, cancelled, effects, performed, wire>> /\ Rest

\* Also a failure while the execution's context is cancelled.
CommitCancelled ==
  /\ pc = "returned"
  /\ \/ result = "cancelled"
     \/ result = "failure" /\ cancelled
  /\ Finish("cancelled")
  /\ UNCHANGED <<attempt, cancelled, effects, performed, wire>> /\ Rest

\* The execution was cancelled, and not by the controller's timer.
Stopped == cancelled /\ pc = "returned"

\* Mutant of Unsafe: a timeout is retried like any failure.
UnsafeUncertain == result = "uncertain"

\* A timeout whose delivery cannot be verified or repeated is an uncertainty.
Unsafe ==
  \/ result = "uncertain"
  \/ result = "timeout" /\ contract \in {"reconcilable", "non_replayable"} /\ ~Stopped

\* Another attempt, if there is one left and the node may be claimed again.
RecordFailure ==
  /\ pc \in {"returned", "late"} /\ result \in {"failure", "timeout"}
  /\ ~Stopped /\ ~Unsafe
  /\ IF attempt >= MaxAttempts
     THEN Finish("failed") /\ UNCHANGED attempt
     ELSE Finish("eligible") /\ attempt' = IF node = "running" THEN attempt + 1 ELSE attempt
  /\ UNCHANGED <<cancelled, effects, performed, wire>> /\ Rest

\* markPendingEffectsUnknown, before the node's event.
MarkPendingUnknown ==
  /\ pc \in {"returned", "late"} /\ Unsafe
  /\ effects' = [i \in 1 .. Len(effects) |->
       IF effects[i].attempt = attempt /\ effects[i].status = "pending"
       THEN [effects[i] EXCEPT !.status = "unknown"] ELSE effects[i]]
  /\ Go("marked")
  /\ UNCHANGED <<node, attempt, cancelled, performed, wire>> /\ Rest

\* A timeout of a cancelled execution is a cancellation.
CancelledTimeout ==
  /\ pc = "returned" /\ result = "timeout" /\ cancelled
  /\ Finish("cancelled")
  /\ UNCHANGED <<attempt, cancelled, effects, performed, wire>> /\ Rest

NodeUncertain ==
  /\ pc = "marked"
  /\ Finish("uncertain")
  /\ UNCHANGED <<attempt, cancelled, effects, performed, wire>> /\ Rest

\* CancelRun, and its signal to the execution.
CancelHttp ==
  /\ node \notin NodeEnds \cup {"cancel_requested"}
  /\ node' = IF node \in {"running", "uncertain", "reconciling"} THEN "cancel_requested"
             ELSE "cancelled"
  /\ cancelled' = (node = "running" /\ pc # "idle")
  /\ UNCHANGED <<attempt, pc, result, effects, performed, wire>> /\ Rest

\* Also an execution that ends because the process shuts down: what Execute
\* returned is dropped (errLeaseLost).
CrashHttp ==
  /\ httpCrashes < MaxHttpCrashes /\ pc # "idle"
  /\ httpCrashes' = httpCrashes + 1
  /\ pc' = "idle" /\ result' = "none" /\ cancelled' = FALSE
  /\ UNCHANGED <<contract, node, attempt, effects, performed, wire>>

-----------------------------------------------------------------------------
(***************************************************************************)
(* Recover, after the attempt's lease has expired.                         *)
(***************************************************************************)
Recoverable == pc = "idle" /\ node \in {"uncertain", "running", "reconciling"}

\* Contracts whose attempt recovery repeats without asking.
Repeatable == {"pure", "idempotent"}

\* A pure node gets a new attempt; an idempotent one resumes its attempt.
RecoverRepeatable ==
  /\ Recoverable /\ contract \in Repeatable
  /\ Finish("eligible")
  /\ attempt' = IF contract = "idempotent" THEN attempt ELSE attempt + 1
  /\ UNCHANGED <<cancelled, effects, performed, wire>> /\ Rest

RecoverWaiting ==
  /\ Recoverable /\ contract = "non_replayable"
  /\ Finish("waiting")
  /\ UNCHANGED <<attempt, cancelled, effects, performed, wire>> /\ Rest

StartReconcile ==
  /\ Recoverable /\ contract = "reconcilable"
  /\ node' = "reconciling"
  /\ Go("reconciling")
  /\ UNCHANGED <<attempt, cancelled, effects, performed, wire>> /\ Rest

\* ReconcileResult: a GET on the target; 2xx is confirmed, 404 and 410 are
\* absent, everything else is unknown.
AskTarget ==
  /\ pc = "reconciling"
  /\ \/ pc' = (IF performed = {} THEN "absent" ELSE "confirmed") /\ UNCHANGED <<node, result>>
     \/ Finish("waiting")
  /\ UNCHANGED <<attempt, cancelled, effects, performed, wire>> /\ Rest

\* recoverCancelledNode asks for a reconcilable node only; an idempotent or
\* non_replayable one keeps waiting for its cancellation.
RecoverCancelled ==
  /\ pc = "idle" /\ node = "cancel_requested"
  /\ \/ contract = "pure" /\ Finish("cancelled")
     \/ contract = "reconcilable" /\ Go("reconciling") /\ UNCHANGED node
  /\ UNCHANGED <<attempt, cancelled, effects, performed, wire>> /\ Rest

\* recordReconciledEffect: the last effect recorded under the operation key.
Reconciled(status) ==
  IF \E i \in 1 .. Current : effects[i].attempt = attempt
  THEN [effects EXCEPT ![Current].status = status] ELSE effects

SettleConfirmed ==
  /\ pc = "confirmed"
  /\ effects' = Reconciled("confirmed")
  /\ Finish(IF node = "cancel_requested" THEN "cancelled" ELSE "succeeded")
  /\ UNCHANGED <<attempt, cancelled, performed, wire>> /\ Rest

\* reconcileCancelledNode leaves the effect as it is.
SettleAbsent ==
  /\ pc = "absent"
  /\ IF node = "cancel_requested"
     THEN Finish("cancelled") /\ UNCHANGED <<effects, attempt>>
     ELSE /\ effects' = Reconciled("rejected")
          /\ Finish("eligible") /\ attempt' = attempt + 1
  /\ UNCHANGED <<cancelled, performed, wire>> /\ Rest

HttpNext ==
  \/ ClaimHttp \/ RefuseRequest \/ RecordIntent \/ PreSendError \/ Send
  \/ \E i \in wire : RemotePerforms(i) \/ RemoteRefuses(i) \/ RemoteRedirects(i)
  \/ FollowRedirect \/ GiveUp \/ TornBody \/ RecordReceipt \/ PublishResponse
  \/ TimedOut \/ LoseLease
  \/ CommitSuccess \/ CommitCancelled \/ RecordFailure \/ MarkPendingUnknown
  \/ CancelledTimeout \/ NodeUncertain \/ CancelHttp \/ CrashHttp
  \/ RecoverRepeatable \/ RecoverWaiting \/ RecoverCancelled \/ StartReconcile \/ AskTarget
  \/ SettleConfirmed \/ SettleAbsent

HttpSpec == HttpInit /\ [][HttpNext]_httpVars

-----------------------------------------------------------------------------
(***************************************************************************)
(* Properties.                                                             *)
(***************************************************************************)
Redirected == \E i \in 1 .. Len(effects) : effects[i].redirected

\* A request whose repetition is not declared harmless is performed at most
\* once over all attempts, crashes and recoveries; an idempotent one as well,
\* by its header.
PerformedOnce ==
  contract \in {"idempotent", "non_replayable"} => Cardinality(performed) <= 1 \/ Redirected

\* The same for a remote system that redirects: executor.go says a request
\* that was dispatched has no definitive outcome without its answer.
NeverRepeated == contract = "non_replayable" => Cardinality(performed) <= 1

\* A receipt says what happened: a confirmed effect was performed, by this
\* request or by one with the same key, and a rejected one was not (unless a
\* redirect intervened, or the target was asked while the request was still
\* on its way).
ReceiptIsTrue ==
  \A i \in 1 .. Len(effects) :
    /\ effects[i].status = "confirmed" =>
         IF contract = "reconcilable" THEN performed # {} ELSE AlreadyPerformed(i)
    /\ effects[i].status = "rejected" /\ ~effects[i].redirected /\ contract # "reconcilable"
         => i \notin performed

\* Nothing is sent again while the outcome of an earlier request is open: all
\* effects but the last are settled when repeating needs an answer first.
SettledBeforeResend ==
  contract \in {"reconcilable", "non_replayable"} =>
    \A i \in 1 .. Len(effects) - 1 : effects[i].status \in {"confirmed", "rejected"}
=============================================================================
