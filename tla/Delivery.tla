------------------------------- MODULE Delivery -------------------------------
(***************************************************************************)
(* Webhook deliveries on their way to one external wait: the GitHub        *)
(* adapter's replay protection and retries (internal/adapter/github), the  *)
(* table of handled deliveries (internal/store/webhook_delivery.go) and    *)
(* the answers of the completion endpoint.  The provider, which delivers a *)
(* webhook any number of times, is external.  What a completion does to    *)
(* the node and its run is in Gates.tla.                                   *)
(***************************************************************************)
EXTENDS Naturals, FiniteSets

CONSTANTS
  Deliveries,      \* delivery ids
  EventOf,         \* the check run a delivery is about: its provider_event_id
  Matching,        \* deliveries whose correlation is the wait's
  Handlers,        \* webhook requests in progress
  MaxRetries,      \* Adapter.MaxRetries
  MaxRestarts      \* bound on restarts of the adapter (named bound)

ASSUME DeliveryAssumption ==
  /\ Matching \subseteq Deliveries /\ MaxRetries \in Nat \ {0} /\ MaxRestarts \in Nat

VARIABLES
  wait,       \* external_wait.status; "orphaned": pending, but its run is not running
  consumed,   \* provider event ids recorded as idempotency keys
  handler,    \* per request: its delivery, where it is, its attempts, the answer
  inFlight,   \* DeliveryTracker
  completed,
  seen,       \* webhook_delivery rows
  restarts

delVars == <<wait, consumed, handler, inFlight, completed, seen, restarts>>

NoHandler == [of |-> {}, pc |-> "idle", tries |-> 0, answer |-> "none"]
Codes == {"WAIT_COMPLETED", "WAIT_ALREADY_COMPLETED", "WAIT_REJECTED", "WAIT_CONFLICT"}

DeliveryTypeOK ==
  /\ wait \in {"pending", "orphaned", "completed", "expired", "cancelled"}
  /\ consumed \subseteq {EventOf[d] : d \in Deliveries}
  /\ handler \in [Handlers -> [of : SUBSET Deliveries,
        pc : {"idle", "unseen", "begun", "sending", "returned", "done"},
        tries : 0 .. MaxRetries, answer : Codes \cup {"none", "error"}]]
  /\ inFlight \subseteq Deliveries /\ completed \subseteq Deliveries /\ seen \subseteq Deliveries
  /\ restarts \in 0 .. MaxRestarts

DeliveryInit ==
  /\ wait = "pending" /\ consumed = {}
  /\ handler = [h \in Handlers |-> NoHandler]
  /\ inFlight = {} /\ completed = {} /\ seen = {} /\ restarts = 0

Tables == <<wait, consumed, seen, restarts>>

\* The provider delivers.  A delivery with a row is turned away here, unless
\* the lookup fails, which is ignored.
Receive(h, d) ==
  /\ handler[h].pc = "idle"
  /\ handler' = [handler EXCEPT ![h] =
       [of |-> {d}, pc |-> "unseen", tries |-> 0, answer |-> "none"]]
  /\ UNCHANGED <<inFlight, completed, Tables>>

\* DeliveryTracker.Begin.
Begin(h) ==
  /\ handler[h].pc = "unseen"
  /\ IF handler[h].of \cap (inFlight \cup completed) # {}
     THEN handler' = [handler EXCEPT ![h] = NoHandler] /\ UNCHANGED inFlight
     ELSE /\ handler' = [handler EXCEPT ![h].pc = "begun"]
          /\ inFlight' = inFlight \cup handler[h].of
  /\ UNCHANGED <<completed, Tables>>

\* The aggregated checks are fetched and the event normalised; a check that
\* is not completed, or a malformed event, is an error.
Normalize(h) ==
  /\ handler[h].pc = "begun"
  /\ \/ handler' = [handler EXCEPT ![h].pc = "sending"]
     \/ handler' = [handler EXCEPT ![h].pc = "returned", ![h].answer = "error"]
  /\ UNCHANGED <<inFlight, completed, Tables>>

-----------------------------------------------------------------------------
(***************************************************************************)
(* One attempt of CompleteWait: the endpoint's transaction and its answer, *)
(* which may not arrive.                                                   *)
(***************************************************************************)
\* CompleteExternalWait on event e: what it answers, and what it records.  An
\* event that is no final word, or does not satisfy the condition, is not
\* recorded as an idempotency key; one that conflicts is, unless that fails,
\* which is ignored.
Completion(e, matches, code) ==
  \/ /\ e \in consumed
     /\ code = IF wait = "completed" THEN "WAIT_ALREADY_COMPLETED" ELSE "WAIT_REJECTED"
     /\ UNCHANGED <<wait, consumed>>
  \/ /\ e \notin consumed /\ (wait # "pending" \/ ~matches)
     /\ code = "WAIT_CONFLICT"
     /\ consumed' \in {consumed, consumed \cup {e}} /\ UNCHANGED wait
  \/ /\ e \notin consumed /\ wait = "pending" /\ matches
     /\ code = "WAIT_REJECTED"
     /\ UNCHANGED <<wait, consumed>>
  \/ /\ e \notin consumed /\ wait = "pending" /\ matches
     /\ code = "WAIT_COMPLETED"
     /\ consumed' = consumed \cup {e} /\ wait' = "completed"

\* Mutant of Attempted: one attempt too many.
AttemptedTwice(h, answer) ==
  LET tries == handler[h].tries + 1
  IN  \E pc \in {"returned"} \cup (IF answer = "error" /\ tries <= MaxRetries THEN {"sending"} ELSE {}) :
        handler' = [handler EXCEPT ![h].tries = tries, ![h].answer = answer, ![h].pc = pc]

\* The attempt returns a code, or nothing that counts as an answer: then the
\* next one sends the same provider_event_id, MaxRetries times in all, but not
\* after an answer that cannot be decoded or under a cancelled context.
Attempted(h, answer) ==
  LET tries == handler[h].tries + 1
      again == answer = "error" /\ tries < MaxRetries
  IN  \E pc \in {"returned"} \cup (IF again THEN {"sending"} ELSE {}) :
        handler' = [handler EXCEPT ![h].tries = tries, ![h].answer = answer, ![h].pc = pc]

Complete(h) ==
  /\ handler[h].pc = "sending"
  /\ \E d \in handler[h].of, code \in Codes :
       /\ Completion(EventOf[d], d \in Matching, code)
       /\ \E answer \in {code, "error"} : Attempted(h, answer)
  /\ UNCHANGED <<inFlight, completed, seen, restarts>>

\* The request does not arrive, or the endpoint fails before it commits.
FailAttempt(h) ==
  /\ handler[h].pc = "sending"
  /\ Attempted(h, "error")
  /\ UNCHANGED <<inFlight, completed, Tables>>

\* Mutant of Accepted: every outcome the endpoint may have counts.
Recognized(code) == code \in Codes

\* CompletionResult.Accepted.
Accepted(code) == code \in {"WAIT_COMPLETED", "WAIT_ALREADY_COMPLETED"}

\* The deferred function: the tracker first,
Done(h) ==
  /\ handler[h].pc = "returned"
  /\ inFlight' = inFlight \ handler[h].of
  /\ completed' = IF Accepted(handler[h].answer) THEN completed \cup handler[h].of ELSE completed
  /\ handler' = [handler EXCEPT ![h] = IF Accepted(@.answer) THEN [@ EXCEPT !.pc = "done"]
                                       ELSE NoHandler]
  /\ UNCHANGED Tables

\* then the store, whose error is ignored.
Record(h) ==
  /\ handler[h].pc = "done"
  /\ seen' \in {seen, seen \cup handler[h].of}
  /\ handler' = [handler EXCEPT ![h] = NoHandler]
  /\ UNCHANGED <<wait, consumed, inFlight, completed, restarts>>

\* Begin forgets a completed delivery after the tracker's ttl.  (It forgets
\* one in flight as well; an attempt's timeouts end long before.)
Forget(d) ==
  /\ d \in completed
  /\ completed' = completed \ {d}
  /\ UNCHANGED <<wait, consumed, handler, inFlight, seen, restarts>>

\* The tracker and the requests are in the adapter's memory.
RestartAdapter ==
  /\ restarts < MaxRestarts
  /\ restarts' = restarts + 1
  /\ handler' = [h \in Handlers |-> NoHandler]
  /\ inFlight' = {} /\ completed' = {}
  /\ UNCHANGED <<wait, consumed, seen>>

\* Expiry, the cancellation of the run, or its end in another branch.
EndWait ==
  /\ wait \in {"pending", "orphaned"}
  /\ wait' \in {"expired", "cancelled", "orphaned"} \ {wait}
  /\ UNCHANGED <<consumed, handler, inFlight, completed, seen, restarts>>

DeliveryNext ==
  \/ \E h \in Handlers, d \in Deliveries : Receive(h, d)
  \/ \E h \in Handlers : Begin(h) \/ Normalize(h) \/ Complete(h) \/ FailAttempt(h)
                         \/ Done(h) \/ Record(h)
  \/ \E d \in Deliveries : Forget(d)
  \/ RestartAdapter \/ EndWait

DeliverySpec == DeliveryInit /\ [][DeliveryNext]_delVars

\* A delivery is turned away as a replay for good only after the wait was
\* completed and the delivery's event recorded: an answer that says otherwise,
\* or never came, leaves it for the provider's next attempt, as it does a
\* delivery answered as a replay while another handler works on it.  (Recorded, not
\* decisive: an event that lost to another one is in conflict the first time
\* and a duplicate the second.)
ReplayWasHandled ==
  \A d \in completed \cup seen : wait = "completed" /\ EventOf[d] \in consumed
=============================================================================
