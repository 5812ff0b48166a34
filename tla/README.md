# A verification development of Proceed

Proceed compiles a workflow graph from YAML and runs it durably: every change is
an event appended to a SQLite log together with its projections, so that a run
survives crashes of the controller and is continued by `proceed run`,
`proceed serve` or a later process. This directory models its core in TLA+,
checks the models with TLC and proves the most important results with TLAPS.

## 1. The system

| Component (source) | State | Operations | What must be right |
|---|---|---|---|
| Event log and projections (`internal/store/event.go`, `projection.go`) | `event`, `graph_run`, `run_node`, `node_attempt`, `run_edge`, ... | append: sequence number, idempotency key, handler, in one transaction | projections follow from the log; a replayed key appends nothing |
| Run engine (`internal/controller/engine.go`, `outcomes.go`, `reconciler.go`) | the rows of a run; the process's inflight map; goroutines | `Step`: list eligible nodes, claim, execute, commit and route, or end the run | no double claim or execution, retry budget, dependencies first, fail-closed routing, every run ends |
| Recovery (`recover.go`, `serve.go`) | none of its own | `Recover`: requeue, resume, reconcile or park the nodes a dead process left | histories survive, no effect is repeated blindly, keys are kept |
| Cancellation (`cancel.go`) | none of its own | `CancelRun`, `AbandonRun`, abort of inflight executions | final, quiet, and it ends the run |
| Controller lease (`controller.go`, `reconciler.go`, `cmd/proceed/run.go`, `serve.go`) | one row `controller_lease`; heartbeat goroutines | acquire, heartbeat, check, release; `Drain`, `ResumeRun`, the ticker | one controller per store; a dead one is replaced; a deposed one stops |
| Approval gates (`approval.go`) | `approval` | register, decide, expire | one decision, none after expiry or cancellation |
| External waits (`external_wait.go`) | `external_wait`, provider events | register, complete, expire | each provider event counts once; every wait ends |
| Schedules (`store/schedule.go`, `cron.go`) | `schedule` | due scan, fire, skip, edit | each tick fires or is skipped once |
| Effects, HTTP executor (`effects.go`, `executor/http`) | `effect` | intent, dispatch, receipt, reconcile | a receipt tells the truth, uncertainty is never a retry |
| Artifacts and GC (`artifacts.go`, `store/gc.go`) | files, `artifact`, `gc_record` | publish, commit, delete, sweep | no committed artifact loses its file |
| Compiler (`internal/compiler`) | none | parse, validate, canonicalise | graph rules; equal graphs have equal digests |
| Backup (`store/backup.go`) | the archive, a lock file | export, import with rollback | an archive and a restored store are complete |
| API, webhooks, CLI (`internal/api`, `cmd/proceed`) | none | start threads that call the controller | |
| GitHub adapter (`adapter/github`) | deliveries in memory and in `webhook_delivery` | verify, begin, complete the wait, record | a delivery is dropped as a replay only when it was handled |
| Improvement service (`improvement/service.go`) | `policy_change_proposal`, `metric`, `anchor` | create, submit, decide, associate | a decision is final and keeps what it rests on |
| Executors shell/agent, capability sandbox, read models, why/export, configuration | own files, or read-only | | |

How they interact: the API, webhooks, schedules, the two-second ticker of
`serve` and the CLI all call the same controller object of their process, in
goroutines of their own. `Drain` and `ResumeRun` loop over `Step`. The threads
share the store, the inflight map and the owner id of the lease. The store is
opened with immediate transactions, so that one transaction is one atomic
step; everything between a read and the transaction that relies on it can
interleave.

What is hard: a node listed by one loop and claimed by another; recovery
acting on a list that is out of date, or on an execution that is merely slow;
cancellation against claims, results and recovery; crashes between the
transactions of a handler; leases that expire under a live process, or are
released by another thread. `PROJECT.json` lists these hazards with their
lines and the properties that cover them.

## 2. The modules

| Module | Models | Notes |
|---|---|---|
| `Projection` | the event handlers of `run_node` and `node_attempt` (`projection.go`) | one pure operator per handler, from old row to new row, with the status guards of its SQL |
| `Engine` | `Step`, `executeNode`, `commitNodeSuccess`, `routeFromTx`, `tryCompleteRun`, `Recover`, `CancelRun`, `AbandonRun`, the inflight map, crashes | extends `Projection` |
| `RunOutcome` | what a run promises: each node ends once, after what it waits for, with its routes; the end of the run agrees with the ends of its nodes | `Engine` implements it with one loop at a time |
| `ProjectionProofs` | lemmas about the handlers of `Projection` | |
| `EngineProofs` | theorems about `Engine` with any number of loops | |
| `SingleLoopProofs` | theorems about `Engine` with one loop at a time, the refinement of `RunOutcome` among them | extends `EngineProofs` |
| `ControllerLease` | the lease row, `Drain` with its heartbeat goroutine, `ResumeRun`, the ticker, start and end of `run` and `serve` | |
| `LeaseProofs` | theorems about `ControllerLease` | |
| `Gates` | approvals and external waits: claim and registration, decisions, deliveries, expiry, cancellation, crash and recovery of their nodes | extends `Projection` |
| `WaitOutcome` | what a gate promises: open, then one outcome, then only its routes | `Gates` implements it |
| `GatesProofs` | theorems about `Gates`, the refinement among them | |
| `HttpEffect` | one HTTP node: effect rows, requests on the wire, redirects, answers, receipts, timeouts, recovery and reconciliation | the remote system performs, refuses, redirects, or lets the answer be lost |
| `DataDir` | the data directory: opening the store, publish and commit, garbage collection and its sweep, export, import with its rollback | the store files, the lock file, every rename a step that may fail |
| `DataDirProofs` | theorems about `DataDir` | |
| `Schedule` | one schedule, several processes that fire it, an operator | time in minutes |
| `Proposals` | proposals, metrics, anchors, approvals against garbage collection | the compare-and-set updates and the foreign keys |
| `CycleCheck` | the compiler's cycle pass, round by round | against the definition of a component and of a cycle |
| `CycleProofs` | theorems about `CycleCheck` | |
| `Delivery` | webhook deliveries: tracker, retries, the recorded deliveries, restarts | the wait they answer is a client's view of `Gates` |
| `Services` | the six components from `HttpEffect` to `Delivery` side by side | they share no state, so each behaviour is of one of them while the others stay where they began |
| `ServicesProofs` | theorems about `Schedule`, `Proposals`, `Delivery` and `HttpEffect`, and about `Services` | extends `DataDirProofs` and `CycleProofs` |
| `MCEngine`, `MCLease`, `MCGates`, `MCServices` | instances for TLC | graphs, contracts, hosts, versions, check runs |

### Engine: state and actions

`row[n]` is the `run_node` row of node n with its attempts: status (`absent`:
no row yet), `attempt_count`, the status of every attempt, the latest attempt
number, and the lease of that attempt (none, valid, expired). `run` is the
run's status, `traversed` the rows of `run_edge`. `loop[l]` is a call of `Step`
(or `Recover`), `work[l][n]` the goroutine of node n in it: its place in
`executeNode`, the attempt number it read when the node was listed, and
whether its cancel signal was given. `inflight` is the map of the controller,
`rec` the progress of `Recover`, `op` an operator's request. Two history
variables serve the properties only: `effect[n]` says whether an execution of n
may have had its external effect, `failures[n]` counts failed executions.

Each transaction is one action, and each read that is relied on later is an
action of its own. So the claim (`ClaimAttempt`) uses the number of the listing,
`CheckResult` and `CommitResult` are separate, `RecordAttemptFailure` and
`RequeueNode` are separate, `CancelRun` and its signal are separate, and
`Recover` works through a snapshot. Executors are known by the outcomes they
report (result with a route, error, cancelled, timeout, uncertain); the system
behind a reconcilable node answers confirmed, absent or unknown, and never says
absent of an effect that has happened. `leaseValid` failing is a fault here;
`ControllerLease` says when it can. `eligibleNodes` reads its three tables
at once in the model.

### ControllerLease: state and actions

`lease` is the row: its owner (a process) and how many heartbeat periods are
left. Every thread has a place `pc`, a `session` (Drain; ResumeRun with a
borrowed or with an acquired lease) and its renewals `beat`. Time is `Elapse`, a
period in which everybody obliged to renewed the lease; a period in which
somebody did not is a `Stall`. The ticker is obliged only between ticks: while a
tick executes nodes nobody renews, as in the code. The nodes of a `Step` are
one execution here.

### Gates: state and actions

`decision[n]` and `wait[n]` are the last `approval` and `external_wait` row of
gate n, `due` the gates whose `expires_at` has passed, `log` the event recorded
under each idempotency key (decisions, provider events and the expiry of an
approval share one table), `routed` the conditions of traversed edges.
`worker[n]` is `executeNode`, `request` a decision in progress, which read the
clock before its transaction, `scan` and `rec` what an expiry scan and `Recover`
listed earlier. The claim and the registration are two transactions, and a
crash can come between them. A decision looks at the run, the approval and the
log; an expired wait looks only at the wait. A refused registration leaves its
node running, and the next `Recover` of a gate node aborts, as in the code. A
rejected delivery consumes its event id: a provider's retry is then told that
the event was seen. A pending wait of a failed or abandoned run keeps its
correlation until it expires.

### The services: state and actions

`HttpEffect`: the attempt's place `pc`, one record per `effect` row, the set of
requests on the `wire`, and what the remote system has `performed`. Intent,
dispatch and receipt are separate steps; the answer, the timeout, the
cancellation and the crash race. A row that a crash left pending stays pending.
An answer with an error status is published like any other and is a failure
only then; the controller's own timer makes a timeout of whatever Execute
returns late (place `late`), unless that is a failure or an uncertainty.

`DataDir`: `rows` of three store files (the one the directory had, the
archive's, and one that `Open` created), which of them is named `proceed.db`
(`live`), the artifact files, and where the worker, the sweep, `Export` and
`Import` are, each with the store file it has open. Transactions take the lock
file shared, export and import exclusively; opening the store, publishing and
sweeping take nothing, and publishing asks for no lease. An import renames the
previous store aside and the new one in, then does the same with each artifact,
one rename a step. A rename that fails starts the rollback, in which every
removal and every rename back may fail too, with nobody looking at the error
(`backup.go:692-694`); what was not renamed back is deleted with the staging
directory. `Open` between the two renames of the store creates an empty one.
A failed import removes a directory it made after it has released the lock.

What the code gives up is marked where it happens, and the property says that
nothing else is lost: `torn` (an import died between its renames, or could not
undo the store's), `lost` (contents whose backup could not be renamed back),
`raced` (contents a sweep removed under somebody who relied on them) and
`mixed`. The last is the write-ahead log: an import renames `proceed.db` but not
`proceed.db-wal`, so that a process with the replaced store still open, or the
log of one that died, meets another store file (`definition.go:32`). What the
database then holds is undefined; the model lets the rows be anything
(`MixPages`) and follows such a directory no further, nor one that is torn.

`Schedule`: the row, and the stale copy each process works from; a disabled or
removed schedule may fire once more from such a copy, and a tick may both start its
run and be counted as skipped, since the run's transaction does not look at
what its update of the schedule matched (`schedule.go:215`).

`Proposals`: one approval and one anchor per ended run. Candidates are listed
outside the transaction that deletes them; the deferred foreign keys and the
metrics it keeps are what protects a citation made meanwhile. Two
proposals may supersede each other, and metrics can be added to a decided one.

`CycleCheck`: the arrays and the stacks of `iterativeSCC` and of `findCycle`, one
action per round of their outer loops. The code lists a node's edges in the order
of the document; the model goes through them in any order, so a cursor is the
set of the targets it has passed. Graphs have at most one edge per ordered pair.

`Delivery`: the tracker's deliveries in memory, the table, and the handler of
each delivery with its retries. An attempt may end with an undecidable answer
or a cancelled context.

## 3. What TLC checks

Bounds: `AttemptBound` ends retry chains, `MaxFaults` bounds crashes, aborted
workers, timeouts and uncertain answers, `MaxStalls` and `MaxCrashes` do so for
the lease.

| Run | Instance | Shows |
|---|---|---|
| `engine_single` | router nr -> reconcilable na -> idempotent nb, two attempts each, one loop, cancel and abandon, two faults | the run implements `RunOutcome`, cancelled runs are quiet, dependencies, retry budget, operation keys, no blind dispatch, terminal history |
| `engine_serve` | reconcilable na -> non-replayable nb, two loops, cancel, executions longer than their lease, two faults | the inflight map is exact, cancellation is final, a non-replayable node is never dispatched twice |
| `engine_live` | na routes to nb or nc, pure, two loops, cancel, one fault, fair | routing fails closed, runs and cancellations end |
| `lease_safe` | two `run`, one `serve` with a request thread, one stall, one crash | runs exclude each other, no dropped result, nothing left behind |
| `lease_live` | one `run`, one `serve` with a request thread, one stall, one crash, fair | deposed processes stop, a dead one is replaced |
| `gates` | two runs; an approval, and two external waits with one correlation, one with a condition and one with a deadline; the approval or the second wait was routed around before; two keys, one crash, fair | one outcome per gate, one addressee per event, answers and events agree, nothing stays open past its deadline, ended runs are left alone |
| `services` | all four contracts, two attempts, three requests, one crash; two contents, a directory with a store or none yet, one crash or failed rename; two servers, five ticks; two proposals and two runs; every graph of three nodes; three deliveries of two events, two handlers, two retries, one restart | receipts, single performance, imports that restore or leave alone, complete archives, ticks, proposals, the cycle pass, replays |

Why the bounds are enough: the chain has every non-trivial contract, a router and an
edge of both kinds, and two attempts give a retry, its exhaustion and the
stale number between them; two faults give a crash during the recovery from a
crash; two loops give every pair of a stale and a current worker. For the
lease, two periods are the smallest TTL at which a renewal may be late by one
period, one stall makes any lease expire early, and a third competitor behaves
like one of the two. The theorems below lift most safety properties to
all sizes. For the gates, two waits of different runs on one correlation are the smallest
case in which a delivery could have two addressees, and two keys let a retry, a
second decision and a key used for another gate happen. For the services, two
attempts give a resend, three effects a resend after a reconciliation; two
contents let one be swept while another is restored, and one be new where the
other is replaced. The one fault of `DataDir` is a crash or the first failed rename;
the failures of the rollback it starts are not bounded. One worker, one sweep and one
import at a time are a named limit of the model; the contents are interchangeable, which
the symmetry uses (no liveness is checked). Cron minutes 1, 2, 4, 5, 7
with a horizon of 5 give adjacent ticks, a gap, and a window of missed ones;
three nodes give a self-loop, a cycle in a larger component, and an edge to a
finished component. Every property has a mutant of the code's translation that
violates it (`PROJECT.json`, "mutants").

Five runs show disagreements between the code and what the repository says of it:

* `engine_retry`: two loops of a serving process execute a node more often than
  `max_attempts`: the attempt number comes from the listing (`engine.go:57`),
  the claim checks only the status. A test counts the calls with one loop
  (`lifecycle_test.go:116`).
* `engine_route`: a route target that also depends on a node which finishes
  before the chooser already has a pending row, and is not skipped
  (`outcomes.go:330`); the run never ends. `decisions_test.go:1018` wants it
  skipped, with the order fixed by `MaxConcurrent = 1`.
* `engine_cancel`: a cancelled idempotent node whose worker died is sent to
  `waitingNode`, which does nothing for it (`recover.go:96`); the run stays
  running, although `cmd/proceed/run.go:232` says recovery settles it.
* `lease_serve`: when a run ends inside a serving process `Drain` deletes the
  server's own lease (`reconciler.go:94`); a `proceed run` is admitted before
  the next tick and the server then ends. `cli_e2e_test.go:117` wants the run
  refused. The trace is that one: the server starts, a request drains a run whose
  last `Step` finds it over, `settle` deletes the row, a `run` acquires it. The
  property looks at the step in which a `run` is admitted; nobody stalls, a lease
  that ran out in an overlong tick is exempted, and the instance leaves out a
  `Step` that fails, after which `settle` deletes the lease as well
  (`reconciler.go:89`).
* `http_redirect`: a request that was performed and answered with a redirect the
  client refuses, or whose next hop cannot be dialled, is reported as not delivered
  (`executor/http/executor.go:395`): the receipt says rejected and a
  non-replayable node sends it again. The comment at `executor.go:406` wants no
  definitive outcome after a dispatch.

The passing runs keep these cases out by their instances, and this is
visible in their configurations: `RetryBudget`, `TerminalHistory`,
`FreshKeyAfterFailure` and `NoBlindRedispatch` are checked with one loop and
executions shorter than their lease; `CancelEnds` with pure nodes; `UnselectedIsSkipped` with a graph
whose targets have no other dependency. `WaitIsAnswerable` is checked with idempotent
approval nodes: a reconcilable or non-replayable one that crashes between claim and
registration is parked as waiting with no approval to decide
(`recover.go:73`), which is what the contract says of such nodes and not
what a person waiting for the request expects. `PerformedOnce` and `ReceiptIsTrue` say
nothing about redirected requests, nor about a reconcilable request that arrives
after the target was asked about it and answered absent. `ImportIsAtomic` excepts
the four cases above, each of which TLC reaches, and of a directory the import
made itself it says only that rows have their files. A delivery that arrives while
another handler still works on the same one is answered as a replay too, although
nothing is handled yet: `ReplayWasHandled` speaks of the deliveries that are never
handled again. `DeadLeaseIsTaken` speaks of dead processes: a `proceed run` that stops at
an open approval leaves its lease row, since `settle` releases only the lease of an
ended run (`reconciler.go:93`), and holds others off until it runs out.

### Fairness

`Engine`: loops, workers and operators of a live process go on, which Go's
scheduler gives them, and an execution ends (with its `timeout_ms` or its
executor's own limit). The ticker calls `RecoverAll` in every tick, so a scan
that is possible again and again happens (strong fairness of `RecoverScan`).
Leases run out. Faults are never forced, so liveness is about what happens after
the last one. `ControllerLease`: time passes, heartbeat goroutines and tickers run,
executions end; ResumeRun ends (strong fairness), as a run has finitely many
nodes and attempts. Nobody is obliged to start, stop or crash a process.
`Gates`: the ticker of `serve` steps every running run and every `Step` scans for
expired gates, so a scan that stays possible happens (weak fairness of
`ListExpired`) and comes to each gate it listed (weak fairness of `Expire`); no
answer, cancellation or registration is ever forced. The services have safety
properties only.
`RunEnds` and `CancelEnds`, `DueIsResolved`, `DeposedServeStops`, `DeposedRunStops` and
`DeadLeaseIsTaken` need nothing else.

## 4. What is proved

TLAPS checks these for every value of the constants that satisfies the named
assumptions of the modules (finite or infinite sets of nodes, loops,
processes; any bounds):

| Theorem | Argument |
|---|---|
| `EngineTypeOK` | `TypeInv` adds that a busy worker and a phase of `Recover` that appends an attempt's event hold a real attempt number; one lemma per action, the handlers through the lemmas of `ProjectionProofs` |
| `EngineInflightExact` | with `TypeInv` and `LoopInv` (busy workers belong to a loop inside a `Step`; `Recover` runs only while the ticker is in no `Step`), InflightExact is inductive |
| `EngineCancelIsFinal` | every handler keeps a row in cancellation (`ProjectionProofs`); the only action that writes rows without a handler's guard is excluded by its own |
| `EngineNonReplayableOnce` | `ReplayInv`, on top of the invariant above: a non-replayable node whose effect is not clear, or that has a claimed worker, is in no status the claim accepts; a worker before its dispatch has had no effect; `Recover` never takes such a node through its two-step phases |
| `EngineUnselectedIsSkipped` | assumes `RoutedAlone`. `RouteInv`: a target none of whose routes is taken has not begun, nobody works on it, and it is settled once its chooser has succeeded |
| `SingleLoopCancelledIsQuiet`, `SingleLoopStartedAfterDependencies`, `SingleLoopRetryBudget`, `SingleLoopFreshKeyAfterFailure`, `SingleLoopTerminalHistory`, `SingleLoopNoBlindRedispatch` | assume `SingleLoop`. `SingleInv` says of every node, at every place of its worker and of `Recover`: who may act on it (`Owns`), how many executions can have failed (`Budget`), which attempts have (`Keys`), and where no effect is possible (`EffectOK`); of the run, that taken routes come from succeeded nodes and what its end leaves. One lemma per step of the code shows on the values of one node that the step keeps these |
| `SingleLoopImplementsRun` | assumes `SingleLoop`. `PromiseInv`, on top of `SingleInv`: only nodes told to stop are signalled or reported as cancelled (`SignalOK`), what `Recover` takes for cancelled is (`ListOK`), a cancellation has reached every node (`CancelReaches`), an ended run has nobody left who could move a node (`EndQuiet`), and whom the signal of an operator can still reach (`OpOK`). A transaction of a node keeps its end, fails it, stops it or chooses its routes (`Moves`), and each of these, like the cancellation and the end of the run, is a step or a stutter of `RunOutcome` |
| `LeaseTypeOK` | one step per action |
| `LeaseCliExclusive`, `LeaseNoDroppedResult` | neither is inductive; `LeaseInv` adds that, without stalls, a draining `run` owns the lease, has renewed it in this period or the one before, and so has at least `TTL - 1` periods left; nobody else can change such a row |
| `LeaseReleasedAtEnd` | inductive with the types: a heartbeat updates, it never inserts |
| `GatesTyped`, `GatesImplementPromise`, `FinalStaysFinal` | `Ind`: the types, that an expired approval has no decision, and per gate which rows, workers and recovery lists go with which outcome (`Consistent`): an open gate's node waits or is cancelled, one without a row has been routed nowhere. Every step keeps it and maps to a step or a stutter of `WaitOutcome`; with it no answer finds its node in a final status |
| `OneAddressee` | inductive with the types: registration looks at all runs |
| `AnswersLogged` | `LogInv`: each key's event names a gate with that answer, and each answered gate has exactly one such key |
| `WaitingIsAnswerable` | assumes `Requeued`. `WaitInv`, on top of `Ind`: a waiting node's gate has been opened, and no approval is being reconciled; a gate once opened is never unopened |
| `ReplaysAreHandled` | `DeliveryInv`: what each handler has behind it, at its place |
| `ProposalsAreBacked`, `DecisionsAreFinal` | `BackedInv` adds that a metric has its anchor; a deletion that would dangle does not commit |
| `TicksAreAccounted` | `ScheduleInv`: the row's next tick is a match, and a stale copy names a tick not after it, of which nothing later was touched |
| `RequestsPerformedOnce`, `ReceiptsAreTrue`, `EffectsSettledBeforeResend` | `HttpInv`: which effect is open at each place, a refusal before and after its publication included, that a settled one is off the wire or redirected, and that only the last can be unsettled under an unsafe contract |
| `HttpTyped` | with `HttpInv`, `AttemptInv`: the attempt number is at most max_attempts plus the effect rows and the crashes so far, and less where a recovery that raises it may follow (`Owing`); so each such recovery has a row or a crash of its own to account for it |
| `DataDirTyped`, `ImportsAreAtomic`, `ArchivesAreComplete` | `DirInv`, for any number of faults: who holds the lock file and what that excludes; per place of the import, which store file is in place and which is aside (`PhaseInv`); that the rows of a store, in place or aside, have their files among those in place, in the backups, raced or lost; that a publisher's file does too, if its store is going to stay; and that an export's rows are the store's until their files are collected |
| `CycleTyped`, `ComponentsRight`, `CyclesReported` | `CycleInv`, in two halves. `TarjanInv`: the stack is in the order of the numbers; a node being visited reaches all above it on the stack, and everything on the stack reaches a node below it that is being visited; `low` is the number of a node that is reached, and no edge passed during the visit leads below it; no edge leaves what is complete. The search: the path holds the gray nodes, no unbounded edge of the component leaves the black ones, and there is no cycle among them. `Connected`, a recursive function over the number of nodes, is first shown to be the least transitive relation that contains the edges; what would be an induction over data is done with a least counterexample |
| `ServicesTyped`, `ServicesKeep` | `EachComponent`: a step of one component is a stutter of the others, so `ServicesSpec` implies the specification of each; the theorems above then hold of the composition that the run checks |

Assumptions: `GatesAssumption` (kinds of gates, contracts), `KeysAssumption` (no
client uses the key of an expiry event), `HttpAssumption`,
`ScheduleAssumption` (the expression matches after the horizon),
`ProposalsAssumption`, `DeliveryAssumption`, `DataDirAssumption`, `CycleAssumption`,
`ServicesAssumption` (a component that does not run has a value to start with);
`LeaseAssumption` (the kinds of threads are disjoint, a request has
a serving host, TTL is at least two heartbeat periods; the code's defaults are
30 s and 10 s) and those of `Projection` and `Engine` on the bounds and
the contracts.

Three theorems, or groups of them, have a hypothesis of their own, the condition
under which the code has the property:

* `SingleLoop`, `Loops = {Ticker}`: `proceed run`, or a server whose request
  threads and ticks do not overlap on the run. Executions may outlive their
  lease, nodes be rejected and any number of faults happen. The hypothesis is
  needed: with two loops `RetryBudget` fails without any fault (run
  `engine_retry`), and with two faults TLC refutes each of the others on a chain
  of two guarded nodes (`FreshKeyAfterFailure` on one idempotent node), because
  a claim under the attempt number of an older listing, or an execution that
  outlives its lease, lets recovery take a live worker for a dead one. No
  document promises these properties to overlapping loops, so no run states
  that; what is left are the theorems of `EngineProofs`.
* `RoutedAlone`: no target of a route also waits for another node. Otherwise the
  target may be left pending (run `engine_route`).
* `Requeued`: approval nodes have a contract under which recovery requeues them.
  Section 3 says what happens to the others.

Only model-checked: all liveness (`RunEnds`, `CancelEnds`, `DueIsResolved`,
`DeposedServeStops`, `DeposedRunStops`, `DeadLeaseIsTaken`; fairness and ENABLED
are beyond the prover). Every invariant and action property of a passing run is
proved.

## 5. What is not modelled

* Values: parameters, outputs, payloads, explanations, canonical forms. They do
  not influence the control flow, or do so through a choice the modules make freely.
* The order of events in the log, its sequence numbers and the rebuild of the
  projections: each transaction is atomic, and the projections are the state.
* The loop of `Step` calls `run` enters after an interrupt.
* Gate nodes with no declared wait, client-chosen wait ids and the validation of
  provider payloads. The compiler declares no wait of a gate, and its edge rules
  give gate nodes no `routes_to` edge: such routes come from definitions frozen otherwise.
* The compiler's parser and its other passes, cron parsing, and request decoding: each
  looks at one element at a time, without state.
* In the data directory: the lease row that a restored store brings with it, a lock
  file that is removed and made anew under a process that waits for it
  (`definition.go:170`: the lock is ideal here), a partial `os.RemoveAll`, two
  imports at once, an export after an import, and what becomes of a directory that is torn or of a store whose
  log was shared.
* A timer that fires before an HTTP effect's intent is recorded; it ends as a failure.
* Process and file I/O of the shell and agent executors and the sandbox;
  read-only queries and terminal output.

`PROJECT.json` names every component with its status and reason.

## 6. What could come next

1. `EventLog`: sequence numbers and the rebuild, with an abstract append-only log.
2. `GraphRules`: reachability and joins, with the graphs on which a run cannot end
   (a join on several routes, `engine.go:153`).
3. `Run`: the interrupt path of `proceed run` on top of `ControllerLease` and `Engine`.
4. Proofs: the abstract log of item 1 as a refinement; which of the theorems of
   `SingleLoopProofs` hold with any number of loops if the claim checks the
   attempt number it was listed with, the repair `engine.go:57` asks for.
