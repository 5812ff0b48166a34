--------------------------- MODULE ControllerLease ---------------------------
(***************************************************************************)
(* The controller lease of a store (internal/controller/controller.go) and *)
(* everything that takes, renews, checks or deletes it: `proceed run`,      *)
(* `proceed serve` with its two-second ticker, and the Drain and ResumeRun  *)
(* calls that API requests, webhooks and schedules start inside a serving   *)
(* process.  All of them share one row; the owner of the row is a process,  *)
(* not a thread.                                                           *)
(*                                                                         *)
(* Time passes in heartbeat periods: Elapse.  The heartbeat goroutine of a  *)
(* Drain and the idle ticker renew the lease at least once a period; when   *)
(* one does not (paused, starved, store busy) the period is a Stall.  The   *)
(* nodes of one Step are one execution here; module Engine has the detail. *)
(***************************************************************************)
EXTENDS Integers

CONSTANTS
  Cli,         \* processes started as `proceed run`
  Serving,     \* processes started as `proceed serve`
  Requests,    \* threads of serving processes that call Drain or ResumeRun
  Host,        \* the process of each of them
  Nobody,      \* no controller_lease row
  TTL,         \* LeaseTTL in heartbeat periods
  MaxStalls,   \* bound on stalls (named bound)
  MaxCrashes   \* bound on crashes (named bound)

Procs   == Cli \cup Serving
Threads == Procs \cup Requests

ASSUME LeaseAssumption ==
  /\ Cli \cap Serving = {} /\ Requests \cap Procs = {}
  /\ Host \in [Requests -> Serving]
  /\ Nobody \notin Procs
  /\ TTL \in Nat /\ TTL >= 2
  /\ MaxStalls \in Nat /\ MaxCrashes \in Nat

\* Config.OwnerID: the threads of a process share its controller.
Proc(t) == IF t \in Requests THEN Host[t] ELSE t

VARIABLES
  lease,     \* the controller_lease row: owner, and periods until it expires
  pc,        \* where each thread is
  session,   \* what the thread runs: Drain, or ResumeRun
  beat,      \* its renewals: due or done in this period; the error; stopped
  stalls, crashes

vars == <<lease, pc, session, beat, stalls, crashes>>

NoLease == [owner |-> Nobody, left |-> 0]

Working == {"step", "exec", "commit", "uncertain"}
Ended   == {"done", "ended", "dead"}

TypeOK ==
  /\ lease \in [owner : Procs \cup {Nobody}, left : 0 .. TTL]
  /\ pc \in [Threads -> {"off", "validated", "created", "loop", "settle", "resume",
                         "idle", "ticked"} \cup Working \cup Ended]
  /\ session \in [Threads -> {"none", "drain", "borrowed", "acquired"}]
  /\ beat \in [Threads -> {"off", "due", "done", "lost", "stopping"}]
  /\ stalls \in 0 .. MaxStalls
  /\ crashes \in 0 .. MaxCrashes

Init ==
  /\ lease = NoLease
  /\ pc = [t \in Threads |-> "off"]
  /\ session = [t \in Threads |-> "none"]
  /\ beat = [t \in Threads |-> "off"]
  /\ stalls = 0
  /\ crashes = 0

Up(p) == pc[p] \notin {"off"} \cup Ended

Go(t, to) == pc' = [pc EXCEPT ![t] = to]

-----------------------------------------------------------------------------
(***************************************************************************)
(* The operations on the row, each one statement or transaction.           *)
(***************************************************************************)
\* Mutant of Acquirable: a lease not renewed in this period is taken over.
AcquirableStale(p) == lease.owner \in {Nobody, p} \/ lease.left < TTL

\* Mutant of Acquirable: an expired lease is never taken over.
AcquirableUnheld(p) == lease.owner \in {Nobody, p}

\* acquireLease: no row, the own row, or an expired one; else STORE_BUSY.
Acquirable(p) == lease.owner \in {Nobody, p} \/ lease.left = 0

\* Mutant of Renew: the period is added to what is left of the lease.
RenewExtends(p) == lease' = [owner |-> p, left |-> lease.left + TTL]

Renew(p) == lease' = [owner |-> p, left |-> TTL]

\* Mutants of Heartbeat: the row is inserted when it is missing; the expiry
\* is not moved.
HeartbeatUpsert(p) == lease' = [owner |-> p, left |-> TTL]
HeartbeatStamp(p) == UNCHANGED lease

\* heartbeat: renews the own row, even an expired one; else errLeaseLost.
Heartbeat(p) == lease' = IF lease.owner = p THEN [owner |-> p, left |-> TTL] ELSE lease

LeaseValid(p) == lease.owner = p /\ lease.left > 0

\* releaseLease deletes the row of the process, whichever thread made it.
ReleaseLease(p) == lease' = IF lease.owner = p THEN NoLease ELSE lease

-----------------------------------------------------------------------------
(***************************************************************************)
(* proceed run and proceed serve.                                          *)
(***************************************************************************)
\* ValidateLease in `run`, AcquireLease in `serve`; a busy store ends both.
Start(p) ==
  /\ pc[p] = "off"
  /\ IF Acquirable(p)
     THEN /\ Renew(p)
          /\ Go(p, IF p \in Cli THEN "validated" ELSE "idle")
          /\ beat' = [beat EXCEPT ![p] = IF p \in Cli THEN "off" ELSE "done"]
     ELSE Go(p, "ended") /\ UNCHANGED <<lease, beat>>
  /\ UNCHANGED <<session, stalls, crashes>>

\* `run` freezes the definition and creates the run (Controller.Run acquires
\* the lease again); an error of either releases the lease.
CreateRun(p) ==
  /\ pc[p] = "validated"
  /\ \/ Acquirable(p) /\ Renew(p) /\ Go(p, "created")
     \/ ReleaseLease(p) /\ Go(p, "ended")
  /\ UNCHANGED <<session, beat, stalls, crashes>>

\* A run is there to be driven: created by `run`, or by a request, webhook,
\* schedule or operator of a serving process.
Called(t) == \/ t \in Cli /\ pc[t] = "created"
             \/ t \in Requests /\ pc[t] = "off" /\ Up(Host[t])

\* Where a thread goes when its session is over.
Rest(t, outcome) == IF t \in Cli THEN outcome ELSE IF t \in Serving THEN "idle" ELSE "off"

-----------------------------------------------------------------------------
(***************************************************************************)
(* Drain.                                                                  *)
(***************************************************************************)
BeginDrain(t) ==
  /\ Called(t) /\ beat[t] = "off"
  /\ IF Acquirable(Proc(t))
     THEN /\ Renew(Proc(t))
          /\ Go(t, "loop")
          /\ session' = [session EXCEPT ![t] = "drain"]
          /\ beat' = [beat EXCEPT ![t] = "done"]
     ELSE Go(t, Rest(t, "ended")) /\ UNCHANGED <<lease, session, beat>>
  /\ UNCHANGED <<stalls, crashes>>

\* The heartbeat goroutine; after stopHB it may still be in its last UPDATE.
Beat(t) ==
  /\ \/ beat[t] = "due" /\ t \notin Serving
     \/ beat[t] = "stopping"
  /\ Heartbeat(Proc(t))
  /\ beat' = [beat EXCEPT ![t] = IF @ = "stopping" THEN "off"
                                 ELSE IF lease.owner = Proc(t) THEN "done" ELSE "lost"]
  /\ UNCHANGED <<pc, session, stalls, crashes>>

\* The goroutine sees that it was stopped.
BeatStops(t) ==
  /\ beat[t] = "stopping"
  /\ beat' = [beat EXCEPT ![t] = "off"]
  /\ UNCHANGED <<lease, pc, session, stalls, crashes>>

\* settle's common part: stopHB, and the thread is done with the run.
StopHB(t, outcome) ==
  /\ beat' = [beat EXCEPT ![t] = IF @ \in {"due", "done"} THEN "stopping" ELSE "off"]
  /\ session' = [session EXCEPT ![t] = "none"]
  /\ Go(t, Rest(t, outcome))

\* settle with an error: the lease is released whoever of the process uses it.
SettleError(t) == StopHB(t, "ended") /\ ReleaseLease(Proc(t))

\* Mutant of DrainTurn: a lost lease does not end the loop.
DrainTurnOn(t) ==
  /\ pc[t] = "loop"
  /\ Heartbeat(Proc(t)) /\ Go(t, "step")
  /\ UNCHANGED <<session, beat, stalls, crashes>>

\* One turn of the loop: the goroutine's error, then a heartbeat, then Step.
DrainTurn(t) ==
  /\ pc[t] = "loop"
  /\ IF beat[t] = "lost" \/ lease.owner # Proc(t)
     THEN SettleError(t)
     ELSE Heartbeat(Proc(t)) /\ Go(t, "step") /\ UNCHANGED <<session, beat>>
  /\ UNCHANGED <<stalls, crashes>>

\* Step: nodes are executed, nothing is left to do, or it fails (the request
\* was abandoned by its client, the store refused a transaction).
DrainStep(t) ==
  /\ pc[t] = "step"
  /\ \/ \E to \in {"exec", "settle"} : Go(t, to) /\ UNCHANGED <<lease, session, beat>>
     \/ SettleError(t)
  /\ UNCHANGED <<stalls, crashes>>

\* settle without error: released only if the run is over.
Settle(t) ==
  /\ pc[t] = "settle"
  /\ \/ StopHB(t, "done") /\ ReleaseLease(Proc(t))
     \/ StopHB(t, "ended") /\ UNCHANGED lease
  /\ UNCHANGED <<stalls, crashes>>

-----------------------------------------------------------------------------
(***************************************************************************)
(* ResumeRun: called by the ticker and by approval and wait requests.  It   *)
(* has no heartbeat, and looks at the lease only when it begins.            *)
(***************************************************************************)
BeginResume(t) ==
  /\ pc[t] = "ticked" \/ (Called(t) /\ t \in Requests)
  /\ IF LeaseValid(Proc(t)) \/ Acquirable(Proc(t))
     THEN /\ IF LeaseValid(Proc(t)) THEN UNCHANGED lease ELSE Renew(Proc(t))
          /\ session' = [session EXCEPT
               ![t] = IF LeaseValid(Proc(t)) THEN "borrowed" ELSE "acquired"]
          /\ Go(t, "resume")
     ELSE Go(t, Rest(t, "ended")) /\ UNCHANGED <<lease, session>>
  /\ UNCHANGED <<beat, stalls, crashes>>

ResumeStep(t) ==
  /\ pc[t] = "resume"
  /\ Go(t, "exec")
  /\ UNCHANGED <<lease, session, beat, stalls, crashes>>

\* No progress or an error; the lease is released if ResumeRun acquired it
\* and the run is over.
EndResume(t) ==
  /\ pc[t] = "resume"
  /\ \/ session[t] = "acquired" /\ ReleaseLease(Proc(t))
     \/ UNCHANGED lease
  /\ session' = [session EXCEPT ![t] = "none"]
  /\ Go(t, Rest(t, "ended"))
  /\ UNCHANGED <<beat, stalls, crashes>>

\* The end of an execution: leaseValid decides about its result.
CheckLease(t) ==
  /\ pc[t] = "exec"
  /\ Go(t, IF LeaseValid(Proc(t)) THEN "commit" ELSE "uncertain")
  /\ UNCHANGED <<lease, session, beat, stalls, crashes>>

\* commitNodeSuccess or uncertainNode, and the next Step.
Record(t) ==
  /\ pc[t] \in {"commit", "uncertain"}
  /\ Go(t, IF session[t] = "drain" THEN "loop" ELSE "resume")
  /\ UNCHANGED <<lease, session, beat, stalls, crashes>>

-----------------------------------------------------------------------------
(***************************************************************************)
(* The ticker of `serve`.                                                  *)
(***************************************************************************)
\* The process ends: its threads are gone.
Exit(p, to) ==
  /\ pc' = [t \in Threads |-> IF Proc(t) # p THEN pc[t] ELSE IF t = p THEN to ELSE "off"]
  /\ session' = [t \in Threads |-> IF Proc(t) # p THEN session[t] ELSE "none"]
  /\ beat' = [t \in Threads |-> IF Proc(t) # p THEN beat[t] ELSE "off"]

\* Mutant of Tick: the error of Heartbeat is ignored.
TickIgnoring(p) ==
  /\ p \in Serving /\ pc[p] = "idle"
  /\ Heartbeat(p) /\ Go(p, "ticked") /\ beat' = [beat EXCEPT ![p] = "done"]
  /\ UNCHANGED <<session, stalls, crashes>>

\* Heartbeat first: when it fails the server is closed and the process ends.
Tick(p) ==
  /\ p \in Serving /\ pc[p] = "idle"
  /\ IF lease.owner = p
     THEN /\ Heartbeat(p) /\ Go(p, "ticked")
          /\ beat' = [beat EXCEPT ![p] = "done"]
          /\ UNCHANGED session
     ELSE ReleaseLease(p) /\ Exit(p, "ended")
  /\ UNCHANGED <<stalls, crashes>>

\* The tick found no run to resume.
TickEnds(p) ==
  /\ pc[p] = "ticked"
  /\ Go(p, "idle")
  /\ UNCHANGED <<lease, session, beat, stalls, crashes>>

\* SIGTERM between two ticks.
Shutdown(p) ==
  /\ p \in Serving /\ pc[p] = "idle"
  /\ ReleaseLease(p) /\ Exit(p, "ended")
  /\ UNCHANGED <<stalls, crashes>>

Crash(p) ==
  /\ Up(p)
  /\ crashes < MaxCrashes /\ crashes' = crashes + 1
  /\ Exit(p, "dead")
  /\ UNCHANGED <<lease, stalls>>

-----------------------------------------------------------------------------
(***************************************************************************)
(* Time.                                                                   *)
(***************************************************************************)
\* Everybody obliged to has renewed the lease in this period: the goroutines
\* of the Drains, and the tickers that are not busy with a tick.
Punctual == \A t \in Threads : beat[t] = "due" => t \in Serving /\ pc[t] # "idle"

PeriodPasses ==
  /\ lease' = [lease EXCEPT !.left = IF @ > 0 THEN @ - 1 ELSE 0]
  /\ beat' = [t \in Threads |-> IF beat[t] = "done" THEN "due" ELSE beat[t]]
  /\ UNCHANGED <<pc, session, crashes>>

Elapse == Punctual /\ PeriodPasses /\ UNCHANGED stalls

Stall == ~Punctual /\ stalls < MaxStalls /\ stalls' = stalls + 1 /\ PeriodPasses

ThreadStep(t) ==
  \/ DrainTurn(t) \/ DrainStep(t) \/ Settle(t)
  \/ ResumeStep(t) \/ EndResume(t) \/ CheckLease(t) \/ Record(t)

Next ==
  \/ \E p \in Procs : Start(p) \/ CreateRun(p) \/ Tick(p) \/ TickEnds(p) \/ Shutdown(p) \/ Crash(p)
  \/ \E t \in Threads : BeginDrain(t) \/ BeginResume(t) \/ ThreadStep(t) \/ Beat(t) \/ BeatStops(t)
  \/ Elapse
  \/ Stall

Spec == Init /\ [][Next]_vars

(***************************************************************************)
(* Fairness.  Time passes, the heartbeat goroutines and the tickers run,    *)
(* and a tick ends: its executions return, and a run has finitely many      *)
(* steps, so that a ResumeRun that could end again and again ends.  Nobody  *)
(* is obliged to start or to stop a process, and a Drain may find nodes to  *)
(* execute for ever.                                                       *)
(***************************************************************************)
Fairness ==
  /\ WF_vars(Elapse)
  /\ \A p \in Serving : /\ WF_vars(Tick(p)) /\ WF_vars(TickEnds(p) \/ BeginResume(p))
                        /\ WF_vars(ThreadStep(p)) /\ SF_vars(EndResume(p))
  /\ \A t \in Threads \ Serving : WF_vars(Beat(t))
  /\ \A p \in Cli : WF_vars(ThreadStep(p))

FairSpec == Spec /\ Fairness

-----------------------------------------------------------------------------
(***************************************************************************)
(* Properties.                                                             *)
(***************************************************************************)
\* Two `proceed run` processes never work on the store at the same time,
\* whatever serving processes, crashes and expiries do in between, as long
\* as nobody stalls: the heartbeat keeps the lease of a working run alive
\* and nobody else can take or delete it.
CliExclusive ==
  \A p, q \in Cli : stalls = 0 /\ pc[p] \in Working /\ pc[q] \in Working => p = q

\* A result of `proceed run` is not dropped for a lost lease, unless
\* somebody stalled.
NoDroppedResult == \A p \in Cli : stalls = 0 => pc[p] # "uncertain"

\* A `proceed run` whose run is over leaves no lease behind, not even
\* through a heartbeat that was still in flight when it settled.
ReleasedAtEnd == \A p \in Cli : pc[p] = "done" => lease.owner # p

\* A serving process that lost the store to another one notices and stops,
\* or gets the lease back.
DeposedServeStops ==
  \A p \in Serving : Up(p) /\ lease.owner \in Procs \ {p} ~> ~Up(p) \/ lease.owner \in {p, Nobody}

\* A `proceed run` that lost the lease to another process while it drained
\* stops driving its run, although it may be in the middle of a node.
DeposedRunStops ==
  \A p \in Cli : pc[p] \in Working \cup {"loop"} /\ lease.owner # p ~> pc[p] \in Ended

\* The lease of a process that died does not keep the others out for ever.
DeadLeaseIsTaken ==
  \A p \in Procs : pc[p] = "dead" ~> \A q \in Procs \ {p} : lease.owner = p => Acquirable(q)

\* While a serving process is up and nobody stalls, a `proceed run` that
\* starts is refused with STORE_BUSY, but for a lease that the server let
\* expire in a tick longer than the lease.
ServeExcludesRuns ==
  [][\A p \in Cli, q \in Serving :
       stalls = 0 /\ Up(q) /\ pc[p] = "off" /\ pc'[p] = "validated"
         => lease.owner = q /\ lease.left = 0]_vars
=============================================================================
