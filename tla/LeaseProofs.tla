----------------------------- MODULE LeaseProofs -----------------------------
(***************************************************************************)
(* Theorems about ControllerLease for every set of processes and requests, *)
(* every TTL of at least two heartbeat periods, and any number of stalls   *)
(* and crashes.                                                            *)
(***************************************************************************)
EXTENDS ControllerLease, TLAPS

\* The states of a thread, of its session and of its renewals.
PcSet == {"off", "validated", "created", "loop", "settle", "resume",
          "idle", "ticked"} \cup Working \cup Ended

\* A process that is Nobody never compares equal to the owner of a lease.
LEMMA ProcType ==
  ASSUME NEW t \in Threads
  PROVE  Proc(t) \in Procs
  BY LeaseAssumption DEF Proc, Threads, Procs

\* A request is a thread of a serving process, so nobody acts for a
\* `proceed run` but itself.
LEMMA ProcOfCli ==
  ASSUME NEW p \in Cli, NEW t \in Threads, Proc(t) = p
  PROVE  t = p
  BY LeaseAssumption DEF Proc, Threads, Procs

\* The operations on the row keep its type.
LEMMA LeaseType ==
  ASSUME TypeOK, NEW p \in Procs,
         Renew(p) \/ Heartbeat(p) \/ ReleaseLease(p) \/ UNCHANGED lease
  PROVE  lease' \in [owner : Procs \cup {Nobody}, left : 0 .. TTL]
  BY LeaseAssumption DEF TypeOK, Renew, Heartbeat, ReleaseLease, NoLease

\* Moving one thread keeps the type of pc.
LEMMA GoType ==
  ASSUME TypeOK, NEW t \in Threads, NEW to \in PcSet, Go(t, to)
  PROVE  pc' \in [Threads -> PcSet]
  BY DEF TypeOK, Go, PcSet

\* Whichever way a session ends, the thread is in a state of the model.
LEMMA RestType ==
  ASSUME NEW t \in Threads, NEW outcome \in {"done", "ended"}
  PROVE  Rest(t, outcome) \in PcSet
  BY DEF Rest, PcSet, Ended

\* The end of a Drain keeps the types.
LEMMA StopHBType ==
  ASSUME TypeOK, NEW t \in Threads, NEW outcome \in {"done", "ended"}, StopHB(t, outcome)
  PROVE  /\ pc' \in [Threads -> PcSet]
         /\ session' \in [Threads -> {"none", "drain", "borrowed", "acquired"}]
         /\ beat' \in [Threads -> {"off", "due", "done", "lost", "stopping"}]
<1>1. pc' \in [Threads -> PcSet]
  BY RestType, GoType DEF StopHB
<1> QED
  BY <1>1 DEF TypeOK, StopHB

\* The end of a process keeps the types.
LEMMA ExitType ==
  ASSUME TypeOK, NEW p \in Procs, NEW to \in {"ended", "dead"}, Exit(p, to)
  PROVE  /\ pc' \in [Threads -> PcSet]
         /\ session' \in [Threads -> {"none", "drain", "borrowed", "acquired"}]
         /\ beat' \in [Threads -> {"off", "due", "done", "lost", "stopping"}]
  BY DEF TypeOK, Exit, PcSet, Ended

\* Every step keeps TypeOK.
LEMMA TypeStep == TypeOK /\ [Next]_vars => TypeOK'
<1> SUFFICES ASSUME TypeOK, [Next]_vars PROVE TypeOK'
  OBVIOUS
<1> USE DEF PcSet
<1>0. TypeOK <=> /\ lease \in [owner : Procs \cup {Nobody}, left : 0 .. TTL]
                 /\ pc \in [Threads -> PcSet]
                 /\ session \in [Threads -> {"none", "drain", "borrowed", "acquired"}]
                 /\ beat \in [Threads -> {"off", "due", "done", "lost", "stopping"}]
                 /\ stalls \in 0 .. MaxStalls
                 /\ crashes \in 0 .. MaxCrashes
  BY DEF TypeOK
<1>p. Procs \subseteq Threads
  BY DEF Threads
<1>1. ASSUME NEW p \in Procs, Start(p) PROVE TypeOK'
  <2>1. CASE Acquirable(p)
    <3>1. lease' \in [owner : Procs \cup {Nobody}, left : 0 .. TTL]
      BY <1>1, <2>1, LeaseType DEF Start
    <3>2. pc' \in [Threads -> PcSet]
      <4>1. PICK to \in PcSet : Go(p, to)
        BY <1>1, <2>1 DEF Start
      <4> QED
        BY <4>1, <1>p, GoType
    <3>3. beat' \in [Threads -> {"off", "due", "done", "lost", "stopping"}]
      BY <1>1, <2>1 DEF Start, TypeOK
    <3> QED
      BY <1>1, <3>1, <3>2, <3>3 DEF Start, TypeOK
  <2>2. CASE ~Acquirable(p)
    <3>1. pc' \in [Threads -> PcSet]
      <4>1. Go(p, "ended") /\ "ended" \in PcSet
        BY <1>1, <2>2 DEF Start, Ended
      <4> QED
        BY <4>1, <1>p, GoType
    <3> QED
      BY <1>1, <2>2, <3>1 DEF Start, TypeOK
  <2> QED
    BY <2>1, <2>2
<1>2. ASSUME NEW p \in Procs, CreateRun(p) PROVE TypeOK'
  <2>1. lease' \in [owner : Procs \cup {Nobody}, left : 0 .. TTL]
    BY <1>2, LeaseType DEF CreateRun
  <2>2. PICK to \in PcSet : Go(p, to)
    BY <1>2 DEF CreateRun, Ended
  <2>3. pc' \in [Threads -> PcSet]
    BY <2>2, <1>p, GoType
  <2> QED
    BY <1>2, <2>1, <2>3 DEF CreateRun, TypeOK
<1>3. ASSUME NEW p \in Procs, Tick(p) PROVE TypeOK'
  <2>1. lease' \in [owner : Procs \cup {Nobody}, left : 0 .. TTL]
    BY <1>3, LeaseType DEF Tick
  <2>2. CASE lease.owner = p
    <3>1. pc' \in [Threads -> PcSet]
      BY <1>3, <2>2, <1>p, GoType DEF Tick
    <3> QED
      BY <1>3, <2>2, <2>1, <3>1 DEF Tick, TypeOK
  <2>3. CASE lease.owner # p
    BY <1>3, <2>3, <2>1, <1>0, ExitType DEF Tick, TypeOK
  <2> QED
    BY <2>2, <2>3
<1>4. ASSUME NEW p \in Procs, TickEnds(p) PROVE TypeOK'
  <2>1. pc' \in [Threads -> PcSet]
    BY <1>4, <1>p, GoType DEF TickEnds
  <2> QED
    BY <1>4, <2>1 DEF TickEnds, TypeOK
<1>5. ASSUME NEW p \in Procs, Shutdown(p) PROVE TypeOK'
  <2>1. lease' \in [owner : Procs \cup {Nobody}, left : 0 .. TTL]
    BY <1>5, LeaseType DEF Shutdown
  <2> QED
    BY <1>5, <2>1, ExitType DEF Shutdown, TypeOK
<1>6. ASSUME NEW p \in Procs, Crash(p) PROVE TypeOK'
  <2>1. crashes' \in 0 .. MaxCrashes
    BY <1>6, LeaseAssumption DEF Crash, TypeOK
  <2> QED
    BY <1>6, <2>1, ExitType DEF Crash, TypeOK
<1>7. ASSUME NEW t \in Threads, BeginDrain(t) PROVE TypeOK'
  <2>1. CASE Acquirable(Proc(t))
    <3>1. lease' \in [owner : Procs \cup {Nobody}, left : 0 .. TTL]
      BY <1>7, <2>1, ProcType, LeaseType DEF BeginDrain
    <3>2. pc' \in [Threads -> PcSet]
      BY <1>7, <2>1, GoType DEF BeginDrain
    <3> QED
      BY <1>7, <2>1, <3>1, <3>2 DEF BeginDrain, TypeOK
  <2>2. CASE ~Acquirable(Proc(t))
    <3>1. pc' \in [Threads -> PcSet]
      BY <1>7, <2>2, RestType, GoType DEF BeginDrain
    <3> QED
      BY <1>7, <2>2, <3>1 DEF BeginDrain, TypeOK
  <2> QED
    BY <2>1, <2>2
<1>8. ASSUME NEW t \in Threads, BeginResume(t) PROVE TypeOK'
  <2>1. lease' \in [owner : Procs \cup {Nobody}, left : 0 .. TTL]
    BY <1>8, ProcType, LeaseType DEF BeginResume
  <2>2. PICK to \in PcSet : Go(t, to)
    BY <1>8, RestType DEF BeginResume
  <2>3. pc' \in [Threads -> PcSet]
    BY <2>2, GoType
  <2> QED
    BY <1>8, <2>1, <2>3 DEF BeginResume, TypeOK
<1>9. ASSUME NEW t \in Threads, ThreadStep(t) PROVE TypeOK'
  <2>1. CASE DrainTurn(t)
    <3>1. lease' \in [owner : Procs \cup {Nobody}, left : 0 .. TTL]
      BY <2>1, ProcType, LeaseType DEF DrainTurn, SettleError
    <3>2. CASE SettleError(t)
      BY <2>1, <3>1, <3>2, StopHBType DEF DrainTurn, SettleError, TypeOK
    <3>3. CASE Go(t, "step") /\ UNCHANGED <<session, beat>>
      <4>1. "step" \in PcSet
        BY DEF Working
      <4> QED
        BY <2>1, <3>1, <3>3, <4>1, GoType DEF DrainTurn, TypeOK
    <3> QED
      BY <2>1, <3>2, <3>3 DEF DrainTurn
  <2>2. CASE DrainStep(t)
    <3>1. CASE SettleError(t)
      <4>1. lease' \in [owner : Procs \cup {Nobody}, left : 0 .. TTL]
        BY <3>1, ProcType, LeaseType DEF SettleError
      <4> QED
        BY <2>2, <3>1, <4>1, StopHBType DEF DrainStep, SettleError, TypeOK
    <3>2. CASE \E to \in {"exec", "settle"} : Go(t, to) /\ UNCHANGED <<lease, session, beat>>
      <4>1. pc' \in [Threads -> PcSet]
        BY <3>2, GoType DEF Working
      <4> QED
        BY <2>2, <3>2, <4>1 DEF DrainStep, TypeOK
    <3> QED
      BY <2>2, <3>1, <3>2 DEF DrainStep
  <2>3. CASE Settle(t)
    <3>1. lease' \in [owner : Procs \cup {Nobody}, left : 0 .. TTL]
      BY <2>3, ProcType, LeaseType DEF Settle
    <3> QED
      BY <2>3, <3>1, StopHBType DEF Settle, TypeOK
  <2>4. CASE ResumeStep(t)
    <3>1. pc' \in [Threads -> PcSet]
      BY <2>4, GoType DEF ResumeStep, Working
    <3> QED
      BY <2>4, <3>1 DEF ResumeStep, TypeOK
  <2>5. CASE EndResume(t)
    <3>1. lease' \in [owner : Procs \cup {Nobody}, left : 0 .. TTL]
      BY <2>5, ProcType, LeaseType DEF EndResume
    <3>2. pc' \in [Threads -> PcSet]
      BY <2>5, RestType, GoType DEF EndResume
    <3> QED
      BY <2>5, <3>1, <3>2 DEF EndResume, TypeOK
  <2>6. CASE CheckLease(t)
    <3>1. PICK to \in PcSet : Go(t, to)
      BY <2>6 DEF CheckLease, Working
    <3>2. pc' \in [Threads -> PcSet]
      BY <3>1, GoType
    <3> QED
      BY <2>6, <3>2 DEF CheckLease, TypeOK
  <2>7. CASE Record(t)
    <3>1. PICK to \in PcSet : Go(t, to)
      BY <2>7 DEF Record
    <3>2. pc' \in [Threads -> PcSet]
      BY <3>1, GoType
    <3> QED
      BY <2>7, <3>2 DEF Record, TypeOK
  <2> QED
    BY <1>9, <2>1, <2>2, <2>3, <2>4, <2>5, <2>6, <2>7 DEF ThreadStep
<1>10. ASSUME NEW t \in Threads, Beat(t) PROVE TypeOK'
  <2>1. lease' \in [owner : Procs \cup {Nobody}, left : 0 .. TTL]
    BY <1>10, ProcType, LeaseType DEF Beat
  <2>2. beat' \in [Threads -> {"off", "due", "done", "lost", "stopping"}]
    BY <1>10 DEF Beat, TypeOK
  <2> QED
    BY <1>10, <2>1, <2>2 DEF Beat, TypeOK
<1>11. ASSUME NEW t \in Threads, BeatStops(t) PROVE TypeOK'
  BY <1>11 DEF BeatStops, TypeOK
<1>12. ASSUME PeriodPasses, stalls' \in 0 .. MaxStalls PROVE TypeOK'
  <2>1. lease' \in [owner : Procs \cup {Nobody}, left : 0 .. TTL]
    BY <1>12, LeaseAssumption DEF PeriodPasses, TypeOK
  <2>2. beat' \in [Threads -> {"off", "due", "done", "lost", "stopping"}]
    BY <1>12 DEF PeriodPasses, TypeOK
  <2> QED
    BY <1>12, <2>1, <2>2 DEF PeriodPasses, TypeOK
<1>13. CASE Elapse
  BY <1>13, <1>12 DEF Elapse, TypeOK
<1>14. CASE Stall
  <2>1. stalls' \in 0 .. MaxStalls
    BY <1>14, LeaseAssumption DEF Stall, TypeOK
  <2> QED
    BY <1>14, <1>12, <2>1 DEF Stall
<1>15. CASE UNCHANGED vars
  BY <1>15 DEF TypeOK, vars
<1> QED
  BY <1>1, <1>2, <1>3, <1>4, <1>5, <1>6, <1>7, <1>8, <1>9, <1>10, <1>11,
     <1>13, <1>14, <1>15 DEF Next

\* The state of the lease, of the threads and of their renewals is always
\* one of the declared ones: in particular no renewal ever grants more than
\* TTL periods.
THEOREM LeaseTypeOK == Spec => []TypeOK
<1>1. Init => TypeOK
  BY LeaseAssumption DEF Init, TypeOK, NoLease
<1> QED
  BY <1>1, TypeStep, PTL DEF Spec

-----------------------------------------------------------------------------
(***************************************************************************)
(* The lease of a `proceed run` that drains.  CliExclusive and              *)
(* NoDroppedResult are not inductive: what makes them true is that, without *)
(* stalls, such a run has renewed the lease in this period or in the one    *)
(* before, so that it never comes near its expiry and nobody can take it.  *)
(***************************************************************************)
InDrain == Working \cup {"loop", "settle"}

Renewed(p) ==
  /\ lease.owner = p
  /\ beat[p] \in {"due", "done"}
  /\ lease.left >= TTL - 1
  /\ beat[p] = "done" => lease.left = TTL
  /\ pc[p] # "uncertain"

CliOK(p) ==
  /\ pc[p] \notin {"resume", "idle", "ticked"}
  /\ pc[p] \in InDrain => session[p] = "drain" /\ (stalls = 0 => Renewed(p))

LeaseInv == TypeOK /\ \A p \in Cli : CliOK(p)

\* Nobody else can change a lease that has not expired.
LEMMA OthersLeaveLease ==
  ASSUME TypeOK, NEW p \in Cli, NEW q \in Procs, q # p,
         lease.owner = p, lease.left >= TTL - 1,
         (Acquirable(q) /\ Renew(q)) \/ Heartbeat(q) \/ ReleaseLease(q) \/ UNCHANGED lease
  PROVE  lease' = lease
  BY LeaseAssumption DEF TypeOK, Acquirable, Heartbeat, ReleaseLease, Procs

\* A step of somebody else leaves a `proceed run` as it is.
LEMMA OthersStep ==
  ASSUME TypeOK, NEW p \in Cli, CliOK(p), NEW q \in Procs, q # p,
         (Acquirable(q) /\ Renew(q)) \/ Heartbeat(q) \/ ReleaseLease(q) \/ UNCHANGED lease,
         pc'[p] = pc[p], session'[p] = session[p], beat'[p] = beat[p],
         stalls' = stalls
  PROVE  CliOK(p)'
<1>1. CASE pc[p] \in InDrain /\ stalls = 0
  <2>1. Renewed(p)
    BY <1>1 DEF CliOK
  <2>2. lease' = lease
    BY <2>1, OthersLeaveLease DEF Renewed
  <2> QED
    BY <1>1, <2>1, <2>2 DEF CliOK, Renewed, InDrain
<1>2. CASE ~(pc[p] \in InDrain /\ stalls = 0)
  BY <1>2 DEF CliOK, InDrain
<1> QED
  BY <1>1, <1>2

\* The end of another process leaves a `proceed run` as it is.
LEMMA OthersExit ==
  ASSUME NEW p \in Cli, NEW q \in Procs, q # p, NEW to, Exit(q, to)
  PROVE  pc'[p] = pc[p] /\ session'[p] = session[p] /\ beat'[p] = beat[p]
<1>1. p \in Threads /\ Proc(p) = p
  BY LeaseAssumption DEF Threads, Procs, Proc
<1> QED
  BY <1>1 DEF Exit

\* A thread that is not of p leaves the states of p alone.
LEMMA OthersThread ==
  ASSUME TypeOK, NEW p \in Cli, NEW t \in Threads, t # p,
         BeginDrain(t) \/ BeginResume(t) \/ ThreadStep(t) \/ Beat(t) \/ BeatStops(t)
  PROVE  pc'[p] = pc[p] /\ session'[p] = session[p] /\ beat'[p] = beat[p]
<1> p \in Threads
  BY DEF Threads, Procs
<1>1. CASE BeginDrain(t)
  BY <1>1 DEF BeginDrain, Go, TypeOK
<1>2. CASE BeginResume(t)
  BY <1>2 DEF BeginResume, Go, TypeOK
<1>3. CASE ThreadStep(t)
  BY <1>3 DEF ThreadStep, DrainTurn, DrainStep, Settle, SettleError, StopHB, ResumeStep,
              EndResume, CheckLease, Record, Go, TypeOK
<1>4. CASE Beat(t) \/ BeatStops(t)
  BY <1>4 DEF Beat, BeatStops, TypeOK
<1> QED
  BY <1>1, <1>2, <1>3, <1>4

\* ... and the row, unless it may take it.
LEMMA OthersRow ==
  ASSUME NEW t \in Threads,
         BeginDrain(t) \/ BeginResume(t) \/ ThreadStep(t) \/ Beat(t) \/ BeatStops(t)
  PROVE  /\ stalls' = stalls
         /\ \/ Acquirable(Proc(t)) /\ Renew(Proc(t))
            \/ Heartbeat(Proc(t)) \/ ReleaseLease(Proc(t)) \/ UNCHANGED lease
<1>1. CASE BeginDrain(t)
  BY <1>1 DEF BeginDrain
<1>2. CASE BeginResume(t)
  BY <1>2 DEF BeginResume
<1>3. CASE ThreadStep(t)
  BY <1>3 DEF ThreadStep, DrainTurn, DrainStep, Settle, SettleError, ResumeStep,
              EndResume, CheckLease, Record
<1>4. CASE Beat(t) \/ BeatStops(t)
  BY <1>4 DEF Beat, BeatStops
<1> QED
  BY <1>1, <1>2, <1>3, <1>4

\* Every step keeps LeaseInv.
LEMMA LeaseInvStep == LeaseInv /\ [Next]_vars => LeaseInv'
<1> SUFFICES ASSUME LeaseInv, [Next]_vars, NEW p \in Cli PROVE CliOK(p)'
  BY TypeStep DEF LeaseInv
<1>0. TypeOK /\ CliOK(p) /\ p \in Procs /\ p \in Threads /\ Proc(p) = p /\ p \notin Serving
  BY LeaseAssumption DEF LeaseInv, Threads, Procs, Proc
<1>1. ASSUME NEW q \in Procs, Start(q) \/ CreateRun(q) PROVE CliOK(p)'
  <2>1. CASE q = p
    BY <1>0, <1>1, <2>1 DEF Start, CreateRun, Go, CliOK, InDrain, Working, TypeOK
  <2>2. CASE q # p
    <3>1. q \in Threads
      BY DEF Threads
    <3>2. pc'[p] = pc[p] /\ session'[p] = session[p] /\ beat'[p] = beat[p] /\ stalls' = stalls
      BY <1>0, <1>1, <2>2, <3>1 DEF Start, CreateRun, Go, TypeOK
    <3>3. (Acquirable(q) /\ Renew(q)) \/ Heartbeat(q) \/ ReleaseLease(q) \/ UNCHANGED lease
      BY <1>1 DEF Start, CreateRun
    <3> QED
      BY <1>0, <2>2, <3>2, <3>3, OthersStep
  <2> QED
    BY <2>1, <2>2
<1>2. ASSUME NEW q \in Procs, Tick(q) \/ TickEnds(q) \/ Shutdown(q) PROVE CliOK(p)'
  <2>1. q # p
    BY <1>0, <1>2 DEF Tick, TickEnds, Shutdown, CliOK
  <2>2. pc'[p] = pc[p] /\ session'[p] = session[p] /\ beat'[p] = beat[p]
    <3>1. CASE Exit(q, "ended")
      BY <2>1, <3>1, OthersExit
    <3>2. CASE ~Exit(q, "ended")
      BY <1>0, <1>2, <2>1, <3>2 DEF Tick, TickEnds, Shutdown, Go, TypeOK
    <3> QED
      BY <3>1, <3>2
  <2>3. /\ stalls' = stalls
        /\ Heartbeat(q) \/ ReleaseLease(q) \/ UNCHANGED lease
    BY <1>2 DEF Tick, TickEnds, Shutdown
  <2> QED
    BY <1>0, <2>1, <2>2, <2>3, OthersStep
<1>3. ASSUME NEW q \in Procs, Crash(q) PROVE CliOK(p)'
  <2>1. CASE q = p
    <3>1. pc'[p] = "dead"
      BY <1>0, <1>3, <2>1 DEF Crash, Exit
    <3> QED
      BY <3>1 DEF CliOK, InDrain, Working
  <2>2. CASE q # p
    BY <1>0, <1>3, <2>2, OthersExit, OthersStep DEF Crash
  <2> QED
    BY <2>1, <2>2
<1>4. ASSUME NEW t \in Threads, t # p,
             BeginDrain(t) \/ BeginResume(t) \/ ThreadStep(t) \/ Beat(t) \/ BeatStops(t)
      PROVE  CliOK(p)'
  <2>1. Proc(t) \in Procs /\ Proc(t) # p
    BY <1>4, ProcType, ProcOfCli
  <2>2. pc'[p] = pc[p] /\ session'[p] = session[p] /\ beat'[p] = beat[p]
    BY <1>0, <1>4, OthersThread
  <2>3. /\ stalls' = stalls
        /\ \/ Acquirable(Proc(t)) /\ Renew(Proc(t))
           \/ Heartbeat(Proc(t)) \/ ReleaseLease(Proc(t)) \/ UNCHANGED lease
    BY <1>4, OthersRow
  <2> QED
    BY <1>0, <2>1, <2>2, <2>3, OthersStep
<1>5. CASE BeginDrain(p)
  BY <1>0, <1>5, LeaseAssumption
     DEF BeginDrain, Renew, Go, Rest, CliOK, Renewed, InDrain, Working, TypeOK
<1>6. ~BeginResume(p)
  BY <1>0, LeaseAssumption DEF BeginResume, CliOK
<1>7. CASE ThreadStep(p)
  <2>1. ASSUME NEW outcome \in {"done", "ended"}, StopHB(p, outcome) PROVE CliOK(p)'
    BY <1>0, <2>1 DEF StopHB, Go, Rest, CliOK, InDrain, Working, TypeOK
  <2>2. CASE DrainTurn(p)
    <3>1. CASE SettleError(p)
      BY <2>1, <3>1 DEF SettleError
    <3>2. CASE ~SettleError(p)
      <4>1. Heartbeat(p) /\ Go(p, "step") /\ UNCHANGED <<session, beat, stalls>>
        BY <1>0, <2>2, <3>2 DEF DrainTurn
      <4>2. pc'[p] = "step"
        BY <1>0, <4>1 DEF Go, TypeOK
      <4>3. lease.owner = p /\ lease' = [owner |-> p, left |-> TTL]
        BY <1>0, <2>2, <3>2, <4>1 DEF DrainTurn, Heartbeat
      <4>4. session[p] = "drain" /\ (stalls = 0 => Renewed(p))
        BY <1>0, <2>2 DEF DrainTurn, CliOK, InDrain
      <4> QED
        BY <4>1, <4>2, <4>3, <4>4, LeaseAssumption DEF CliOK, Renewed
    <3> QED
      BY <3>1, <3>2
  <2>3. CASE DrainStep(p)
    <3>1. CASE SettleError(p)
      BY <2>1, <3>1 DEF SettleError
    <3>2. CASE ~SettleError(p)
      BY <1>0, <2>3, <3>2 DEF DrainStep, Go, CliOK, Renewed, InDrain, Working, TypeOK
    <3> QED
      BY <3>1, <3>2
  <2>4. CASE Settle(p)
    BY <2>1, <2>4 DEF Settle
  <2>5. CASE CheckLease(p)
    BY <1>0, <2>5, LeaseAssumption
       DEF CheckLease, LeaseValid, Go, CliOK, Renewed, InDrain, Working, TypeOK
  <2>6. CASE Record(p)
    BY <1>0, <2>6 DEF Record, Go, CliOK, Renewed, InDrain, Working, TypeOK
  <2>7. ~ResumeStep(p) /\ ~EndResume(p)
    BY <1>0 DEF ResumeStep, EndResume, CliOK
  <2> QED
    BY <1>7, <2>2, <2>3, <2>4, <2>5, <2>6, <2>7 DEF ThreadStep
<1>8. CASE Beat(p)
  BY <1>0, <1>8, LeaseAssumption DEF Beat, Heartbeat, CliOK, Renewed, InDrain, Working, TypeOK
<1>9. CASE BeatStops(p)
  BY <1>0, <1>9 DEF BeatStops, CliOK, Renewed, InDrain, Working, TypeOK
<1>10. CASE Elapse
  <2>1. CASE pc[p] \in InDrain /\ stalls = 0
    <3>1. Renewed(p) /\ session[p] = "drain"
      BY <1>0, <2>1 DEF CliOK
    <3>2. beat[p] = "done" /\ lease.left = TTL
      BY <1>0, <1>10, <3>1 DEF Elapse, Punctual, Renewed
    <3>3. /\ beat'[p] = "due" /\ lease'.owner = p /\ lease'.left = TTL - 1
          /\ pc' = pc /\ session' = session
      BY <1>0, <1>10, <3>1, <3>2, LeaseAssumption DEF Elapse, PeriodPasses, Renewed, TypeOK
    <3> QED
      BY <1>0, <3>1, <3>3, LeaseAssumption DEF CliOK, Renewed
  <2>2. CASE ~(pc[p] \in InDrain /\ stalls = 0)
    BY <1>0, <1>10, <2>2 DEF Elapse, PeriodPasses, CliOK, InDrain
  <2> QED
    BY <2>1, <2>2
<1>11. CASE Stall
  <2>1. stalls' # 0
    BY <1>0, <1>11, LeaseAssumption DEF Stall, TypeOK
  <2> QED
    BY <1>0, <1>11, <2>1 DEF Stall, PeriodPasses, CliOK, InDrain
<1>12. CASE UNCHANGED vars
  BY <1>0, <1>12 DEF vars, CliOK, Renewed, InDrain
<1> QED
  BY <1>1, <1>2, <1>3, <1>4, <1>5, <1>6, <1>7, <1>8, <1>9, <1>10, <1>11, <1>12 DEF Next

\* LeaseInv holds in every reachable state.
LEMMA LeaseInvariant == Spec => []LeaseInv
<1>1. Init => LeaseInv
  <2>1. Init => TypeOK
    BY LeaseAssumption DEF Init, TypeOK, NoLease
  <2>2. ASSUME Init, NEW p \in Cli PROVE CliOK(p)
    BY <2>2 DEF Init, Threads, Procs, CliOK, InDrain, Working
  <2> QED
    BY <2>1, <2>2 DEF LeaseInv
<1> QED
  BY <1>1, LeaseInvStep, PTL DEF Spec

\* Two `proceed run` processes never work on a store at the same time, unless
\* somebody stalled, however many processes and requests share the store and
\* whichever of them crash.
THEOREM LeaseCliExclusive == Spec => []CliExclusive
<1>1. LeaseInv => CliExclusive
  BY DEF LeaseInv, CliOK, Renewed, CliExclusive, InDrain
<1> QED
  BY <1>1, LeaseInvariant, PTL

\* A punctual `proceed run` never drops the result of an execution because
\* of the lease.
THEOREM LeaseNoDroppedResult == Spec => []NoDroppedResult
<1>1. LeaseInv => NoDroppedResult
  BY DEF LeaseInv, CliOK, Renewed, NoDroppedResult, InDrain, Working
<1> QED
  BY <1>1, LeaseInvariant, PTL

\* A finished `proceed run` owns no lease, whatever stalls or crashes: its last
\* heartbeat, which may still be on its way, cannot bring the row back.
THEOREM LeaseReleasedAtEnd == Spec => []ReleasedAtEnd
<1>1. Init => ReleasedAtEnd
  BY DEF Init, ReleasedAtEnd, Threads, Procs
<1>2. TypeOK /\ ReleasedAtEnd /\ [Next]_vars => ReleasedAtEnd'
  <2> SUFFICES ASSUME TypeOK, ReleasedAtEnd, [Next]_vars, NEW p \in Cli, pc'[p] = "done"
               PROVE  lease'.owner # p
    BY DEF ReleasedAtEnd
  <2>0. /\ p \in Procs /\ p \in Threads /\ Proc(p) = p /\ p # Nobody /\ p \notin Serving
        /\ pc[p] = "done" => lease.owner # p
    BY LeaseAssumption DEF ReleasedAtEnd, Threads, Procs, Proc
  <2>1. ASSUME NEW q \in Procs, Heartbeat(q) \/ ReleaseLease(q) \/ UNCHANGED lease,
               pc[p] = "done"
        PROVE  lease'.owner # p
    BY <2>0, <2>1 DEF Heartbeat, ReleaseLease, NoLease
  <2>2. ASSUME NEW q \in Procs, Start(q) \/ CreateRun(q) PROVE lease'.owner # p
    <3>1. CASE q = p
      BY <2>0, <2>2, <3>1 DEF Start, CreateRun, Go, TypeOK
    <3>2. CASE q # p
      <4>1. q \in Threads
        BY DEF Threads
      <4>2. pc[p] = "done"
        BY <2>0, <2>2, <3>2, <4>1 DEF Start, CreateRun, Go, TypeOK
      <4> QED
        BY <2>0, <2>1, <2>2, <3>2, <4>2 DEF Start, CreateRun, Renew
    <3> QED
      BY <3>1, <3>2
  <2>3. ASSUME NEW q \in Procs, Tick(q) \/ TickEnds(q) \/ Shutdown(q) \/ Crash(q)
        PROVE  lease'.owner # p
    <3>1. pc[p] = "done"
      BY <2>0, <2>3 DEF Tick, TickEnds, Shutdown, Crash, Exit, Go, TypeOK
    <3> QED
      BY <2>1, <2>3, <3>1 DEF Tick, TickEnds, Shutdown, Crash
  <2>4. ASSUME NEW t \in Threads, t # p,
               BeginDrain(t) \/ BeginResume(t) \/ ThreadStep(t) \/ Beat(t) \/ BeatStops(t)
        PROVE  lease'.owner # p
    <3>1. pc[p] = "done"
      BY <2>4, OthersThread
    <3>2. Proc(t) \in Procs /\ Proc(t) # p
      BY <2>4, ProcType, ProcOfCli
    <3> QED
      BY <2>1, <2>4, <3>1, <3>2, OthersRow DEF Renew
  <2>5. CASE BeginDrain(p) \/ BeginResume(p) \/ BeatStops(p)
    BY <2>0, <2>5 DEF BeginDrain, Called, Rest, BeginResume, BeatStops, Go, TypeOK
  <2>6. CASE Beat(p)
    BY <2>0, <2>1, <2>6 DEF Beat
  <2>7. CASE ThreadStep(p)
    <3>1. CASE ReleaseLease(p)
      BY <2>0, <3>1 DEF ReleaseLease, NoLease
    <3>2. CASE ~ReleaseLease(p)
      BY <2>0, <2>7, <3>2
         DEF ThreadStep, DrainTurn, DrainStep, Settle, SettleError, StopHB, Rest, ResumeStep,
             EndResume, CheckLease, Record, Go, TypeOK
    <3> QED
      BY <3>1, <3>2
  <2>8. CASE Elapse \/ Stall \/ UNCHANGED vars
    BY <2>0, <2>8 DEF Elapse, Stall, PeriodPasses, vars, TypeOK
  <2> QED
    BY <2>2, <2>3, <2>4, <2>5, <2>6, <2>7, <2>8 DEF Next
<1> QED
  BY <1>1, <1>2, LeaseTypeOK, PTL DEF Spec
=============================================================================
