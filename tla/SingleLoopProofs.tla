--------------------------- MODULE SingleLoopProofs ---------------------------
(***************************************************************************)
(* Theorems about Engine when one step loop drives the run (the `run`      *)
(* command, or a server whose API calls and ticks do not overlap): for     *)
(* every graph, contract, retry budget and number of faults, with          *)
(* executions that may outlive their lease and nodes that may be rejected. *)
(* With two loops the same properties fail (runs engine_retry and          *)
(* engine_serve show what is left of them).                                *)
(*                                                                         *)
(* The invariant is a predicate on one node: its worker, its row, where    *)
(* Recover stands with it, and what is known of its executions.  One lemma *)
(* per step of the code shows, on these values alone, that the step keeps  *)
(* the predicate; the step lemmas then read the values off the state.      *)
(***************************************************************************)
EXTENDS EngineProofs

SingleLoop == Loops = {Ticker}

-----------------------------------------------------------------------------
(***************************************************************************)
(* The invariant of one node n: w its worker, r its row, c whether Recover *)
(* still has it to do, ph and ra the phase and attempt Recover is at with  *)
(* it, F its failed executions, e its effect, f the faults so far.         *)
(***************************************************************************)
Recoverable == {"uncertain", "running", "reconciling", "cancel_requested"}

\* Who may act on the node: a listed worker only if the node is claimable (or
\* was cancelled meanwhile), a worker with a claim only on a running node, and
\* Recover only without a worker.
Owns(w, r, c, ph) ==
  /\ w.pc \in {"listed", "tracked"} => r.status \in Open \cup {"cancelled"}
  /\ w.pc \in Claimed \cup {"routing"} => r.status \in {"running", "cancel_requested"}
  /\ w.pc = "requeue" => r.status \in {"eligible", "cancel_requested", "cancelled"}
  /\ c => w.pc = "idle" /\ r.status \in Recoverable
  /\ ph # "none" => c

\* The node has been started or is about to be: what it waits for is done.
Begun(w, r) ==
  \/ r.status \in {"running", "uncertain", "waiting", "reconciling", "eligible", "succeeded"}
  \/ w.pc \in {"listed", "tracked"}

Idem(n) == Contract[n] = "idempotent"

\* A fault costs an execution under the same attempt number for an idempotent
\* node, an attempt number for every other one.
Extra(n, f) == IF Idem(n) THEN f ELSE 0
Late(n, f)  == IF Idem(n) THEN 0 ELSE f

\* The attempt numbers used up when attempt a is lost.
Spent(n, a) == IF Idem(n) THEN a - 1 ELSE a

\* How many executions can have failed at each point of the node's life.
Budget(n, w, r, F, f) ==
  /\ F <= MaxAttempts[n] + f
  /\ n \in Routers => F = 0 /\ w.pc \in {"idle", "listed", "routing"}
  /\ n \notin Routers =>
       /\ w.pc # "routing"
       /\ r.status \in Open =>
            F <= r.count + Extra(n, f) /\ r.count < MaxAttempts[n] + Late(n, f)
       /\ w.pc \in {"listed", "tracked"} /\ r.status \in Open => w.att = r.count + 1
       /\ w.pc \in Claimed =>
            /\ w.att = r.count /\ r.count <= MaxAttempts[n] + Late(n, f)
            /\ F <= Extra(n, f) + (IF w.pc = "fail" THEN r.count ELSE r.count - 1)
       /\ \/ w.pc = "uncertain"
          \/ w.pc = "idle" /\ r.status \in {"running", "uncertain", "reconciling"}
          => /\ F <= Spent(n, r.count) + Extra(n, f)
             /\ Spent(n, r.count) < MaxAttempts[n] + Late(n, f)

\* The attempt rows of an idempotent node: only the latest may not be failed.
Keys(n, w, r, ph, ra) ==
  Idem(n) /\ n \notin Routers =>
    /\ r.status \in Open => /\ r.latest <= r.count + 1
                            /\ \A b \in Attempts : b <= r.count => r.att[b] = "failed"
    /\ r.status \in {"running", "uncertain", "reconciling"} \/ w.pc \in Claimed =>
         /\ r.latest = r.count
         /\ \A b \in Attempts : b < r.count => r.att[b] = "failed"
    /\ w.pc \in Claimed => r.att[w.att] # "none"
    /\ ph = "resume" => ra = r.latest

\* No effect of a guarded node is possible when it is claimable, claimed but
\* not dispatched, failed before the effect, or found absent by Recover.
EffectOK(n, w, r, e, ph) ==
  /\ Guarded(n)
  /\ r.status \in Open \/ w.pc \in NoEffectYet \/ ph \in {"check", "requeue"}
  => e = "clear"

Sound(n, w, r, c, ph, ra, F, e, f) ==
  Owns(w, r, c, ph) /\ Budget(n, w, r, F, f) /\ Keys(n, w, r, ph, ra) /\ EffectOK(n, w, r, e, ph)

\* What a step may do to a node: it begins only nodes that are ready, keeps
\* terminal statuses, and starts no guarded execution with a possible effect.
Follows(n, w, r, e, w2, r2) ==
  /\ Begun(w2, r2) => Begun(w, r)
  /\ r.status \in Terminal => r2.status = r.status
  /\ Guarded(n) /\ w.pc # "exec" /\ w2.pc = "exec" => e = "clear"


\* The claim of a router.
LEMMA SoundClaimRouter ==
  ASSUME NEW n \in Routers, NEW w \in Worker, NEW w2 \in Worker, NEW r \in Row, NEW r2 \in Row,
         NEW c, NEW ph, NEW ra, NEW F \in Nat, NEW e, NEW f \in Nat,
         Sound(n, w, r, c, ph, ra, F, e, f),
         w.pc = "listed", w2.pc = "routing", r.status \in Open, r2.status = "running"
  PROVE  Sound(n, w2, r2, c, ph, ra, F, e, f) /\ Follows(n, w, r, e, w2, r2)
<1> USE DEF Open, Claimed, NoEffectYet, Recoverable
<1>1. Owns(w2, r2, c, ph)
  BY DEF Sound, Owns
<1>2. Budget(n, w2, r2, F, f)
  BY DEF Sound, Owns, Budget, Worker, Row
<1>3. Keys(n, w2, r2, ph, ra) /\ EffectOK(n, w2, r2, e, ph)
  BY DEF Sound, Owns, Keys, EffectOK
<1>4. Follows(n, w, r, e, w2, r2)
  BY DEF Sound, Owns, Follows, Begun, Terminal
<1> QED
  BY <1>1, <1>2, <1>3, <1>4 DEF Sound

\* The claim of an executable node.
LEMMA SoundClaim ==
  ASSUME NEW n \in Nodes, n \notin Routers, NEW w \in Worker, NEW w2 \in Worker,
         NEW r \in Row, NEW r2 \in Row,
         NEW c, NEW ph, NEW ra, NEW F \in Nat, NEW e, NEW f \in Nat,
         Sound(n, w, r, c, ph, ra, F, e, f),
         w.pc = "tracked", w2.pc = "claimed", w2.att = w.att, w.att \in Attempts,
         r.status \in Open, r2.status = "running",
         r2.count = Larger(r.count, w.att), r2.latest = Larger(r.latest, w.att),
         r2.att = [r.att EXCEPT ![w.att] = "running"]
  PROVE  Sound(n, w2, r2, c, ph, ra, F, e, f) /\ Follows(n, w, r, e, w2, r2)
<1> USE DEF Open, Claimed, NoEffectYet, Recoverable
<1>1. Owns(w2, r2, c, ph)
  BY DEF Sound, Owns
<1>2. r.count \in Nat /\ r.latest \in Nat /\ w.att = r.count + 1 /\ r2.count = r.count + 1
  BY DEF Sound, Budget, Row, Larger
<1>3. Budget(n, w2, r2, F, f)
  <2>1. F <= r.count + Extra(n, f) /\ r.count < MaxAttempts[n] + Late(n, f)
    BY DEF Sound, Budget
  <2>2. MaxAttempts[n] \in Nat /\ Extra(n, f) \in Nat /\ Late(n, f) \in Nat
    BY EngineAssumption DEF Extra, Late
  <2> QED
    BY <1>2, <2>1, <2>2 DEF Sound, Budget
<1>4. Keys(n, w2, r2, ph, ra)
  <2> SUFFICES ASSUME Idem(n) PROVE Keys(n, w2, r2, ph, ra)
    BY DEF Keys
  <2>1. r.latest <= r.count + 1 /\ \A b \in Attempts : b <= r.count => r.att[b] = "failed"
    BY DEF Sound, Keys
  <2>2. r2.latest = r2.count
    BY <1>2, <2>1 DEF Larger
  <2>3. \A b \in Attempts : b < r2.count => r2.att[b] = "failed"
    BY <1>2, <2>1 DEF Row, Attempts
  <2>4. r2.att[w2.att] # "none"
    BY DEF Row
  <2>5. ph # "resume"
    BY DEF Sound, Owns
  <2> QED
    BY <2>2, <2>3, <2>4, <2>5 DEF Keys
<1>5. EffectOK(n, w2, r2, e, ph)
  BY DEF Sound, Owns, EffectOK
<1>6. Follows(n, w, r, e, w2, r2)
  BY DEF Sound, Owns, Follows, Begun, Terminal
<1> QED
  BY <1>1, <1>3, <1>4, <1>5, <1>6 DEF Sound

\* A listed worker that takes the node into the inflight map.
LEMMA SoundTrack ==
  ASSUME NEW n \in Nodes, n \notin Routers, NEW w \in Worker, NEW w2 \in Worker, NEW r \in Row,
         NEW c, NEW ph, NEW ra, NEW F \in Nat, NEW e, NEW f \in Nat,
         Sound(n, w, r, c, ph, ra, F, e, f),
         w.pc = "listed", w2.pc = "tracked", w2.att = w.att
  PROVE  Sound(n, w2, r, c, ph, ra, F, e, f) /\ Follows(n, w, r, e, w2, r)
<1> USE DEF Open, Claimed, NoEffectYet, Recoverable
<1>1. Owns(w2, r, c, ph)
  BY DEF Sound, Owns
<1>2. Budget(n, w2, r, F, f)
  BY DEF Sound, Budget
<1>3. Keys(n, w2, r, ph, ra) /\ EffectOK(n, w2, r, e, ph)
  BY DEF Sound, Owns, Keys, EffectOK
<1>4. Follows(n, w, r, e, w2, r)
  BY DEF Follows, Begun
<1> QED
  BY <1>1, <1>2, <1>3, <1>4 DEF Sound

\* A claim, a tracking or a step that found the node taken: the worker of a
\* claimable or cancelled node returns and leaves the row as it is.
LEMMA SoundRefused ==
  ASSUME NEW n \in Nodes, NEW w \in Worker, NEW w2 \in Worker, NEW r \in Row,
         NEW c, NEW ph, NEW ra, NEW F \in Nat, NEW e, NEW f \in Nat,
         Sound(n, w, r, c, ph, ra, F, e, f),
         w.pc \in {"listed", "tracked"}, w2.pc = "idle"
  PROVE  Sound(n, w2, r, c, ph, ra, F, e, f) /\ Follows(n, w, r, e, w2, r)
<1> USE DEF Open, Claimed, NoEffectYet, Recoverable
<1>1. Owns(w2, r, c, ph)
  BY DEF Sound, Owns
<1>2. Budget(n, w2, r, F, f)
  BY DEF Sound, Owns, Budget
<1>3. Keys(n, w2, r, ph, ra) /\ EffectOK(n, w2, r, e, ph)
  BY DEF Sound, Owns, Keys, EffectOK
<1>4. Follows(n, w, r, e, w2, r)
  BY DEF Follows, Begun
<1> QED
  BY <1>1, <1>2, <1>3, <1>4 DEF Sound

\* Dispatch, the ends of Execute other than a failure, and CheckResult: the
\* row is not touched, and an uncertain outcome costs a fault.
LEMMA SoundAdvance ==
  ASSUME NEW n \in Nodes, NEW w \in Worker, NEW w2 \in Worker, NEW r \in Row,
         NEW c, NEW ph, NEW ra, NEW F \in Nat, NEW e, NEW e2,
         NEW f \in Nat, NEW f2 \in {f, f + 1},
         Sound(n, w, r, c, ph, ra, F, e, f),
         w.pc \in {"claimed", "exec", "ok"}, w2.att = w.att,
         w2.pc \in {"exec", "ok", "uncertain", "cancel", "commit"},
         w2.pc = "exec" => w.pc = "claimed",
         w2.pc = "uncertain" => f2 = f + 1
  PROVE  Sound(n, w2, r, c, ph, ra, F, e2, f2) /\ Follows(n, w, r, e, w2, r)
<1> USE DEF Open, Claimed, NoEffectYet, Recoverable
<1>1. Owns(w2, r, c, ph)
  BY DEF Sound, Owns
<1>2. Budget(n, w2, r, F, f2)
  <2>1. /\ n \notin Routers /\ w.att = r.count
        /\ r.count <= MaxAttempts[n] + Late(n, f) /\ F <= Extra(n, f) + (r.count - 1)
        /\ F <= MaxAttempts[n] + f
    BY DEF Sound, Budget
  <2>2. MaxAttempts[n] \in Nat /\ r.count \in Nat /\ f2 \in Nat
    BY EngineAssumption DEF Row
  <2>3. w2.pc = "uncertain" => /\ F <= Spent(n, r.count) + Extra(n, f2)
                               /\ Spent(n, r.count) < MaxAttempts[n] + Late(n, f2)
    BY <2>1, <2>2 DEF Spent, Extra, Late
  <2>4. r.count <= MaxAttempts[n] + Late(n, f2) /\ F <= Extra(n, f2) + (r.count - 1)
    BY <2>1, <2>2 DEF Extra, Late
  <2>5. r.status \notin Open
    BY DEF Sound, Owns
  <2> QED
    BY <2>1, <2>2, <2>3, <2>4, <2>5 DEF Budget
<1>3. Keys(n, w2, r, ph, ra)
  BY DEF Sound, Owns, Keys
<1>4. EffectOK(n, w2, r, e2, ph)
  BY DEF Sound, Owns, EffectOK
<1>5. Follows(n, w, r, e, w2, r)
  BY DEF Sound, EffectOK, Follows, Begun
<1> QED
  BY <1>1, <1>2, <1>3, <1>4, <1>5 DEF Sound

\* An execution that failed before any effect.
LEMMA SoundFail ==
  ASSUME NEW n \in Nodes, NEW w \in Worker, NEW w2 \in Worker, NEW r \in Row,
         NEW c, NEW ph, NEW ra, NEW F \in Nat, NEW e, NEW e2,
         NEW f \in Nat, NEW f2 \in {f, f + 1},
         Sound(n, w, r, c, ph, ra, F, e, f),
         w.pc = "exec", w2.pc = "fail", w2.att = w.att, Guarded(n) => e2 = "clear"
  PROVE  Sound(n, w2, r, c, ph, ra, F + 1, e2, f2) /\ Follows(n, w, r, e, w2, r)
<1> USE DEF Open, Claimed, NoEffectYet, Recoverable
<1>1. Owns(w2, r, c, ph)
  BY DEF Sound, Owns
<1>2. Budget(n, w2, r, F + 1, f2)
  <2>1. /\ n \notin Routers /\ w.att = r.count
        /\ r.count <= MaxAttempts[n] + Late(n, f) /\ F <= Extra(n, f) + (r.count - 1)
    BY DEF Sound, Budget
  <2>2. MaxAttempts[n] \in Nat /\ r.count \in Nat /\ f2 \in Nat
    BY EngineAssumption DEF Row
  <2>3. r.count <= MaxAttempts[n] + Late(n, f2) /\ F + 1 <= Extra(n, f2) + r.count
    BY <2>1, <2>2 DEF Extra, Late
  <2>4. F + 1 <= MaxAttempts[n] + f2
    BY <2>2, <2>3 DEF Extra, Late
  <2>5. r.status \notin Open
    BY DEF Sound, Owns
  <2> QED
    BY <2>1, <2>2, <2>3, <2>4, <2>5 DEF Budget
<1>3. Keys(n, w2, r, ph, ra)
  BY DEF Sound, Owns, Keys
<1>4. EffectOK(n, w2, r, e2, ph)
  BY DEF Sound, Owns, EffectOK
<1>5. Follows(n, w, r, e, w2, r)
  BY DEF Follows, Begun
<1> QED
  BY <1>1, <1>2, <1>3, <1>4, <1>5 DEF Sound

\* A worker or Recover is done with the node: it is terminal, waits, or is
\* still being cancelled.
LEMMA SoundSettled ==
  ASSUME NEW n \in Nodes, NEW w \in Worker, NEW w2 \in Worker, NEW r \in Row, NEW r2 \in Row,
         NEW c, NEW ph, NEW ra, NEW ra2, NEW F \in Nat, NEW e, NEW e2,
         NEW f \in Nat,
         Sound(n, w, r, c, ph, ra, F, e, f),
         w2.pc = "idle",
         r2.status \in Terminal \cup {"waiting", "cancel_requested"},
         r.status \in Terminal => r2.status = r.status,
         Begun(w2, r2) => Begun(w, r)
  PROVE  Sound(n, w2, r2, FALSE, "none", ra2, F, e2, f) /\ Follows(n, w, r, e, w2, r2)
<1> USE DEF Open, Claimed, NoEffectYet, Recoverable, Terminal
<1>1. Owns(w2, r2, FALSE, "none")
  BY DEF Owns
<1>2. Budget(n, w2, r2, F, f)
  BY DEF Sound, Budget
<1>3. Keys(n, w2, r2, "none", ra2) /\ EffectOK(n, w2, r2, e2, "none")
  BY DEF Keys, EffectOK
<1>4. Follows(n, w, r, e, w2, r2)
  BY DEF Follows
<1> QED
  BY <1>1, <1>2, <1>3, <1>4 DEF Sound

\* node_uncertain of a running node.
LEMMA SoundUncertain ==
  ASSUME NEW n \in Nodes, NEW w \in Worker, NEW w2 \in Worker, NEW r \in Row, NEW r2 \in Row,
         NEW c, NEW ph, NEW ra, NEW F \in Nat, NEW e, NEW f \in Nat,
         Sound(n, w, r, c, ph, ra, F, e, f),
         w.pc = "uncertain", w2.pc = "idle", r.status = "running", r2.status = "uncertain",
         r2.count = r.count, r2.latest = r.latest,
         \A b \in Attempts : b # w.att => r2.att[b] = r.att[b]
  PROVE  Sound(n, w2, r2, c, ph, ra, F, e, f) /\ Follows(n, w, r, e, w2, r2)
<1> USE DEF Open, Claimed, NoEffectYet, Recoverable
<1>1. ~c /\ ph = "none" /\ n \notin Routers /\ w.att = r.count
  BY DEF Sound, Owns, Budget
<1>2. Owns(w2, r2, c, ph)
  BY <1>1 DEF Owns
<1>3. Budget(n, w2, r2, F, f)
  BY <1>1 DEF Sound, Budget
<1>4. Keys(n, w2, r2, ph, ra)
  <2>1. Idem(n) => r.latest = r.count /\ \A b \in Attempts : b < r.count => r.att[b] = "failed"
    BY <1>1 DEF Sound, Keys
  <2>2. \A b \in Attempts : b < r.count => b # w.att
    BY <1>1 DEF Row, Attempts
  <2> QED
    BY <1>1, <2>1, <2>2 DEF Keys
<1>5. EffectOK(n, w2, r2, e, ph)
  BY <1>1 DEF EffectOK
<1>6. Follows(n, w, r, e, w2, r2)
  BY DEF Follows, Begun, Terminal
<1> QED
  BY <1>2, <1>3, <1>4, <1>5, <1>6 DEF Sound

\* node_attempt_failed when an attempt is left.
LEMMA SoundAttemptFailed ==
  ASSUME NEW n \in Nodes, NEW w \in Worker, NEW w2 \in Worker, NEW r \in Row, NEW r2 \in Row,
         NEW c, NEW ph, NEW ra, NEW F \in Nat, NEW e, NEW f \in Nat,
         Sound(n, w, r, c, ph, ra, F, e, f),
         w.pc = "fail", w2.pc = "requeue", w.att < MaxAttempts[n], w.att \in Attempts,
         r2.status = IF r.status = "running" THEN "eligible" ELSE r.status,
         r2.count = r.count, r2.latest = r.latest,
         r2.att = IF r.att[w.att] = "none" THEN r.att ELSE [r.att EXCEPT ![w.att] = "failed"]
  PROVE  Sound(n, w2, r2, c, ph, ra, F, e, f) /\ Follows(n, w, r, e, w2, r2)
<1> USE DEF Open, Claimed, NoEffectYet, Recoverable
<1>1. ~c /\ ph = "none" /\ n \notin Routers /\ w.att = r.count /\ r.status \in {"running", "cancel_requested"}
  BY DEF Sound, Owns, Budget
<1>2. Owns(w2, r2, c, ph)
  BY <1>1 DEF Owns
<1>3. Budget(n, w2, r2, F, f)
  <2>1. F <= Extra(n, f) + r.count /\ F <= MaxAttempts[n] + f
    BY <1>1 DEF Sound, Budget
  <2>2. r.count < MaxAttempts[n] + Late(n, f) /\ F <= r.count + Extra(n, f)
    BY <1>1, <2>1, EngineAssumption DEF Late, Extra, Row
  <2> QED
    BY <1>1, <2>1, <2>2 DEF Budget
<1>4. Keys(n, w2, r2, ph, ra)
  <2> SUFFICES ASSUME Idem(n) PROVE Keys(n, w2, r2, ph, ra)
    BY DEF Keys
  <2>1. /\ r.latest = r.count /\ r.att[w.att] # "none"
        /\ \A b \in Attempts : b < r.count => r.att[b] = "failed"
    BY <1>1 DEF Sound, Keys
  <2>2. r2.latest <= r2.count + 1
    BY <2>1 DEF Row
  <2>3. \A b \in Attempts : b <= r2.count => r2.att[b] = "failed"
    <3>1. r2.att = [r.att EXCEPT ![w.att] = "failed"]
      BY <2>1
    <3>2. r.att \in [Attempts -> AttemptStatus] /\ r.count \in Int
      BY DEF Row
    <3>3. \A b \in Attempts : r2.att[b] = IF b = w.att THEN "failed" ELSE r.att[b]
      BY <3>1, <3>2
    <3>4. \A b \in Attempts : b <= r.count => b = r.count \/ b < r.count
      BY <3>2 DEF Attempts
    <3> QED
      BY <1>1, <2>1, <3>3, <3>4
  <2>4. r2.status \notin {"running", "uncertain", "reconciling"}
    BY <1>1
  <2> QED
    BY <1>1, <2>2, <2>3, <2>4 DEF Keys
<1>5. EffectOK(n, w2, r2, e, ph)
  BY DEF Sound, EffectOK
<1>6. Follows(n, w, r, e, w2, r2)
  BY <1>1 DEF Follows, Begun, Terminal
<1> QED
  BY <1>2, <1>3, <1>4, <1>5, <1>6 DEF Sound

\* node_requeued of a failed or absent attempt: the row keeps its count.
LEMMA SoundRequeued ==
  ASSUME NEW n \in Nodes, NEW w \in Worker, NEW w2 \in Worker, NEW r \in Row, NEW r2 \in Row,
         NEW c, NEW ph, NEW ra, NEW ra2, NEW F \in Nat, NEW e, NEW f \in Nat,
         Sound(n, w, r, c, ph, ra, F, e, f),
         w.pc = "requeue" \/ r.status \in {"uncertain", "running", "reconciling"},
         w.pc \in {"requeue", "idle"}, w2.pc = "idle",
         w.pc = "idle" => ~Idem(n) /\ (Guarded(n) => e = "clear"),
         r2.status = IF r.status \in Cancelling THEN r.status ELSE "eligible",
         r2.count = r.count, r2.latest = r.latest, r2.att = r.att
  PROVE  Sound(n, w2, r2, FALSE, "none", ra2, F, e, f) /\ Follows(n, w, r, e, w2, r2)
<1> USE DEF Open, Claimed, NoEffectYet, Recoverable, Cancelling
<1>1. \/ w.pc = "requeue" /\ r.status \in {"eligible", "cancel_requested", "cancelled"}
      \/ /\ w.pc = "idle" /\ r.status \in {"uncertain", "running", "reconciling"}
         /\ ~Idem(n) /\ (Guarded(n) => e = "clear")
  BY DEF Sound, Owns
<1>2. Owns(w2, r2, FALSE, "none")
  BY DEF Owns
<1>3. Budget(n, w2, r2, F, f)
  <2>1. CASE w.pc = "requeue"
    BY <1>1, <2>1 DEF Sound, Budget
  <2>2. CASE w.pc # "requeue"
    BY <1>1, <2>2 DEF Sound, Budget, Spent
  <2> QED
    BY <2>1, <2>2
<1>4. Keys(n, w2, r2, "none", ra2)
  BY <1>1 DEF Sound, Keys
<1>5. EffectOK(n, w2, r2, e, "none")
  BY <1>1 DEF Sound, EffectOK
<1>6. Follows(n, w, r, e, w2, r2)
  BY <1>1 DEF Follows, Begun, Terminal
<1> QED
  BY <1>2, <1>3, <1>4, <1>5, <1>6 DEF Sound

\* The worker is lost with its claim: it returned without an event, or the
\* process died.  Recover, if it was at the node, starts again.
LEMMA SoundLost ==
  ASSUME NEW n \in Nodes, NEW w \in Worker, NEW w2 \in Worker, NEW r \in Row,
         NEW c, NEW c2, NEW ph, NEW ph2, NEW ra, NEW ra2,
         NEW F \in Nat, NEW e, NEW f \in Nat,
         Sound(n, w, r, c, ph, ra, F, e, f),
         w2.pc = "idle",
         \/ c2 = c /\ ph2 = ph /\ ra2 = ra
         \/ c2 = FALSE /\ ph2 = "none"
  PROVE  Sound(n, w2, r, c2, ph2, ra2, F, e, f + 1) /\ Follows(n, w, r, e, w2, r)
<1> USE DEF Open, Claimed, NoEffectYet, Recoverable
<1>1. Owns(w2, r, c2, ph2)
  BY DEF Sound, Owns
<1>2. Budget(n, w2, r, F, f + 1)
  <2>1. MaxAttempts[n] \in Nat /\ r.count \in Nat /\ F <= MaxAttempts[n] + f
    BY EngineAssumption DEF Row, Sound, Budget
  <2>2. n \in Routers => F = 0
    BY DEF Sound, Budget
  <2>3. n \notin Routers /\ r.status \in Open =>
            F <= r.count + Extra(n, f + 1) /\ r.count < MaxAttempts[n] + Late(n, f + 1)
    BY <2>1 DEF Sound, Budget, Extra, Late
  <2>4. ASSUME n \notin Routers, r.status \in {"running", "uncertain", "reconciling"}
        PROVE  /\ F <= Spent(n, r.count) + Extra(n, f + 1)
               /\ Spent(n, r.count) < MaxAttempts[n] + Late(n, f + 1)
    <3>1. w.pc \in Claimed \cup {"idle"}
      BY <2>4 DEF Sound, Owns, Budget, Worker, WorkerPc
    <3>2. CASE w.pc = "idle"
      BY <2>1, <2>4, <3>2 DEF Sound, Budget, Extra, Late, Spent
    <3>3. CASE w.pc \in Claimed
      <4>1. /\ r.count <= MaxAttempts[n] + Late(n, f)
            /\ F <= Extra(n, f) + (IF w.pc = "fail" THEN r.count ELSE r.count - 1)
        BY <2>4, <3>3 DEF Sound, Budget
      <4> QED
        BY <2>1, <4>1 DEF Extra, Late, Spent
    <3> QED
      BY <3>1, <3>2, <3>3
  <2> QED
    BY <2>1, <2>2, <2>3, <2>4 DEF Budget
<1>3. Keys(n, w2, r, ph2, ra2)
  BY DEF Sound, Keys
<1>4. EffectOK(n, w2, r, e, ph2)
  BY DEF Sound, EffectOK
<1>5. Follows(n, w, r, e, w2, r)
  BY DEF Follows, Begun
<1> QED
  BY <1>1, <1>2, <1>3, <1>4, <1>5 DEF Sound

\* What a step at another node, a cancel signal or an expired lease may do to
\* a node: it is materialised, or skipped when nothing has begun it; a fault
\* elsewhere gives slack.
LEMMA SoundFrame ==
  ASSUME NEW n \in Nodes, NEW w \in Worker, NEW w2 \in Worker, NEW r \in Row, NEW r2 \in Row,
         NEW c, NEW ph, NEW ra, NEW F \in Nat, NEW e, NEW f \in Nat, NEW f2 \in Nat,
         Sound(n, w, r, c, ph, ra, F, e, f),
         f <= f2, w2.pc = w.pc, w.pc # "idle" => w2.att = w.att,
         r2.count = r.count, r2.latest = r.latest, r2.att = r.att,
         \/ r2.status = r.status
         \/ r.status = "absent" /\ r2.status = "pending"
         \/ r.status = "absent" /\ r2.status = "skipped" /\ ~Begun(w, r)
  PROVE  Sound(n, w2, r2, c, ph, ra, F, e, f2) /\ Follows(n, w, r, e, w2, r2)
<1> USE DEF Open, Claimed, NoEffectYet, Recoverable
<1>1. Owns(w2, r2, c, ph)
  BY DEF Sound, Owns, Begun
<1>2. Budget(n, w2, r2, F, f2)
  <2>1. MaxAttempts[n] \in Nat /\ r.count \in Nat /\ F <= MaxAttempts[n] + f
    BY EngineAssumption DEF Row, Sound, Budget
  <2>2. /\ Extra(n, f) <= Extra(n, f2) /\ Extra(n, f) \in Nat /\ Extra(n, f2) \in Nat
        /\ Late(n, f) <= Late(n, f2) /\ Late(n, f) \in Nat /\ Late(n, f2) \in Nat
        /\ Spent(n, r.count) \in Int
    BY <2>1 DEF Extra, Late, Spent
  <2> QED
    BY <2>1, <2>2 DEF Sound, Budget
<1>3. Keys(n, w2, r2, ph, ra)
  BY DEF Sound, Keys
<1>4. EffectOK(n, w2, r2, e, ph)
  BY DEF Sound, EffectOK
<1>5. Follows(n, w, r, e, w2, r2)
  BY DEF Follows, Begun, Terminal
<1> QED
  BY <1>1, <1>2, <1>3, <1>4, <1>5 DEF Sound

\* Recover stays where it is, or ends.
LEMMA SoundRecoverEnds ==
  ASSUME NEW n, NEW w, NEW r, NEW c, NEW c2, NEW ph, NEW ph2, NEW ra, NEW ra2,
         NEW F, NEW e, NEW f, Sound(n, w, r, c, ph, ra, F, e, f),
         \/ (c2 <=> c) /\ ph2 = ph /\ ra2 = ra
         \/ (c2 => c) /\ ph2 = "none"
  PROVE  Sound(n, w, r, c2, ph2, ra2, F, e, f)
<1>1. Owns(w, r, c2, ph2)
  BY DEF Sound, Owns
<1>2. Keys(n, w, r, ph2, ra2)
  BY DEF Sound, Keys
<1>3. EffectOK(n, w, r, e, ph2)
  BY DEF Sound, EffectOK
<1> QED
  BY <1>1, <1>2, <1>3 DEF Sound

\* CancelRun's event for the node.
LEMMA SoundCancelNode ==
  ASSUME NEW n \in Nodes, NEW w \in Worker, NEW r \in Row, NEW r2 \in Row,
         NEW c, NEW ph, NEW ra, NEW F \in Nat, NEW e, NEW f \in Nat,
         Sound(n, w, r, c, ph, ra, F, e, f),
         r2.count = r.count, r2.latest = r.latest, r2.att = r.att,
         r2.status = IF r.status \in {"running", "uncertain", "reconciling"} THEN "cancel_requested"
                     ELSE IF r.status \in Terminal \cup {"cancel_requested"} THEN r.status
                     ELSE "cancelled"
  PROVE  Sound(n, w, r2, c, ph, ra, F, e, f) /\ Follows(n, w, r, e, w, r2)
<1> USE DEF Open, Claimed, NoEffectYet, Recoverable, Terminal
<1>1. Owns(w, r2, c, ph)
  BY DEF Sound, Owns
<1>2. Budget(n, w, r2, F, f)
  BY DEF Sound, Budget
<1>3. Keys(n, w, r2, ph, ra)
  BY DEF Sound, Keys
<1>4. EffectOK(n, w, r2, e, ph)
  BY DEF Sound, EffectOK
<1>5. Follows(n, w, r, e, w, r2)
  BY DEF Follows, Begun
<1> QED
  BY <1>1, <1>2, <1>3, <1>4, <1>5 DEF Sound

\* Step lists a claimable node.
LEMMA SoundListed ==
  ASSUME NEW n \in Nodes, NEW w \in Worker, NEW w2 \in Worker, NEW r \in Row,
         NEW c, NEW ph, NEW ra, NEW F \in Nat, NEW e, NEW f \in Nat,
         Sound(n, w, r, c, ph, ra, F, e, f), ~c,
         w.pc = "idle", w2.pc = "listed", w2.att = r.count + 1, r.status \in Open
  PROVE  Sound(n, w2, r, c, ph, ra, F, e, f)
<1> USE DEF Open, Claimed, NoEffectYet, Recoverable
<1>1. Owns(w2, r, c, ph)
  BY DEF Sound, Owns
<1>2. Budget(n, w2, r, F, f)
  BY DEF Sound, Budget
<1>3. Keys(n, w2, r, ph, ra)
  BY DEF Sound, Owns, Keys
<1>4. EffectOK(n, w2, r, e, ph)
  BY DEF Sound, EffectOK
<1> QED
  BY <1>1, <1>2, <1>3, <1>4 DEF Sound

\* Recover lists a node, or goes on to another phase with it.
LEMMA SoundPhase ==
  ASSUME NEW n \in Nodes, NEW w \in Worker, NEW r \in Row,
         NEW c, NEW ph, NEW ph2, NEW ra, NEW ra2,
         NEW F \in Nat, NEW e, NEW e2, NEW f \in Nat,
         Sound(n, w, r, c, ph, ra, F, e, f),
         w.pc = "idle", r.status \in Recoverable,
         ph2 = "resume" => ra2 = r.latest,
         ph2 \in {"check", "requeue"} /\ Guarded(n) => e2 = "clear"
  PROVE  Sound(n, w, r, TRUE, ph2, ra2, F, e2, f)
<1> USE DEF Open, Claimed, NoEffectYet, Recoverable
<1>1. Owns(w, r, TRUE, ph2)
  BY DEF Owns
<1>2. Budget(n, w, r, F, f)
  BY DEF Sound
<1>3. Keys(n, w, r, ph2, ra2)
  BY DEF Sound, Keys
<1>4. EffectOK(n, w, r, e2, ph2)
  BY DEF EffectOK
<1> QED
  BY <1>1, <1>2, <1>3, <1>4 DEF Sound

\* node_reconciling.
LEMMA SoundReconciling ==
  ASSUME NEW n \in Nodes, NEW w \in Worker, NEW r \in Row, NEW r2 \in Row,
         NEW c, NEW ph, NEW ra, NEW ra2, NEW F \in Nat, NEW e, NEW f \in Nat,
         Sound(n, w, r, c, ph, ra, F, e, f), w.pc = "idle", r.status \in Recoverable, ~Idem(n),
         r2.count = r.count, r2.latest = r.latest, r2.att = r.att,
         r2.status = IF r.status \in Cancelling THEN r.status ELSE "reconciling"
  PROVE  Sound(n, w, r2, TRUE, "query", ra2, F, e, f) /\ Follows(n, w, r, e, w, r2)
<1> USE DEF Open, Claimed, NoEffectYet, Recoverable, Cancelling
<1>1. Owns(w, r2, TRUE, "query")
  BY DEF Owns
<1>2. Budget(n, w, r2, F, f)
  BY DEF Sound, Budget
<1>3. Keys(n, w, r2, "query", ra2)
  BY DEF Keys
<1>4. EffectOK(n, w, r2, e, "query")
  BY DEF EffectOK
<1>5. Follows(n, w, r, e, w, r2)
  BY DEF Follows, Begun, Terminal
<1> QED
  BY <1>1, <1>2, <1>3, <1>4, <1>5 DEF Sound

\* node_requeued with resume: the latest attempt is used again.
LEMMA SoundResumed ==
  ASSUME NEW n \in Nodes, NEW w \in Worker, NEW r \in Row, NEW r2 \in Row,
         NEW c, NEW ra \in Attempts, NEW ra2, NEW F \in Nat, NEW e, NEW f \in Nat,
         Sound(n, w, r, c, "resume", ra, F, e, f), Idem(n),
         r2.latest = r.latest, r2.att = r.att,
         r2.status = IF r.status \in Cancelling THEN r.status ELSE "eligible",
         r2.count = IF r.status \in Cancelling THEN r.count ELSE ra - 1
  PROVE  Sound(n, w, r2, FALSE, "none", ra2, F, e, f) /\ Follows(n, w, r, e, w, r2)
<1> USE DEF Open, Claimed, NoEffectYet, Recoverable, Cancelling
<1>1. c /\ w.pc = "idle" /\ r.status \in Recoverable /\ (n \notin Routers => ra = r.latest)
  BY DEF Sound, Owns, Keys
<1>2. r.count \in Nat /\ (n \notin Routers /\ r.status # "cancel_requested" => r.latest = r.count)
  BY <1>1 DEF Sound, Keys, Row
<1>3. Owns(w, r2, FALSE, "none")
  BY <1>1 DEF Owns
<1>4. Budget(n, w, r2, F, f)
  BY <1>1, <1>2 DEF Sound, Budget, Spent
<1>5. Keys(n, w, r2, "none", ra2)
  <2> SUFFICES ASSUME n \notin Routers PROVE Keys(n, w, r2, "none", ra2)
    BY DEF Keys
  <2>1. CASE r.status = "cancel_requested"
    BY <1>1, <2>1 DEF Keys
  <2>2. CASE r.status # "cancel_requested"
    <3>1. r2.count = r.count - 1 /\ r2.latest = r.count /\ r2.status = "eligible"
      BY <1>1, <1>2, <2>2
    <3>2. \A b \in Attempts : b < r.count => r.att[b] = "failed"
      BY <1>1, <2>2 DEF Sound, Keys
    <3>3. \A b \in Attempts : b <= r2.count => r2.att[b] = "failed"
      BY <1>2, <3>1, <3>2 DEF Attempts
    <3> QED
      BY <1>1, <1>2, <3>1, <3>3 DEF Keys
  <2> QED
    BY <2>1, <2>2
<1>6. EffectOK(n, w, r2, e, "none")
  BY DEF EffectOK, Guarded, Idem
<1>7. Follows(n, w, r, e, w, r2)
  BY <1>1 DEF Follows, Begun, Terminal
<1> QED
  BY <1>3, <1>4, <1>5, <1>6, <1>7 DEF Sound

-----------------------------------------------------------------------------
(***************************************************************************)
(* The invariant of the state.                                             *)
(***************************************************************************)
\* Where Recover stands with node n.
Cand(n)  == n \in rec.todo \cup rec.cur
Phase(n) == IF n \in rec.cur THEN rec.phase ELSE "none"

NodeSound(n) == Sound(n, work[Ticker][n], row[n], Cand(n), Phase(n), rec.att,
                      failures[n], effect[n], faults)

NodeFollows(n) ==
  Follows(n, work[Ticker][n], row[n], effect[n], work'[Ticker][n], row'[n])

NodeBegun(n) == Begun(work[Ticker][n], row[n])

\* Recover has a list only while the ticker recovers, one candidate at a time,
\* resumes only idempotent nodes and asks only about others.
RecShape ==
  /\ loop[Ticker] # "recovering" => rec = NoRec
  /\ rec.phase = "none" => rec.cur = {}
  /\ \A a, b \in rec.cur : a = b
  /\ rec.phase = "resume" => rec.att \in Attempts /\ \A m \in rec.cur : Idem(m)
  /\ rec.phase \in {"query", "check", "requeue"} => \A m \in rec.cur : ~Idem(m)

\* Only a node that succeeded has routes taken.
RoutesTaken == \A e \in traversed : row[e.from].status = "succeeded"

\* How a run ended: completed by an idle loop, cancelled by an idle loop or
\* with nothing left to run.
RunEnded ==
  /\ run = "completed" => loop[Ticker] = "idle" /\ \A n \in Nodes : row[n].status \in Done
  /\ run = "cancelled" =>
       loop[Ticker] = "idle" \/ \A n \in Nodes : row[n].status \in Terminal

SingleInv ==
  /\ InflightInv /\ RecShape /\ RoutesTaken /\ RunEnded
  /\ \A n \in Nodes : NodeSound(n) /\ (NodeBegun(n) => Ready(n))

\* The values Sound is about have their types.
LEMMA NodeTypes ==
  ASSUME TypeInv, NEW n \in Nodes
  PROVE  /\ work[Ticker][n] \in Worker /\ row[n] \in Row
         /\ failures[n] \in Nat /\ faults \in Nat
         /\ Cand(n) \in BOOLEAN
         /\ work[Ticker][n].pc # "idle" => work[Ticker][n].att \in Attempts
         /\ row[n].latest \in 0 .. AttemptBound /\ row[n].count \in Nat
  BY EngineAssumption, AttemptBoundAssumption DEF TypeInv, TypeOK, AttOK, Cand, Row

\* commitNodeSuccess ends its own node, if it was running, and only
\* materialises or skips others.
LEMMA CommitRows ==
  ASSUME TypeOK, NEW n \in Nodes, NEW a \in Attempts, NEW route, NEW known,
         CommitNodeSuccess(n, a, route, known), NEW m \in Nodes
  PROVE  /\ m = n =>
              row'[m].status = IF row[n].status = "cancel_requested" THEN "cancelled"
                               ELSE IF row[n].status \in {"running", "reconciling"} THEN "succeeded"
                               ELSE row[n].status
         /\ m # n =>
              /\ row'[m].count = row[m].count /\ row'[m].latest = row[m].latest
              /\ row'[m].att = row[m].att
              /\ \/ row'[m].status = row[m].status
                 \/ row[m].status = "absent" /\ row'[m].status = "pending"
                 \/ /\ row[m].status = "absent" /\ row'[m].status = "skipped"
                    /\ row[n].status \in {"running", "reconciling"}
                    /\ m \in Unselected(n, route, known)
<1>1. row \in [Nodes -> Row] /\ row[n] \in Row /\ row[m] \in Row
  BY DEF TypeOK
<1>2. CASE row[n].status = "cancel_requested"
  <2>1. row' = [row EXCEPT ![n] = OnNodeCancelled(row[n], a)]
    BY <1>2 DEF CommitNodeSuccess
  <2>2. OnNodeCancelled(row[n], a).status = "cancelled"
    BY <1>1, <1>2, CancelledType DEF Terminal, Attempts
  <2> QED
    BY <1>1, <1>2, <2>1, <2>2
<1>3. CASE row[n].status \in {"running", "reconciling"}
  <2> DEFINE done  == [row EXCEPT ![n] = OnNodeTerminal(row[n], "succeeded", a, FALSE)]
             targets == Unselected(n, route, known)
             skips == WithSkips(done, targets)
             rows  == WithDecisions(skips, n, Selected(n, route, known))
  <2>1. row' = rows
    BY <1>3 DEF CommitNodeSuccess, Finished
  <2>2. /\ OnNodeTerminal(row[n], "succeeded", a, FALSE) \in Row
        /\ OnNodeTerminal(row[n], "succeeded", a, FALSE).status = "succeeded"
    BY <1>1, <1>3, TerminalType DEF Cancelling
  <2>3. /\ done[m] \in Row
        /\ m = n => done[m].status = "succeeded"
        /\ m # n => done[m] = row[m]
    BY <1>1, <2>2
  <2> HIDE DEF done
  <2>4. /\ EnsureRunNode(done[m]) \in Row
        /\ EnsureRunNode(done[m]).status =
             IF done[m].status = "absent" THEN "pending" ELSE done[m].status
        /\ OnNodeSkipped(EnsureRunNode(done[m])) \in Row
    BY <2>3, EnsureType, SkippedType
  <2>5. skips[m] = IF m \in targets /\ done[m].status = "absent"
                   THEN OnNodeSkipped(EnsureRunNode(done[m])) ELSE done[m]
    BY DEF WithSkips
  <2>6. /\ skips[m] \in Row
        /\ skips[m].count = done[m].count /\ skips[m].latest = done[m].latest
        /\ skips[m].att = done[m].att
        /\ \/ skips[m].status = done[m].status
           \/ m \in targets /\ done[m].status = "absent" /\ skips[m].status = "skipped"
    BY <2>3, <2>4, <2>5, SkippedType, MaterialisedFields DEF Cancelling
  <2> HIDE DEF skips
  <2>7. rows[m] = EnsureRunNode(skips[m]) \/ rows[m] = skips[m]
    BY DEF WithDecisions
  <2> HIDE DEF rows
  <2>8. /\ rows[m].count = skips[m].count /\ rows[m].latest = skips[m].latest
        /\ rows[m].att = skips[m].att
        /\ \/ rows[m].status = skips[m].status
           \/ skips[m].status = "absent" /\ rows[m].status = "pending"
    BY <2>6, <2>7, EnsureType, MaterialisedFields
  <2> QED
    BY <1>3, <2>1, <2>3, <2>6, <2>8
<1>4. CASE row[n].status \notin {"running", "reconciling", "cancel_requested"}
  BY <1>4 DEF CommitNodeSuccess
<1> QED
  BY <1>2, <1>3, <1>4

\* A node that routing skips has not begun: a route to it is still untaken.
LEMMA SkippedNotBegun ==
  ASSUME SingleInv, NEW n \in Nodes, row[n].status \in {"running", "reconciling"},
         NEW route, NEW known, NEW m \in Nodes, m \in Unselected(n, route, known)
  PROVE  ~NodeBegun(m)
<1>1. PICK e \in RouteEdges : e.from = n /\ e.to = m
  BY DEF Unselected
<1>2. e \notin traversed
  BY <1>1 DEF SingleInv, RoutesTaken
<1> QED
  BY <1>1, <1>2 DEF SingleInv, Ready

\* A step at another node changes the row of m at most like this.
RowFrame(m) ==
  /\ row'[m].count = row[m].count /\ row'[m].latest = row[m].latest
  /\ row'[m].att = row[m].att
  /\ \/ row'[m].status = row[m].status
     \/ row[m].status = "absent" /\ row'[m].status = "pending"
     \/ row[m].status = "absent" /\ row'[m].status = "skipped" /\ ~NodeBegun(m)

\* What a step leaves true of node m.
Holds(m) == NodeSound(m)' /\ NodeFollows(m)

\* A node with an unchanged worker, at another place than the step.
LEMMA FrameHolds ==
  ASSUME SingleInv, TypeInv', NEW m \in Nodes, RowFrame(m),
         work'[Ticker][m].pc = work[Ticker][m].pc,
         work[Ticker][m].pc # "idle" => work'[Ticker][m].att = work[Ticker][m].att,
         effect'[m] = effect[m], failures'[m] = failures[m], faults <= faults',
         UNCHANGED rec \/ ((Cand(m)' => Cand(m)) /\ Phase(m)' = "none")
  PROVE  Holds(m)
<1>1. /\ TypeInv /\ Ticker \in Loops
      /\ Sound(m, work[Ticker][m], row[m], Cand(m), Phase(m), rec.att,
               failures[m], effect[m], faults)
  BY EngineAssumption DEF SingleInv, InflightInv, NodeSound
<1>2. /\ work[Ticker][m] \in Worker /\ work'[Ticker][m] \in Worker
      /\ row[m] \in Row /\ row'[m] \in Row /\ failures[m] \in Nat
      /\ faults \in Nat /\ faults' \in Nat
  BY <1>1, NodeTypes DEF TypeInv, TypeOK
<1>3. \/ Cand(m)' = Cand(m) /\ Phase(m)' = Phase(m) /\ rec'.att = rec.att
      \/ (Cand(m)' => Cand(m)) /\ Phase(m)' = "none"
  BY DEF Cand, Phase
<1>4. /\ Sound(m, work'[Ticker][m], row'[m], Cand(m), Phase(m), rec.att,
               failures[m], effect[m], faults')
      /\ Follows(m, work[Ticker][m], row[m], effect[m], work'[Ticker][m], row'[m])
  BY <1>1, <1>2, SoundFrame DEF RowFrame, NodeBegun
<1>5. Sound(m, work'[Ticker][m], row'[m], Cand(m)', Phase(m)', rec'.att,
            failures[m], effect[m], faults')
  BY <1>3, <1>4, SoundRecoverEnds
<1> QED
  BY <1>4, <1>5 DEF Holds, NodeSound, NodeFollows

\* The steps of a worker keep the invariant of every other node.
LEMMA WorkerOther ==
  ASSUME SingleInv, TypeInv', NEW n \in Nodes, WorkerStep(Ticker, n) \/ Abort(Ticker, n),
         NEW m \in Nodes, m # n
  PROVE  Holds(m)
<1>1. TypeInv /\ TypeOK /\ Ticker \in Loops
  BY EngineAssumption DEF SingleInv, InflightInv, TypeInv
<1>2. UNCHANGED rec /\ work'[Ticker][m] = work[Ticker][m]
  <2>1. Move(Ticker, n)
    BY <1>1, WorkerStepMove
  <2> QED
    BY <1>1, <2>1 DEF Move, Becomes, TypeInv, TypeOK
<1>3. effect'[m] = effect[m]
  BY <1>1, WorkerEffect
<1>4. failures'[m] = failures[m] /\ faults' \in {faults, faults + 1}
  BY <1>1
  DEF WorkerStep, ClaimNonExecutable, FinishRouter, RejectNode, TrackInflight,
      ClaimAttempt, Dispatch, ExecuteOk, ExecuteError, ExecuteCancelled,
      ExecuteTimeout, ExecuteUncertain, CheckResult, CommitResult, UncertainNode,
      CancelledNode, RecordAttemptFailure, RequeueNode, Abort, Fault, histVars, TypeInv, TypeOK
<1>5. RowFrame(m)
  <2>1. ASSUME NEW a \in Attempts, NEW route, NEW known, CommitNodeSuccess(n, a, route, known)
        PROVE  RowFrame(m)
    BY <1>1, <2>1, CommitRows, SkippedNotBegun DEF RowFrame
  <2>2. work[Ticker][n].pc # "idle" => work[Ticker][n].att \in Attempts
    BY <1>1, NodeTypes
  <2>3. CASE FinishRouter(Ticker, n) \/ CommitResult(Ticker, n)
    <3>1. work[Ticker][n].att \in Attempts
      BY <2>2, <2>3 DEF FinishRouter, CommitResult
    <3>2. \/ \E route, known : CommitNodeSuccess(n, work[Ticker][n].att, route, known)
          \/ \E new : Append(n, new)
      BY <2>3 DEF FinishRouter, CommitResult
    <3> QED
      BY <1>1, <2>1, <3>1, <3>2, AppendRow DEF RowFrame
  <2>4. CASE ~(FinishRouter(Ticker, n) \/ CommitResult(Ticker, n))
    <3>1. UNCHANGED row \/ \E new : Append(n, new) \/ AppendTransition(n, new)
      BY <2>4
      DEF WorkerStep, ClaimNonExecutable, RejectNode, TrackInflight,
          ClaimAttempt, Dispatch, ExecuteOk, ExecuteError, ExecuteCancelled,
          ExecuteTimeout, ExecuteUncertain, CheckResult, UncertainNode,
          CancelledNode, RecordAttemptFailure, RequeueNode, Abort, dbVars
    <3> QED
      BY <1>1, <3>1, AppendRow, TransitionRow DEF RowFrame
  <2> QED
    BY <2>3, <2>4
<1> QED
  BY <1>1, <1>2, <1>3, <1>4, <1>5, FrameHolds DEF TypeInv, TypeOK

\* A node with a worker is not on Recover's list.
LEMMA Busy ==
  ASSUME SingleInv, NEW n \in Nodes, work[Ticker][n].pc # "idle"
  PROVE  Cand(n) = FALSE /\ Phase(n) = "none"
  BY DEF SingleInv, NodeSound, Sound, Owns, Cand, Phase

\* The values after a step of n's own worker, put together.
LEMMA SelfHolds ==
  ASSUME NEW n \in Nodes, UNCHANGED rec,
         Sound(n, work'[Ticker][n], row'[n], Cand(n), Phase(n), rec.att,
               failures'[n], effect'[n], faults'),
         Follows(n, work[Ticker][n], row[n], effect[n], work'[Ticker][n], row'[n])
  PROVE  Holds(n)
<1>1. Cand(n)' = Cand(n) /\ Phase(n)' = Phase(n)
  BY DEF Cand, Phase
<1> QED
  BY <1>1 DEF Holds, NodeSound, NodeFollows

\* The worker after SetPc and after Return.
LEMMA WorkerNew ==
  ASSUME TypeInv, NEW n \in Nodes
  PROVE  /\ \A pc : SetPc(Ticker, n, pc) =>
              work'[Ticker][n].pc = pc /\ work'[Ticker][n].att = work[Ticker][n].att
         /\ Return(Ticker, n) => work'[Ticker][n].pc = "idle"
         /\ work' = [work EXCEPT ![Ticker][n] = Idle] => work'[Ticker][n].pc = "idle"
<1>1. Ticker \in Loops /\ work[Ticker][n] \in Worker
  BY EngineAssumption DEF TypeInv, TypeOK
<1>2. ASSUME NEW pc, SetPc(Ticker, n, pc)
      PROVE  work'[Ticker][n].pc = pc /\ work'[Ticker][n].att = work[Ticker][n].att
  <2>1. work'[Ticker][n] = [work[Ticker][n] EXCEPT !.pc = pc]
    BY <1>1, <1>2 DEF SetPc, TypeInv, TypeOK
  <2> QED
    BY <1>1, <2>1 DEF Worker
<1>3. work' = [work EXCEPT ![Ticker][n] = Idle] => work'[Ticker][n].pc = "idle"
  BY <1>1, IdleType DEF TypeInv, TypeOK
<1> QED
  BY <1>2, <1>3 DEF Return

\* The steps up to the claim keep the invariant of the worker's own node.
LEMMA ClaimSelf ==
  ASSUME SingleInv, TypeInv', NEW n \in Nodes,
         \/ ClaimNonExecutable(Ticker, n) \/ TrackInflight(Ticker, n) \/ ClaimAttempt(Ticker, n)
  PROVE  Holds(n)
<1> DEFINE w == work[Ticker][n]
           w2 == work'[Ticker][n]
<1>1. /\ TypeInv /\ TypeOK /\ w \in Worker /\ w2 \in Worker /\ row[n] \in Row /\ row'[n] \in Row
      /\ failures[n] \in Nat /\ faults \in Nat /\ Cand(n) \in BOOLEAN
      /\ w.pc # "idle" => w.att \in Attempts
  BY NodeTypes, EngineAssumption DEF SingleInv, InflightInv, TypeInv, TypeOK
<1>2. Sound(n, w, row[n], Cand(n), Phase(n), rec.att, failures[n], effect[n], faults)
  BY DEF SingleInv, NodeSound
<1>3. /\ UNCHANGED <<rec, effect, failures, faults>>
      /\ w.pc \in {"listed", "tracked"}
  BY DEF ClaimNonExecutable, TrackInflight, ClaimAttempt, histVars
<1>4. ASSUME UNCHANGED row, w2.pc = "idle"
      PROVE  Holds(n)
  <2>1. /\ Sound(n, w2, row[n], Cand(n), Phase(n), rec.att, failures[n], effect[n], faults)
        /\ Follows(n, w, row[n], effect[n], w2, row[n])
    BY <1>1, <1>2, <1>3, <1>4, SoundRefused
  <2> QED
    BY <1>3, <1>4, <2>1, SelfHolds
<1>5. CASE ClaimNonExecutable(Ticker, n)
  <2>1. CASE Claimable(n)
    <3>1. row'[n] = OnNodeStarted(row[n], 1, FALSE) /\ row[n].status \in Open
      BY <1>1, <1>5, <2>1, AppendRow DEF ClaimNonExecutable, Claimable, Open
    <3>2. 1 \in Attempts
      BY AttemptBoundAssumption DEF Attempts
    <3>3. row'[n].status = "running"
      BY <1>1, <3>1, <3>2, StartedType
    <3>4. w2.pc = "routing" /\ w.pc = "listed" /\ n \in Routers
      BY <1>1, <1>5, <2>1, WorkerNew DEF ClaimNonExecutable
    <3>5. /\ Sound(n, w2, row'[n], Cand(n), Phase(n), rec.att, failures[n], effect[n], faults)
          /\ Follows(n, w, row[n], effect[n], w2, row'[n])
      BY <1>1, <1>2, <3>1, <3>3, <3>4, SoundClaimRouter
    <3> QED
      BY <1>3, <3>5, SelfHolds
  <2>2. CASE ~Claimable(n)
    BY <1>1, <1>4, <1>5, <2>2, WorkerNew DEF ClaimNonExecutable
  <2> QED
    BY <2>1, <2>2
<1>6. CASE TrackInflight(Ticker, n)
  <2>1. CASE n \in inflight
    BY <1>1, <1>4, <1>6, <2>1, WorkerNew DEF TrackInflight, dbVars
  <2>2. CASE n \notin inflight
    <3>1. /\ w.pc = "listed" /\ w2.pc = "tracked" /\ w2.att = w.att
          /\ n \notin Routers /\ UNCHANGED row
      BY <1>1, <1>6, <2>2, WorkerNew DEF TrackInflight, dbVars
    <3>2. /\ Sound(n, w2, row[n], Cand(n), Phase(n), rec.att, failures[n], effect[n], faults)
          /\ Follows(n, w, row[n], effect[n], w2, row[n])
      BY <1>1, <1>2, <3>1, SoundTrack
    <3> QED
      BY <1>3, <3>1, <3>2, SelfHolds
  <2> QED
    BY <2>1, <2>2
<1>7. CASE ClaimAttempt(Ticker, n)
  <2>1. CASE Claimable(n)
    <3>1. w.att \in Attempts /\ w.pc = "tracked"
      BY <1>1, <1>7 DEF ClaimAttempt
    <3>2. row'[n] = OnNodeStarted(row[n], w.att, TRUE) /\ row[n].status \in Open
      BY <1>1, <1>7, <2>1, AppendRow DEF ClaimAttempt, Claimable, Open
    <3>3. /\ row'[n].status = "running"
          /\ row'[n].count = Larger(row[n].count, w.att)
          /\ row'[n].latest = Larger(row[n].latest, w.att)
          /\ row'[n].att = [row[n].att EXCEPT ![w.att] = "running"]
      <4> HIDE DEF w
      <4>1. OnNodeStarted(row[n], w.att, TRUE).status = "running"
        BY <1>1, <3>1, StartedType
      <4>2. /\ OnNodeStarted(row[n], w.att, TRUE).count = Larger(row[n].count, w.att)
            /\ OnNodeStarted(row[n], w.att, TRUE).latest = Larger(row[n].latest, w.att)
            /\ OnNodeStarted(row[n], w.att, TRUE).att = [row[n].att EXCEPT ![w.att] = "running"]
        BY <1>1, <3>1, StartedFields
      <4> QED
        BY <3>2, <4>1, <4>2
    <3>4. w2.pc = "claimed" /\ w2.att = w.att
      BY <1>1, <1>7, <2>1, WorkerNew DEF ClaimAttempt
    <3>5. n \notin Routers
      BY <1>2, <3>1 DEF Sound, Budget
    <3>6. /\ Sound(n, w2, row'[n], Cand(n), Phase(n), rec.att, failures[n], effect[n], faults)
          /\ Follows(n, w, row[n], effect[n], w2, row'[n])
      BY <1>1, <1>2, <3>1, <3>2, <3>3, <3>4, <3>5, SoundClaim
    <3> QED
      BY <1>3, <3>6, SelfHolds
  <2>2. CASE ~Claimable(n)
    BY <1>1, <1>4, <1>7, <2>2, WorkerNew DEF ClaimAttempt
  <2> QED
    BY <2>1, <2>2
<1> QED
  BY <1>5, <1>6, <1>7

\* Dispatch, Execute and the check of its result keep the invariant of the
\* worker's own node.
LEMMA ExecuteSelf ==
  ASSUME SingleInv, TypeInv', NEW n \in Nodes,
         \/ Dispatch(Ticker, n) \/ ExecuteOk(Ticker, n) \/ ExecuteError(Ticker, n)
         \/ ExecuteCancelled(Ticker, n) \/ ExecuteTimeout(Ticker, n)
         \/ ExecuteUncertain(Ticker, n) \/ CheckResult(Ticker, n)
  PROVE  Holds(n)
<1> DEFINE w == work[Ticker][n]
           w2 == work'[Ticker][n]
<1>1. /\ TypeInv /\ TypeOK /\ w \in Worker /\ w2 \in Worker /\ row[n] \in Row
      /\ failures[n] \in Nat /\ faults \in Nat /\ Cand(n) \in BOOLEAN
      /\ Ticker \in Loops
  BY NodeTypes, EngineAssumption DEF SingleInv, InflightInv, TypeInv, TypeOK
<1>2. Sound(n, w, row[n], Cand(n), Phase(n), rec.att, failures[n], effect[n], faults)
  BY DEF SingleInv, NodeSound
<1>3. UNCHANGED <<rec, row>>
  BY DEF Dispatch, ExecuteOk, ExecuteError, ExecuteCancelled, ExecuteTimeout,
         ExecuteUncertain, CheckResult, dbVars
<1>4. faults' \in {faults, faults + 1}
  BY DEF Dispatch, ExecuteOk, ExecuteError, ExecuteCancelled, ExecuteTimeout,
         ExecuteUncertain, CheckResult, Fault
<1>5. ASSUME w.pc \in {"claimed", "exec", "ok"}, w2.att = w.att, UNCHANGED failures,
             w2.pc \in {"exec", "ok", "uncertain", "cancel", "commit"},
             w2.pc = "exec" => w.pc = "claimed",
             w2.pc = "uncertain" => faults' = faults + 1
      PROVE  Holds(n)
  <2>1. /\ Sound(n, w2, row[n], Cand(n), Phase(n), rec.att, failures[n], effect'[n], faults')
        /\ Follows(n, w, row[n], effect[n], w2, row[n])
    <3> HIDE DEF w, w2
    <3> QED
      BY <1>1, <1>2, <1>4, <1>5, SoundAdvance
  <2> QED
    BY <1>3, <1>5, <2>1, SelfHolds
<1>6. ASSUME w.pc = "exec", w2.pc = "fail", w2.att = w.att, failures'[n] = failures[n] + 1,
             Guarded(n) => effect'[n] = "clear"
      PROVE  Holds(n)
  <2>1. /\ Sound(n, w2, row[n], Cand(n), Phase(n), rec.att, failures[n] + 1, effect'[n], faults')
        /\ Follows(n, w, row[n], effect[n], w2, row[n])
    BY <1>1, <1>2, <1>4, <1>6, SoundFail
  <2> QED
    BY <1>3, <1>6, <2>1, SelfHolds
<1>7. CASE Dispatch(Ticker, n)
  BY <1>1, <1>5, <1>7, WorkerNew DEF Dispatch
<1>8. CASE ExecuteOk(Ticker, n)
  <2>1. PICK r \in Routes \cup {Always} :
          work' = [work EXCEPT ![Ticker][n].pc = "ok", ![Ticker][n].route = r]
    BY <1>8 DEF ExecuteOk
  <2>2. w2 = [w EXCEPT !.pc = "ok", !.route = r]
    BY <1>1, <2>1 DEF TypeOK
  <2>3. w2.pc = "ok" /\ w2.att = w.att
    BY <1>1, <2>2 DEF Worker
  <2> QED
    BY <1>5, <1>8, <2>3 DEF ExecuteOk
<1>9. CASE ExecuteError(Ticker, n)
  <2>1. Guarded(n) => effect'[n] = "clear"
    BY <1>1, <1>9 DEF ExecuteError, TypeOK
  <2>2. CASE SetPc(Ticker, n, "cancel") /\ UNCHANGED failures
    BY <1>1, <1>5, <1>9, <2>2, WorkerNew DEF ExecuteError
  <2>3. CASE SetPc(Ticker, n, "fail") /\ failures' = [failures EXCEPT ![n] = @ + 1]
    BY <1>1, <1>6, <1>9, <2>1, <2>3, WorkerNew DEF ExecuteError, TypeOK
  <2> QED
    BY <1>9, <2>2, <2>3 DEF ExecuteError
<1>10. CASE ExecuteCancelled(Ticker, n)
  BY <1>1, <1>5, <1>10, WorkerNew DEF ExecuteCancelled, histVars
<1>11. CASE ExecuteTimeout(Ticker, n)
  <2>1. w.pc = "exec" /\ w2.pc = TimeoutOutcome(n) /\ w2.att = w.att /\ faults' = faults + 1
    BY <1>1, <1>11, WorkerNew DEF ExecuteTimeout, Fault
  <2>2. CASE Guarded(n)
    BY <1>5, <1>11, <2>1, <2>2 DEF ExecuteTimeout, TimeoutOutcome
  <2>3. CASE ~Guarded(n)
    BY <1>1, <1>6, <1>11, <2>1, <2>3 DEF ExecuteTimeout, TimeoutOutcome, TypeOK
  <2> QED
    BY <2>2, <2>3
<1>12. CASE ExecuteUncertain(Ticker, n)
  BY <1>1, <1>5, <1>12, WorkerNew DEF ExecuteUncertain, Fault, histVars
<1>13. CASE CheckResult(Ticker, n)
  BY <1>1, <1>5, <1>13, WorkerNew DEF CheckResult, Fault, histVars
<1> QED
  BY <1>7, <1>8, <1>9, <1>10, <1>11, <1>12, <1>13

\* The steps that end with an event of the node keep its invariant.
LEMMA OutcomeSelf ==
  ASSUME SingleInv, TypeInv', NEW n \in Nodes,
         \/ FinishRouter(Ticker, n) \/ RejectNode(Ticker, n) \/ CommitResult(Ticker, n)
         \/ UncertainNode(Ticker, n) \/ CancelledNode(Ticker, n)
         \/ RecordAttemptFailure(Ticker, n) \/ RequeueNode(Ticker, n) \/ Abort(Ticker, n)
  PROVE  Holds(n)
<1> DEFINE w == work[Ticker][n]
           w2 == work'[Ticker][n]
<1>1. /\ TypeInv /\ TypeOK /\ w \in Worker /\ w2 \in Worker /\ row[n] \in Row /\ row'[n] \in Row
      /\ failures[n] \in Nat /\ faults \in Nat /\ Cand(n) \in BOOLEAN
      /\ Ticker \in Loops
  BY NodeTypes, EngineAssumption DEF SingleInv, InflightInv, TypeInv, TypeOK
<1>2. Sound(n, w, row[n], Cand(n), Phase(n), rec.att, failures[n], effect[n], faults)
  BY DEF SingleInv, NodeSound
<1>3. UNCHANGED <<rec, effect, failures>> /\ w.pc # "idle"
  BY DEF FinishRouter, RejectNode, CommitResult, UncertainNode, CancelledNode,
         RecordAttemptFailure, RequeueNode, Abort, histVars
<1>4. Cand(n) = FALSE /\ Phase(n) = "none"
  BY <1>3, Busy
<1>17. w.att \in Attempts /\ w.att \in 0 .. AttemptBound
  <2>1. w.att \in Attempts
    BY <1>1, <1>3, NodeTypes
  <2> QED
    BY <2>1 DEF Attempts
<1>5. /\ w.pc \in Claimed \cup {"routing"} => row[n].status \in {"running", "cancel_requested"}
      /\ w.pc = "listed" => row[n].status \in Open \cup {"cancelled"}
  BY <1>2 DEF Sound, Owns
<1> HIDE DEF w, w2
\* The node is over, or still being cancelled.
<1>6. ASSUME UNCHANGED faults, w2.pc = "idle",
             row'[n].status \in Terminal \cup {"cancel_requested"},
             row[n].status \in Terminal => row'[n].status = row[n].status,
             row'[n].status = "succeeded" => Begun(w, row[n])
      PROVE  Holds(n)
  <2>1. Begun(w2, row'[n]) => Begun(w, row[n])
    BY <1>6 DEF Begun, Terminal
  <2>2. /\ Sound(n, w2, row'[n], FALSE, "none", rec.att, failures[n], effect[n], faults)
        /\ Follows(n, w, row[n], effect[n], w2, row'[n])
    BY <1>1, <1>2, <1>6, <2>1, SoundSettled
  <2> QED
    BY <1>3, <1>4, <1>6, <2>2, SelfHolds, ZenonT(40) DEF w, w2
<1>7. ASSUME NEW route, NEW known, CommitNodeSuccess(n, w.att, route, known),
             w.pc \in Claimed \cup {"routing"}, UNCHANGED faults, w2.pc = "idle"
      PROVE  Holds(n)
  <2>1. row'[n].status = IF row[n].status = "cancel_requested" THEN "cancelled" ELSE "succeeded"
    BY <1>1, <1>17, <1>5, <1>7, CommitRows
  <2> QED
    BY <1>5, <1>6, <1>7, <2>1 DEF Terminal, Begun
<1>8. ASSUME Append(n, OnNodeCancelled(row[n], w.att)),
             w.pc \in Claimed \cup {"routing"}, UNCHANGED faults, w2.pc = "idle"
      PROVE  Holds(n)
  <2>1. row'[n] = OnNodeCancelled(row[n], w.att)
    BY <1>1, <1>8, AppendRow
  <2>2. row'[n].status = "cancelled"
    BY <1>1, <1>17, <1>5, <1>8, <2>1, CancelledType DEF Terminal
  <2> QED
    BY <1>5, <1>6, <1>8, <2>2 DEF Terminal
<1>9. CASE FinishRouter(Ticker, n)
  <2>1. w.pc = "routing" /\ w2.pc = "idle" /\ UNCHANGED faults
    BY <1>1, <1>9, WorkerNew DEF FinishRouter, w, w2
  <2>2. \/ CommitNodeSuccess(n, w.att, Always, TRUE)
        \/ Append(n, OnNodeCancelled(row[n], w.att))
    BY <1>9 DEF FinishRouter, w
  <2> QED
    BY <1>7, <1>8, <2>1, <2>2
<1>10. CASE RejectNode(Ticker, n)
  <2> DEFINE r == EnsureRunNode(row[n])
  <2>1. PICK keyed \in BOOLEAN : Append(n, OnNodeTerminal(r, "failed", w.att, keyed))
    BY <1>10 DEF RejectNode, w
  <2>2. w.pc = "listed" /\ w2.pc = "idle" /\ UNCHANGED faults
    BY <1>1, <1>10, WorkerNew DEF RejectNode, w, w2
  <2>3. r \in Row /\ r.status = IF row[n].status = "absent" THEN "pending" ELSE row[n].status
    BY <1>1, EnsureType
  <2> HIDE DEF r
  <2>4. OnNodeTerminal(r, "failed", w.att, keyed).status
          = IF r.status \in Cancelling THEN r.status ELSE "failed"
    BY <1>17, <2>3, TerminalType
  <2>5. row'[n] = OnNodeTerminal(r, "failed", w.att, keyed)
    BY <1>1, <2>1, AppendRow
  <2>6. row'[n].status = IF row[n].status = "cancelled" THEN "cancelled" ELSE "failed"
    BY <1>5, <2>2, <2>3, <2>4, <2>5 DEF Cancelling, Open
  <2>7. row[n].status \in Terminal => row[n].status = "cancelled"
    BY <1>5, <2>2 DEF Open, Terminal
  <2> QED
    BY <1>6, <2>2, <2>6, <2>7 DEF Terminal
<1>11. CASE CommitResult(Ticker, n)
  <2>1. /\ w.pc = "commit" /\ w2.pc = "idle" /\ UNCHANGED faults
        /\ CommitNodeSuccess(n, w.att, w.route, TRUE)
    BY <1>1, <1>11, WorkerNew DEF CommitResult, w, w2
  <2> QED
    BY <1>7, <2>1 DEF Claimed
<1>12. CASE UncertainNode(Ticker, n)
  <2>1. w.pc = "uncertain" /\ w2.pc = "idle" /\ UNCHANGED faults
    BY <1>1, <1>12, WorkerNew DEF UncertainNode, w, w2
  <2>2. row'[n] = OnNodeTerminal(row[n], "uncertain", w.att, FALSE)
    BY <1>1, <1>12, AppendRow DEF UncertainNode, w
  <2>3. row'[n].status = IF row[n].status = "running" THEN "uncertain" ELSE "cancel_requested"
    <3>1. OnNodeTerminal(row[n], "uncertain", w.att, FALSE).status
            = IF row[n].status \in Cancelling THEN row[n].status ELSE "uncertain"
      BY <1>1, <1>17, TerminalFields
    <3>2. row[n].status \in {"running", "cancel_requested"}
      BY <1>5, <2>1 DEF Claimed
    <3> QED
      BY <2>2, <3>1, <3>2 DEF Cancelling
  <2>4. CASE row[n].status = "running"
    <3>1. w.att = row[n].count /\ row[n].count \in Nat
      BY <1>1, <1>2, <2>1 DEF Sound, Budget, Claimed, Row
    <3>2. /\ row'[n].count = row[n].count /\ row'[n].latest = row[n].latest
          /\ \A b \in Attempts : b # w.att => row'[n].att[b] = row[n].att[b]
      <4>1. /\ OnNodeTerminal(row[n], "uncertain", w.att, FALSE).count
                 = IF row[n].status \in Cancelling THEN row[n].count ELSE Larger(row[n].count, w.att)
            /\ OnNodeTerminal(row[n], "uncertain", w.att, FALSE).latest = row[n].latest
            /\ \A b \in Attempts : b # w.att =>
                 OnNodeTerminal(row[n], "uncertain", w.att, FALSE).att[b] = row[n].att[b]
        BY <1>1, <1>17, TerminalFields
      <4> QED
        BY <2>2, <2>4, <3>1, <4>1 DEF Cancelling, Larger
    <3>3. /\ Sound(n, w2, row'[n], Cand(n), Phase(n), rec.att, failures[n], effect[n], faults)
          /\ Follows(n, w, row[n], effect[n], w2, row'[n])
      BY <1>1, <1>2, <2>1, <2>3, <2>4, <3>2, SoundUncertain
    <3> QED
      BY <1>3, <2>1, <3>3, SelfHolds DEF w, w2
  <2>5. CASE row[n].status # "running"
    BY <1>5, <1>6, <2>1, <2>3, <2>5 DEF Claimed, Terminal
  <2> QED
    BY <2>4, <2>5
<1>13. CASE CancelledNode(Ticker, n)
  <2>1. /\ w.pc = "cancel" /\ w2.pc = "idle" /\ UNCHANGED faults
        /\ Append(n, OnNodeCancelled(row[n], w.att))
    BY <1>1, <1>13, WorkerNew DEF CancelledNode, w, w2
  <2> QED
    BY <1>8, <2>1 DEF Claimed
<1>14. CASE RecordAttemptFailure(Ticker, n)
  <2>1. w.pc = "fail" /\ UNCHANGED faults
    BY <1>14 DEF RecordAttemptFailure, w
  <2>2. CASE Exhausted(n, w.att)
    <3>1. w2.pc = "idle" /\ row'[n] = OnNodeTerminal(row[n], "failed", w.att, FALSE)
      BY <1>1, <1>14, <2>2, WorkerNew, AppendRow DEF RecordAttemptFailure, w, w2
    <3>2. row'[n].status = IF row[n].status = "running" THEN "failed" ELSE "cancel_requested"
      <4>1. OnNodeTerminal(row[n], "failed", w.att, FALSE).status
              = IF row[n].status \in Cancelling THEN row[n].status ELSE "failed"
        BY <1>1, <1>17, TerminalFields
      <4>2. row[n].status \in {"running", "cancel_requested"}
        BY <1>5, <2>1 DEF Claimed
      <4> QED
        BY <3>1, <4>1, <4>2 DEF Cancelling
    <3> QED
      BY <1>5, <1>6, <2>1, <3>1, <3>2 DEF Claimed, Terminal
  <2>3. CASE ~Exhausted(n, w.att)
    <3>1. /\ w2.pc = "requeue" /\ row'[n] = OnNodeAttemptFailed(row[n], w.att)
      BY <1>1, <1>14, <2>3, WorkerNew, AppendRow DEF RecordAttemptFailure, w, w2
    <3>2. w.att < MaxAttempts[n]
      BY <1>17, <2>3, EngineAssumption DEF Exhausted, Attempts
    <3>3. /\ row'[n].status = IF row[n].status = "running" THEN "eligible" ELSE row[n].status
          /\ row'[n].count = row[n].count /\ row'[n].latest = row[n].latest
          /\ row'[n].att = IF row[n].att[w.att] = "none" THEN row[n].att
                           ELSE [row[n].att EXCEPT ![w.att] = "failed"]
      <4> DEFINE r2 == OnNodeAttemptFailed(row[n], w.att)
      <4>1. /\ r2.status = IF row[n].status = "running" THEN "eligible" ELSE row[n].status
            /\ r2.count = row[n].count /\ r2.latest = row[n].latest
            /\ r2.att = IF row[n].att[w.att] = "none" THEN row[n].att
                        ELSE [row[n].att EXCEPT ![w.att] = "failed"]
        BY <1>1, <1>17, AttemptFailedType, AttemptFailedFields
      <4> QED
        BY <3>1, <4>1
    <3>4. /\ Sound(n, w2, row'[n], Cand(n), Phase(n), rec.att, failures[n], effect[n], faults)
          /\ Follows(n, w, row[n], effect[n], w2, row'[n])
      BY <1>1, <1>2, <1>17, <2>1, <3>1, <3>2, <3>3, SoundAttemptFailed
    <3> QED
      BY <1>3, <2>1, <3>4, SelfHolds DEF w, w2
  <2> QED
    BY <2>2, <2>3
<1>15. CASE RequeueNode(Ticker, n)
  <2>1. w.pc = "requeue" /\ w2.pc = "idle" /\ UNCHANGED faults
    BY <1>1, <1>15, WorkerNew DEF RequeueNode, w, w2
  <2>2. row'[n] = IF row[n].status \notin Cancelling
                  THEN OnNodeRequeued(row[n], w.att, FALSE) ELSE row[n]
    BY <1>1, <1>15, TransitionRow DEF RequeueNode, w
  <2>3. /\ row'[n].status = IF row[n].status \in Cancelling THEN row[n].status ELSE "eligible"
        /\ row'[n].count = row[n].count /\ row'[n].latest = row[n].latest
        /\ row'[n].att = row[n].att
    <3> DEFINE r2 == OnNodeRequeued(row[n], w.att, FALSE)
    <3>1. /\ r2.status = IF row[n].status \in Cancelling THEN row[n].status ELSE "eligible"
          /\ r2.count = row[n].count /\ r2.latest = row[n].latest /\ r2.att = row[n].att
      BY <1>1, <1>17, RequeuedFields
    <3> HIDE DEF r2
    <3>2. row'[n] = IF row[n].status \notin Cancelling THEN r2 ELSE row[n]
      BY <2>2 DEF r2
    <3> QED
      BY <3>1, <3>2
  <2>4. /\ Sound(n, w2, row'[n], FALSE, "none", rec.att, failures[n], effect[n], faults)
        /\ Follows(n, w, row[n], effect[n], w2, row'[n])
    BY <1>1, <1>2, <2>1, <2>3, SoundRequeued
  <2> QED
    BY <1>3, <1>4, <2>1, <2>4, SelfHolds DEF w, w2
<1>16. CASE Abort(Ticker, n)
  <2>1. w2.pc = "idle" /\ faults' = faults + 1 /\ UNCHANGED row
    BY <1>1, <1>16, WorkerNew DEF Abort, Fault, dbVars, w2
  <2>2. /\ Sound(n, w2, row[n], Cand(n), Phase(n), rec.att, failures[n], effect[n], faults + 1)
        /\ Follows(n, w, row[n], effect[n], w2, row[n])
    BY <1>1, <1>2, <2>1, SoundLost
  <2> QED
    BY <1>3, <2>1, <2>2, SelfHolds DEF w, w2
<1> QED
  BY <1>9, <1>10, <1>11, <1>12, <1>13, <1>14, <1>15, <1>16

-----------------------------------------------------------------------------
(***************************************************************************)
(* Recover.                                                                *)
(***************************************************************************)
\* Recover goes on with another candidate, or returns.
LEMMA ListNext ==
  ASSUME SingleInv, NEW n \in Nodes, NextCandidate(n) \/ EndRecover
  PROVE  /\ RecShape' /\ rec'.cur = {} /\ rec'.phase = "none"
         /\ rec'.todo \subseteq rec.todo \ {n}
<1>1. rec \in [todo : SUBSET Nodes, canc : SUBSET Nodes, cur : SUBSET Nodes,
               phase : RecPhase, att : 0 .. AttemptBound]
  BY DEF SingleInv, InflightInv, TypeInv, TypeOK
<1>2. NoRec.cur = {} /\ NoRec.phase = "none" /\ NoRec.todo = {}
  BY DEF NoRec
<1>3. CASE EndRecover
  BY <1>2, <1>3 DEF EndRecover, RecShape
<1>4. CASE NextCandidate(n) /\ ~EndRecover
  <2>1. /\ rec.todo \ {n} # {} /\ loop' = loop
        /\ rec' = [rec EXCEPT !.todo = @ \ {n}, !.cur = {}, !.phase = "none"]
    BY <1>4 DEF NextCandidate
  <2>2. rec'.cur = {} /\ rec'.phase = "none" /\ rec'.todo = rec.todo \ {n}
    BY <1>1, <2>1
  <2>3. loop[Ticker] = "recovering"
    BY <1>2, <2>1 DEF SingleInv, RecShape
  <2> QED
    BY <2>1, <2>2, <2>3 DEF RecShape
<1> QED
  BY <1>3, <1>4

\* Recover goes on with the same candidate.
LEMMA ListPhase ==
  ASSUME SingleInv, NEW n \in rec.todo \cup rec.cur, NEW p, NEW a, InPhase(n, p, a), p # "none",
         p = "resume" => a \in Attempts /\ Idem(n),
         p \in {"query", "check", "requeue"} => ~Idem(n)
  PROVE  /\ RecShape' /\ rec'.cur = {n} /\ rec'.phase = p /\ rec'.att = a
         /\ rec'.todo = rec.todo
<1>1. rec \in [todo : SUBSET Nodes, canc : SUBSET Nodes, cur : SUBSET Nodes,
               phase : RecPhase, att : 0 .. AttemptBound]
  BY DEF SingleInv, InflightInv, TypeInv, TypeOK
<1>2. /\ loop' = loop
      /\ rec' = [rec EXCEPT !.cur = {n}, !.phase = p, !.att = a]
  BY DEF InPhase
<1>3. rec'.cur = {n} /\ rec'.phase = p /\ rec'.att = a /\ rec'.todo = rec.todo
  BY <1>1, <1>2
<1>4. loop[Ticker] = "recovering"
  BY DEF SingleInv, RecShape, NoRec
<1> QED
  BY <1>2, <1>3, <1>4 DEF RecShape

\* A candidate has no worker, and is at the phase the step starts from.
LEMMA CandidateIdle ==
  ASSUME SingleInv, NEW n \in Nodes, RecoverAt(n)
  PROVE  /\ n \in rec.todo \cup rec.cur /\ Cand(n)
         /\ Phase(n) = rec.phase
         /\ work[Ticker][n].pc = "idle" /\ row[n].status \in Recoverable
         /\ \A m \in rec.cur : m = n
         /\ UNCHANGED <<run, work, inflight, op, faults, failures>>
<1>1. /\ n \in rec.todo \cup rec.cur
      /\ n \in rec.cur \/ rec.phase = "none"
      /\ UNCHANGED <<run, work, inflight, op, faults, failures>>
  <2>1. CASE RecoverNode(n)
    <3>1. n \in rec.todo /\ rec.phase = "none"
      BY <2>1 DEF RecoverNode
    <3>2. UNCHANGED <<run, work, inflight, op, faults, histVars>>
      BY <2>1 DEF RecoverNode
    <3> QED
      BY <3>1, <3>2 DEF histVars
  <2>2. CASE ResumeIdempotentAttempt(n) \/ CommitReconciled(n) \/ CheckAbsent(n) \/ SettleAbsent(n)
    BY <2>2
    DEF ResumeIdempotentAttempt, CommitReconciled, CheckAbsent, SettleAbsent, histVars, dbVars
  <2>3. CASE ReconcileNode(n) \/ ReconcileCancelledNode(n)
    BY <2>3 DEF ReconcileNode, ReconcileCancelledNode
  <2> QED
    BY <2>1, <2>2, <2>3 DEF RecoverAt
<1>2. Cand(n) /\ Phase(n) = rec.phase /\ \A m \in rec.cur : m = n
  BY <1>1 DEF Cand, Phase, SingleInv, RecShape
<1>3. Owns(work[Ticker][n], row[n], Cand(n), Phase(n))
  BY DEF SingleInv, NodeSound, Sound
<1>4. work[Ticker][n].pc = "idle" /\ row[n].status \in Recoverable
  BY <1>2, <1>3 DEF Owns
<1> QED
  BY <1>1, <1>2, <1>4

\* What Recover does with its list at a step.
LEMMA RecoverMoves ==
  ASSUME SingleInv, NEW n \in Nodes, RecoverAt(n)
  PROVE  /\ RecShape'
         /\ \/ rec'.cur = {} /\ rec'.phase = "none" /\ rec'.todo \subseteq rec.todo \ {n}
            \/ rec'.cur = {n} /\ rec'.todo = rec.todo
<1>1. n \in rec.todo \cup rec.cur
  BY CandidateIdle
<1>2. ASSUME NextCandidate(n) \/ EndRecover
      PROVE  /\ RecShape' /\ rec'.cur = {} /\ rec'.phase = "none"
             /\ rec'.todo \subseteq rec.todo \ {n}
  BY <1>2, ListNext
<1>3. ASSUME NEW p, NEW a, InPhase(n, p, a), p # "none",
             p = "resume" => a \in Attempts /\ Idem(n),
             p \in {"query", "check", "requeue"} => ~Idem(n)
      PROVE  RecShape' /\ rec'.cur = {n} /\ rec'.todo = rec.todo
  BY <1>1, <1>3, ListPhase
<1>4. CASE RecoverNode(n)
  <2> DEFINE a == row[n].latest
  <2>1. a \in 0 .. AttemptBound
    BY NodeTypes DEF SingleInv, InflightInv
  <2>2. \/ NextCandidate(n) \/ EndRecover
        \/ InPhase(n, "queryCancelled", a)
        \/ Contract[n] = "idempotent" /\ a > 0 /\ InPhase(n, "resume", a)
        \/ Contract[n] = "reconcilable" /\ InPhase(n, "query", 0)
    BY <1>4 DEF RecoverNode
  <2>3. a > 0 => a \in Attempts
    BY <2>1 DEF Attempts
  <2> HIDE DEF a
  <2>4. CASE InPhase(n, "queryCancelled", a)
    BY <1>3, <2>4
  <2>5. CASE Contract[n] = "idempotent" /\ a > 0 /\ InPhase(n, "resume", a)
    BY <1>3, <2>3, <2>5 DEF Idem
  <2>6. CASE Contract[n] = "reconcilable" /\ InPhase(n, "query", 0)
    BY <1>3, <2>6 DEF Idem
  <2> QED
    BY <1>2, <2>2, <2>4, <2>5, <2>6
<1>5. CASE ResumeIdempotentAttempt(n) \/ CommitReconciled(n) \/ SettleAbsent(n)
  BY <1>2, <1>5 DEF ResumeIdempotentAttempt, CommitReconciled, SettleAbsent
<1>6. CASE ReconcileNode(n)
  <2>1. /\ rec.phase = "query" /\ n \in rec.cur
        /\ \/ NextCandidate(n) \/ EndRecover
           \/ \E p \in {"commit", "commitNil", "check"} : InPhase(n, p, row[n].latest)
    BY <1>6 DEF ReconcileNode
  <2>2. ~Idem(n)
    BY <2>1 DEF SingleInv, RecShape
  <2> QED
    BY <1>2, <1>3, <2>1, <2>2
<1>7. CASE CheckAbsent(n)
  <2>1. /\ rec.phase = "check" /\ n \in rec.cur
        /\ \E p \in {"cancel", "requeue"} : InPhase(n, p, rec.att)
    BY <1>7 DEF CheckAbsent
  <2>2. ~Idem(n)
    BY <2>1 DEF SingleInv, RecShape
  <2> QED
    BY <1>3, <2>1, <2>2
<1>8. CASE ReconcileCancelledNode(n)
  <2>1. \/ NextCandidate(n) \/ InPhase(n, "cancel", row[n].latest)
    BY <1>8 DEF ReconcileCancelledNode
  <2> QED
    BY <1>2, <1>3, <2>1
<1> QED
  BY <1>4, <1>5, <1>6, <1>7, <1>8 DEF RecoverAt

\* A step of Recover at one candidate keeps the invariant of every other node.
LEMMA RecoverOther ==
  ASSUME SingleInv, TypeInv', NEW n \in Nodes, RecoverAt(n), NEW m \in Nodes, m # n
  PROVE  Holds(m)
<1>1. TypeInv /\ TypeOK /\ faults \in Nat
  BY NodeTypes DEF SingleInv, InflightInv, TypeInv
<1>2. /\ UNCHANGED <<work, faults, failures>> /\ m \notin rec.cur
  BY CandidateIdle
<1>3. (Cand(m)' => Cand(m)) /\ Phase(m)' = "none"
  BY <1>2, RecoverMoves DEF Cand, Phase
<1>4. effect'[m] = effect[m]
  BY <1>1
  DEF RecoverAt, RecoverNode, ResumeIdempotentAttempt, ReconcileNode, CommitReconciled,
      CheckAbsent, SettleAbsent, ReconcileCancelledNode, Confirmed, Absent, histVars, TypeOK
<1>5. RowFrame(m)
  <2>1. CASE CommitReconciled(n)
    <3>1. /\ CommitNodeSuccess(n, rec.att, Always, rec.phase = "commit")
          /\ rec.att \in Attempts
      BY <1>1, <2>1 DEF CommitReconciled, TypeInv, RecOK
    <3> QED
      BY <1>1, <3>1, CommitRows, SkippedNotBegun DEF RowFrame
  <2>2. CASE ~CommitReconciled(n)
    <3>1. UNCHANGED row \/ \E new : Append(n, new) \/ AppendTransition(n, new)
      BY <2>2
      DEF RecoverAt, RecoverNode, ResumeIdempotentAttempt, ReconcileNode,
          CheckAbsent, SettleAbsent, ReconcileCancelledNode, dbVars
    <3> QED
      BY <1>1, <3>1, AppendRow, TransitionRow DEF RowFrame
  <2> QED
    BY <2>1, <2>2
<1> QED
  BY <1>1, <1>2, <1>3, <1>4, <1>5, FrameHolds

\* A step of Recover keeps the invariant of its candidate.
LEMMA RecoverSelf ==
  ASSUME SingleLoop, SingleInv, TypeInv', NEW n \in Nodes, RecoverAt(n)
  PROVE  Holds(n)
<1> DEFINE w == work[Ticker][n]
<1>1. /\ TypeInv /\ TypeOK /\ w \in Worker /\ row[n] \in Row /\ row'[n] \in Row
      /\ failures[n] \in Nat /\ faults \in Nat
  BY NodeTypes, EngineAssumption DEF SingleInv, InflightInv, TypeInv, TypeOK
<1>2. /\ n \in rec.todo \cup rec.cur /\ Cand(n) /\ Phase(n) = rec.phase
      /\ w.pc = "idle" /\ row[n].status \in Recoverable
      /\ UNCHANGED <<work, faults, failures>>
  BY CandidateIdle
<1>3. Sound(n, w, row[n], Cand(n), rec.phase, rec.att, failures[n], effect[n], faults)
  BY <1>2 DEF SingleInv, NodeSound
<1>4. row[n].status \in {"uncertain", "running", "reconciling", "cancel_requested"}
  BY <1>2 DEF Recoverable
<1>5. work'[Ticker][n] = w /\ failures'[n] = failures[n] /\ faults' = faults
  BY <1>2
\* Recover is done with the node.
<1>6. ASSUME NextCandidate(n),
             row'[n].status \in Terminal \cup {"waiting", "cancel_requested"},
             row'[n].status \in {"waiting", "succeeded"} => row[n].status # "cancel_requested"
      PROVE  Holds(n)
  <2>1. Cand(n)' = FALSE /\ Phase(n)' = "none"
    BY <1>6, ListNext DEF Cand, Phase
  <2>2. Begun(w, row'[n]) => Begun(w, row[n])
    BY <1>2, <1>4, <1>6 DEF Begun, Terminal
  <2>3. row[n].status \notin Terminal
    BY <1>4 DEF Terminal
  <2>4. /\ Sound(n, w, row'[n], FALSE, "none", rec'.att, failures[n], effect'[n], faults)
        /\ Follows(n, w, row[n], effect[n], w, row'[n])
    <3> HIDE DEF w
    <3> QED
      BY <1>1, <1>2, <1>3, <1>6, <2>2, <2>3, SoundSettled
  <2> QED
    BY <1>5, <2>1, <2>4 DEF Holds, NodeSound, NodeFollows
\* Recover goes on with the node.
<1>7. ASSUME NEW p, NEW a, InPhase(n, p, a), p # "none", UNCHANGED row,
             p = "resume" => a \in Attempts /\ a = row[n].latest /\ Idem(n),
             p \in {"query", "check", "requeue"} => ~Idem(n),
             p \in {"check", "requeue"} /\ Guarded(n) => effect'[n] = "clear"
      PROVE  Holds(n)
  <2>1. rec'.cur = {n} /\ rec'.phase = p /\ rec'.att = a
    BY <1>2, <1>7, ListPhase
  <2>2. Cand(n)' = TRUE /\ Phase(n)' = p
    BY <2>1 DEF Cand, Phase
  <2>3. Sound(n, w, row[n], TRUE, p, a, failures[n], effect'[n], faults)
    <3> HIDE DEF w
    <3> QED
      BY <1>1, <1>2, <1>3, <1>7, SoundPhase
  <2>4. Follows(n, w, row[n], effect[n], w, row[n])
    BY <1>2 DEF Follows
  <2> QED
    BY <1>5, <1>7, <2>1, <2>2, <2>3, <2>4 DEF Holds, NodeSound, NodeFollows
\* Nothing happens to the node.
<1>8. ASSUME NextCandidate(n) \/ EndRecover, UNCHANGED <<row, effect>>
      PROVE  Holds(n)
  <2>1. (Cand(n)' => Cand(n)) /\ Phase(n)' = "none"
    BY <1>8, ListNext DEF Cand, Phase
  <2>2. RowFrame(n)
    BY <1>8 DEF RowFrame
  <2> QED
    BY <1>1, <1>2, <1>8, <2>1, <2>2, FrameHolds
<1>9. ASSUME AppendTransition(n, OnNodeWaiting(row[n])), NextCandidate(n)
      PROVE  Holds(n)
  <2>1. row'[n] = IF row[n].status \notin Cancelling THEN OnNodeWaiting(row[n]) ELSE row[n]
    BY <1>1, <1>9, TransitionRow
  <2>2. OnNodeWaiting(row[n]).status = IF row[n].status \in Cancelling THEN row[n].status ELSE "waiting"
    BY <1>1, WaitingType
  <2>3. row'[n].status = IF row[n].status = "cancel_requested" THEN "cancel_requested" ELSE "waiting"
    BY <1>4, <2>1, <2>2 DEF Cancelling
  <2> QED
    BY <1>6, <1>9, <2>3
<1>10. ASSUME NEW a \in 0 .. AttemptBound, Append(n, OnNodeCancelled(row[n], a)), NextCandidate(n)
       PROVE  Holds(n)
  <2>1. row'[n] = OnNodeCancelled(row[n], a)
    BY <1>1, <1>10, AppendRow
  <2>2. row'[n].status = "cancelled"
    BY <1>1, <1>4, <2>1, CancelledType DEF Terminal
  <2> QED
    BY <1>6, <1>10, <2>2 DEF Terminal
<1>11. ASSUME NEW a \in Attempts, Append(n, OnNodeTerminal(row[n], "failed", a, FALSE)),
              NextCandidate(n)
       PROVE  Holds(n)
  <2>1. row'[n] = OnNodeTerminal(row[n], "failed", a, FALSE)
    BY <1>1, <1>11, AppendRow
  <2>2. OnNodeTerminal(row[n], "failed", a, FALSE).status
          = IF row[n].status \in Cancelling THEN row[n].status ELSE "failed"
    BY <1>1, TerminalFields
  <2>3. row'[n].status = IF row[n].status = "cancel_requested" THEN "cancel_requested" ELSE "failed"
    BY <1>4, <2>1, <2>2 DEF Cancelling
  <2> QED
    BY <1>6, <1>11, <2>3 DEF Terminal
<1>12. ASSUME NEW a \in 0 .. AttemptBound, AppendTransition(n, OnNodeRequeued(row[n], a, FALSE)),
              NextCandidate(n), UNCHANGED effect, ~Idem(n), Guarded(n) => effect[n] = "clear"
       PROVE  Holds(n)
  <2>1. row'[n] = IF row[n].status \notin Cancelling THEN OnNodeRequeued(row[n], a, FALSE) ELSE row[n]
    BY <1>1, <1>12, TransitionRow
  <2>2. CASE row[n].status = "cancel_requested"
    BY <1>6, <1>12, <2>1, <2>2 DEF Cancelling
  <2>3. CASE row[n].status # "cancel_requested"
    <3>1. row'[n] = OnNodeRequeued(row[n], a, FALSE)
      BY <1>4, <2>1, <2>3 DEF Cancelling
    <3> DEFINE r2 == OnNodeRequeued(row[n], a, FALSE)
    <3>2. /\ r2.status = IF row[n].status \in Cancelling THEN row[n].status ELSE "eligible"
          /\ r2.count = row[n].count /\ r2.latest = row[n].latest /\ r2.att = row[n].att
      BY <1>1, RequeuedFields
    <3> HIDE DEF r2
    <3>3. \A ra2 : /\ Sound(n, w, r2, FALSE, "none", ra2, failures[n], effect[n], faults)
                    /\ Follows(n, w, row[n], effect[n], w, r2)
      <4>1. r2 \in Row
        BY <1>1, <3>1 DEF r2
      <4>2. /\ row[n].status \in {"uncertain", "running", "reconciling"}
            /\ ~Idem(n) /\ (Guarded(n) => effect[n] = "clear")
        BY <1>4, <1>12, <2>3
      <4>3. w.pc = "idle"
        BY <1>2
      <4> HIDE DEF w
      <4> QED
        BY <1>1, <1>3, <3>2, <4>1, <4>2, <4>3, SoundRequeued
    <3>4. Cand(n)' = FALSE /\ Phase(n)' = "none"
      BY <1>12, ListNext DEF Cand, Phase
    <3>5. row'[n] = r2 /\ effect'[n] = effect[n]
      BY <1>12, <3>1 DEF r2
    <3> QED
      BY <1>5, <3>3, <3>4, <3>5 DEF Holds, NodeSound, NodeFollows
  <2> QED
    BY <2>2, <2>3
<1>13. CASE RecoverNode(n)
  <2> DEFINE a == row[n].latest
  <2>1. UNCHANGED effect /\ 0 \in 0 .. AttemptBound /\ a \in 0 .. AttemptBound
    BY <1>1, <1>13, AttemptBoundAssumption DEF RecoverNode, histVars, Row
  <2>2. a > 0 => a \in Attempts
    BY <2>1 DEF Attempts
  <2>3. \/ EndRecover /\ UNCHANGED row
        \/ Append(n, OnNodeCancelled(row[n], a)) /\ NextCandidate(n)
        \/ InPhase(n, "queryCancelled", a) /\ UNCHANGED row
        \/ AppendTransition(n, OnNodeWaiting(row[n])) /\ NextCandidate(n)
        \/ /\ Contract[n] = "pure" /\ AppendTransition(n, OnNodeRequeued(row[n], 0, FALSE))
           /\ NextCandidate(n)
        \/ Contract[n] = "idempotent" /\ a > 0 /\ InPhase(n, "resume", a) /\ UNCHANGED row
        \/ /\ Contract[n] = "reconcilable" /\ Append(n, OnNodeReconciling(row[n]))
           /\ InPhase(n, "query", 0)
    BY <1>13 DEF RecoverNode
  <2> HIDE DEF a
  <2>4. CASE EndRecover /\ UNCHANGED row
    BY <1>8, <2>1, <2>4
  <2>5. CASE Append(n, OnNodeCancelled(row[n], a)) /\ NextCandidate(n)
    BY <1>10, <2>1, <2>5
  <2>6. CASE InPhase(n, "queryCancelled", a) /\ UNCHANGED row
    BY <1>7, <2>6
  <2>7. CASE AppendTransition(n, OnNodeWaiting(row[n])) /\ NextCandidate(n)
    BY <1>9, <2>7
  <2>8. CASE /\ Contract[n] = "pure" /\ AppendTransition(n, OnNodeRequeued(row[n], 0, FALSE))
             /\ NextCandidate(n)
    <3>1. ~Idem(n) /\ ~Guarded(n)
      BY <2>8 DEF Idem, Guarded
    <3> QED
      BY <1>12, <2>1, <2>8, <3>1
  <2>9. CASE Contract[n] = "idempotent" /\ a > 0 /\ InPhase(n, "resume", a) /\ UNCHANGED row
    <3>1. a \in Attempts /\ a = row[n].latest /\ Idem(n)
      BY <2>2, <2>9 DEF Idem, a
    <3> QED
      BY <1>7, <2>9, <3>1
  <2>10. CASE /\ Contract[n] = "reconcilable" /\ Append(n, OnNodeReconciling(row[n]))
              /\ InPhase(n, "query", 0)
    <3> DEFINE r2 == OnNodeReconciling(row[n])
    <3>1. row'[n] = r2
      BY <1>1, <2>10, AppendRow
    <3>2. /\ r2.status = IF row[n].status \in Cancelling THEN row[n].status ELSE "reconciling"
          /\ r2.count = row[n].count /\ r2.latest = row[n].latest /\ r2.att = row[n].att
          /\ r2 \in Row
      BY <1>1, ReconcilingType, WaitingFields
    <3> HIDE DEF r2
    <3>3. ~Idem(n)
      BY <2>10 DEF Idem
    <3>4. /\ Sound(n, w, r2, TRUE, "query", 0, failures[n], effect[n], faults)
          /\ Follows(n, w, row[n], effect[n], w, r2)
      <4> HIDE DEF w
      <4> QED
        BY <1>1, <1>2, <1>3, <3>2, <3>3, SoundReconciling
    <3>5. rec'.cur = {n} /\ rec'.phase = "query" /\ rec'.att = 0
      BY <1>2, <2>10, <3>3, ListPhase
    <3>6. Cand(n)' = TRUE /\ Phase(n)' = "query"
      BY <3>5 DEF Cand, Phase
    <3> QED
      BY <1>5, <2>1, <3>1, <3>4, <3>5, <3>6 DEF Holds, NodeSound, NodeFollows
  <2> QED
    BY <2>3, <2>4, <2>5, <2>6, <2>7, <2>8, <2>9, <2>10
<1>14. CASE ResumeIdempotentAttempt(n)
  <2>1. /\ rec.phase = "resume" /\ n \in rec.cur /\ NextCandidate(n) /\ UNCHANGED effect
        /\ Append(n, OnNodeRequeued(row[n], rec.att, TRUE))
    BY <1>14 DEF ResumeIdempotentAttempt, histVars
  <2>2. rec.att \in Attempts /\ rec.att \in 0 .. AttemptBound /\ rec.att > 0 /\ Idem(n)
    BY <2>1 DEF SingleInv, RecShape, Attempts
  <2> DEFINE r2 == OnNodeRequeued(row[n], rec.att, TRUE)
  <2>3. row'[n] = r2
    BY <1>1, <2>1, AppendRow
  <2>4. /\ r2.status = IF row[n].status \in Cancelling THEN row[n].status ELSE "eligible"
        /\ r2.count = IF row[n].status \notin Cancelling /\ rec.att > 0
                      THEN rec.att - 1 ELSE row[n].count
        /\ r2.latest = row[n].latest /\ r2.att = row[n].att
    BY <1>1, <2>2, RequeuedFields
  <2>5. r2 \in Row
    BY <1>1, <2>3
  <2> HIDE DEF r2
  <2>6. r2.count = IF row[n].status \in Cancelling THEN row[n].count ELSE rec.att - 1
    BY <2>2, <2>4
  <2>7. Sound(n, w, row[n], Cand(n), "resume", rec.att, failures[n], effect[n], faults)
    BY <1>3, <2>1
  <2>8. /\ Sound(n, w, r2, FALSE, "none", rec'.att, failures[n], effect[n], faults)
        /\ Follows(n, w, row[n], effect[n], w, r2)
    <3> HIDE DEF w
    <3> QED
      BY <1>1, <1>2, <2>2, <2>4, <2>5, <2>6, <2>7, SoundResumed
  <2>9. Cand(n)' = FALSE /\ Phase(n)' = "none"
    BY <2>1, ListNext DEF Cand, Phase
  <2> QED
    BY <1>5, <2>1, <2>3, <2>8, <2>9 DEF Holds, NodeSound, NodeFollows
<1>15. ASSUME Absent(n)
       PROVE  effect'[n] = "clear"
  <2>1. ~Executing(n)
    BY <1>2 DEF SingleLoop, Executing
  <2> QED
    BY <1>1, <1>15, <2>1 DEF Absent, TypeOK
<1>16. CASE ReconcileNode(n)
  <2> DEFINE a == row[n].latest
  <2>1. rec.phase = "query" /\ n \in rec.cur
    BY <1>16 DEF ReconcileNode
  <2>2. ~Idem(n) /\ (a > 0 => a \in Attempts)
    BY <1>1, <2>1 DEF SingleInv, RecShape, Row, Attempts
  <2>3. \/ EndRecover /\ UNCHANGED <<row, effect>>
        \/ /\ a > 0 /\ Append(n, OnNodeTerminal(row[n], "failed", a, FALSE))
           /\ NextCandidate(n)
        \/ AppendTransition(n, OnNodeWaiting(row[n])) /\ NextCandidate(n)
        \/ \E p \in {"commit", "commitNil"} : InPhase(n, p, a) /\ UNCHANGED row
        \/ Absent(n) /\ InPhase(n, "check", a) /\ UNCHANGED row
    BY <1>16 DEF ReconcileNode
  <2> HIDE DEF a
  <2> QED
    BY <1>7, <1>8, <1>9, <1>11, <1>15, <2>2, <2>3
<1>17. CASE CommitReconciled(n)
  <2>1. /\ CommitNodeSuccess(n, rec.att, Always, rec.phase = "commit")
        /\ NextCandidate(n) /\ UNCHANGED effect /\ rec.att \in Attempts
    BY <1>1, <1>17 DEF CommitReconciled, TypeInv, RecOK, histVars
  <2>2. row'[n].status = IF row[n].status = "cancel_requested" THEN "cancelled"
                         ELSE IF row[n].status \in {"running", "reconciling"} THEN "succeeded"
                         ELSE row[n].status
    BY <1>1, <2>1, CommitRows
  <2>3. CASE row[n].status = "uncertain"
    <3>1. UNCHANGED row
      BY <2>1, <2>3 DEF CommitNodeSuccess
    <3> QED
      BY <1>8, <2>1, <3>1
  <2>4. CASE row[n].status # "uncertain"
    BY <1>4, <1>6, <2>1, <2>2, <2>4 DEF Terminal
  <2> QED
    BY <2>3, <2>4
<1>18. CASE CheckAbsent(n)
  <2>1. /\ rec.phase = "check" /\ n \in rec.cur /\ UNCHANGED <<row, effect>>
        /\ \E p \in {"cancel", "requeue"} : InPhase(n, p, rec.att)
    BY <1>18 DEF CheckAbsent, dbVars, histVars
  <2>2. ~Idem(n) /\ (Guarded(n) => effect'[n] = "clear")
    BY <1>3, <2>1 DEF SingleInv, RecShape, Sound, EffectOK
  <2> QED
    BY <1>7, <2>1, <2>2
<1>19. CASE SettleAbsent(n)
  <2>1. /\ rec.phase \in {"cancel", "requeue"} /\ n \in rec.cur /\ UNCHANGED effect
        /\ NextCandidate(n) /\ rec.att \in 0 .. AttemptBound
    BY <1>1, <1>19 DEF SettleAbsent, histVars, TypeOK
  <2>2. CASE rec.phase = "cancel"
    BY <1>10, <1>19, <2>1, <2>2 DEF SettleAbsent
  <2>3. CASE rec.phase = "requeue"
    <3>1. AppendTransition(n, OnNodeRequeued(row[n], rec.att, FALSE))
      BY <1>19, <2>3 DEF SettleAbsent
    <3>2. ~Idem(n) /\ (Guarded(n) => effect[n] = "clear")
      BY <1>3, <2>1, <2>3 DEF SingleInv, RecShape, Sound, EffectOK
    <3> QED
      BY <1>12, <2>1, <3>1, <3>2
  <2> QED
    BY <2>1, <2>2, <2>3
<1>20. CASE ReconcileCancelledNode(n)
  <2>1. rec.att \in Attempts
    BY <1>1, <1>20 DEF ReconcileCancelledNode, TypeInv, RecOK
  <2>2. \/ Append(n, OnNodeTerminal(row[n], "failed", rec.att, FALSE)) /\ NextCandidate(n)
        \/ AppendTransition(n, OnNodeWaiting(row[n])) /\ NextCandidate(n)
        \/ InPhase(n, "cancel", row[n].latest) /\ UNCHANGED row
    BY <1>20 DEF ReconcileCancelledNode
  <2> QED
    BY <1>7, <1>9, <1>11, <2>1, <2>2
<1> QED
  BY <1>13, <1>14, <1>16, <1>17, <1>18, <1>19, <1>20 DEF RecoverAt

-----------------------------------------------------------------------------
(***************************************************************************)
(* Every step, at every node.                                              *)
(***************************************************************************)
\* What every step leaves true of node m: a step lists only ready nodes, ends
\* no terminal status and starts no guarded execution with a possible effect.
Advances(m) ==
  /\ NodeSound(m)'
  /\ NodeBegun(m)' => Ready(m)
  /\ row[m].status \in Terminal => row'[m].status = row[m].status
  /\ Guarded(m) /\ work[Ticker][m].pc # "exec" /\ work'[Ticker][m].pc = "exec"
       => effect[m] = "clear"

\* A step that begins no node.
LEMMA HoldsAdvances ==
  ASSUME SingleInv, NEW m \in Nodes, Holds(m)
  PROVE  Advances(m)
<1>1. NodeBegun(m) => Ready(m)
  BY DEF SingleInv
<1>2. NodeBegun(m)' <=> Begun(work'[Ticker][m], row'[m])
  BY DEF NodeBegun
<1> QED
  BY <1>1, <1>2 DEF Holds, NodeFollows, Follows, Advances, NodeBegun

\* The steps of a worker.
LEMMA WorkerHolds ==
  ASSUME SingleInv, TypeInv', NEW n \in Nodes, WorkerStep(Ticker, n) \/ Abort(Ticker, n),
         NEW m \in Nodes
  PROVE  Holds(m)
<1>1. CASE m = n
  BY <1>1, ClaimSelf, ExecuteSelf, OutcomeSelf DEF WorkerStep
<1> QED
  BY <1>1, WorkerOther

\* No worker runs while the loop is not stepping, and Recover has no list
\* while the loop is not recovering.
LEMMA IdleLoop ==
  ASSUME SingleInv, NEW m \in Nodes
  PROVE  /\ loop[Ticker] # "stepping" => work[Ticker][m].pc = "idle"
         /\ loop[Ticker] # "recovering" => Cand(m) = FALSE /\ Phase(m) = "none"
  BY EngineAssumption
  DEF SingleInv, RecShape, InflightInv, LoopInv, StepOwnsWorkers, Cand, Phase, NoRec

\* RecoverScan lists nodes without a worker.
LEMMA ScanHolds ==
  ASSUME SingleInv, TypeInv', RecoverScan, NEW m \in Nodes
  PROVE  Holds(m) /\ RecShape'
<1> DEFINE w == work[Ticker][m]
<1>1. /\ TypeInv /\ w \in Worker /\ row[m] \in Row /\ failures[m] \in Nat /\ faults \in Nat
      /\ w.pc = "idle"
  BY NodeTypes, IdleLoop DEF SingleInv, InflightInv, RecoverScan
<1>2. /\ Sound(m, w, row[m], Cand(m), Phase(m), rec.att, failures[m], effect[m], faults)
  BY DEF SingleInv, NodeSound
<1>3. /\ rec'.cur = {} /\ rec'.phase = "none" /\ rec'.todo = RecoverList
      /\ UNCHANGED <<row, work, faults, effect, failures>>
      /\ loop'[Ticker] = "recovering"
  BY <1>1, EngineAssumption DEF RecoverScan, NoRec, dbVars, histVars, TypeInv, TypeOK
<1>4. RecShape'
  BY <1>3 DEF RecShape
<1>5. CASE m \in RecoverList
  <2>1. row[m].status \in Recoverable
    BY <1>5 DEF RecoverList, Recoverable
  <2>2. Sound(m, w, row[m], TRUE, "none", rec'.att, failures[m], effect[m], faults)
    <3> HIDE DEF w
    <3> QED
      BY <1>1, <1>2, <2>1, SoundPhase
  <2>3. Follows(m, w, row[m], effect[m], w, row[m])
    BY <1>1 DEF Follows
  <2>4. Cand(m)' = TRUE /\ Phase(m)' = "none"
    BY <1>3, <1>5 DEF Cand, Phase
  <2> QED
    BY <1>3, <1>4, <2>2, <2>3, <2>4 DEF Holds, NodeSound, NodeFollows
<1>6. CASE m \notin RecoverList
  <2>1. (Cand(m)' => Cand(m)) /\ Phase(m)' = "none"
    BY <1>3, <1>6 DEF Cand, Phase
  <2>2. RowFrame(m)
    BY <1>3 DEF RowFrame
  <2> QED
    BY <1>1, <1>3, <1>4, <2>1, <2>2, FrameHolds
<1> QED
  BY <1>5, <1>6

\* Step begins the nodes it lists, and they are ready.
LEMMA StepAdvances ==
  ASSUME SingleInv, TypeInv', Step(Ticker), NEW m \in Nodes
  PROVE  Advances(m)
<1>1. /\ TypeInv /\ TypeInv' /\ work[Ticker][m] \in Worker /\ work'[Ticker][m] \in Worker
      /\ row[m] \in Row /\ failures[m] \in Nat /\ faults \in Nat /\ Ticker \in Loops
      /\ work[Ticker][m].pc = "idle" /\ Cand(m) = FALSE /\ Phase(m) = "none"
  <2>1. TypeInv /\ TypeInv' /\ Ticker \in Loops
    BY EngineAssumption DEF SingleInv, InflightInv
  <2>2. work'[Ticker][m] \in Worker
    BY <2>1 DEF TypeInv, TypeOK
  <2>3. loop[Ticker] = "idle"
    BY DEF Step
  <2>4. Cand(m) = FALSE /\ Phase(m) = "none" /\ work[Ticker][m].pc = "idle"
    BY <2>3, IdleLoop
  <2> QED
    BY <2>1, <2>2, <2>4, NodeTypes
<1>2. Sound(m, work[Ticker][m], row[m], FALSE, "none", rec.att, failures[m], effect[m], faults)
  BY <1>1 DEF SingleInv, NodeSound
<1>3. UNCHANGED <<row, traversed, rec, faults, effect, failures>>
  BY DEF Step, dbVars, histVars
<1>4. RowFrame(m)
  BY <1>3 DEF RowFrame
<1>5. CASE Eligible = {}
  <2>1. UNCHANGED work
    BY <1>5 DEF Step
  <2> QED
    BY <1>1, <1>3, <1>4, <2>1, FrameHolds, HoldsAdvances
<1>6. CASE Eligible # {}
  <2>1. work'[Ticker][m] = IF m \in Eligible
                           THEN [Idle EXCEPT !.pc = "listed", !.att = row[m].count + 1]
                           ELSE Idle
    <3>1. work \in [Loops -> [Nodes -> Worker]] /\ Ticker \in Loops
      BY <1>1 DEF TypeInv, TypeOK
    <3>2. work' = [work EXCEPT ![Ticker] =
             [n \in Nodes |-> IF n \in Eligible
                              THEN [Idle EXCEPT !.pc = "listed", !.att = row[n].count + 1]
                              ELSE Idle]]
      BY <1>6 DEF Step
    <3> QED
      BY <3>1, <3>2
  <2>2. CASE m \notin Eligible
    <3>1. work'[Ticker][m].pc = "idle"
      BY <2>1, <2>2, IdleType
    <3> QED
      BY <1>1, <1>3, <1>4, <3>1, FrameHolds, HoldsAdvances
  <2>3. CASE m \in Eligible
    <3>1. work'[Ticker][m].pc = "listed" /\ work'[Ticker][m].att = row[m].count + 1
      BY <2>1, <2>3 DEF Idle
    <3>2. row[m].status \in Open /\ Ready(m)
      BY <2>3 DEF Eligible, Open, SingleInv, NodeBegun, Begun
    <3>3. Sound(m, work'[Ticker][m], row[m], FALSE, "none", rec.att,
                failures[m], effect[m], faults)
      BY <1>1, <1>2, <3>1, <3>2, SoundListed
    <3>4. Cand(m)' = FALSE /\ Phase(m)' = "none"
      BY <1>1, <1>3 DEF Cand, Phase
    <3>5. NodeSound(m)'
      BY <1>3, <3>3, <3>4 DEF NodeSound
    <3> QED
      BY <1>3, <3>1, <3>2, <3>5 DEF Advances
  <2> QED
    BY <2>2, <2>3
<1> QED
  BY <1>5, <1>6

\* CancelRun.
LEMMA CancelRunHolds ==
  ASSUME SingleInv, TypeInv', CancelRun, NEW m \in Nodes
  PROVE  Holds(m)
<1> DEFINE w == work[Ticker][m]
<1>1. /\ TypeInv /\ w \in Worker /\ row[m] \in Row /\ row'[m] \in Row
      /\ failures[m] \in Nat /\ faults \in Nat
  BY NodeTypes, EngineAssumption DEF SingleInv, InflightInv, TypeInv, TypeOK
<1>2. Sound(m, w, row[m], Cand(m), Phase(m), rec.att, failures[m], effect[m], faults)
  BY DEF SingleInv, NodeSound
<1>3. UNCHANGED <<work, rec, faults, effect, failures>>
  BY DEF CancelRun, histVars
<1>4. CASE run = "running"
  <2>1. row'[m] = CancelNode(row[m])
    BY <1>4 DEF CancelRun
  <2>2. /\ Sound(m, w, row'[m], Cand(m), Phase(m), rec.att, failures[m], effect[m], faults)
        /\ Follows(m, w, row[m], effect[m], w, row'[m])
    <3> HIDE DEF w
    <3>1. /\ CancelNode(row[m]).count = row[m].count
          /\ CancelNode(row[m]).latest = row[m].latest
          /\ CancelNode(row[m]).att = row[m].att
          /\ CancelNode(row[m]).status =
               IF row[m].status \in {"running", "uncertain", "reconciling"} THEN "cancel_requested"
               ELSE IF row[m].status \in Terminal \cup {"cancel_requested"} THEN row[m].status
               ELSE "cancelled"
      BY <1>1, CancelNodeFields
    <3> QED
      BY <1>1, <1>2, <2>1, <3>1, SoundCancelNode
  <2> QED
    BY <1>3, <2>2, SelfHolds
<1>5. CASE run # "running"
  <2>1. UNCHANGED row
    BY <1>5 DEF CancelRun
  <2>2. RowFrame(m)
    BY <2>1 DEF RowFrame
  <2> QED
    BY <1>1, <1>3, <2>2, FrameHolds
<1> QED
  BY <1>4, <1>5

\* A crash loses every worker and Recover's list.
LEMMA CrashHolds ==
  ASSUME SingleInv, TypeInv', Crash, NEW m \in Nodes
  PROVE  Holds(m)
<1>1. /\ TypeInv /\ work[Ticker][m] \in Worker /\ work'[Ticker][m] \in Worker /\ row[m] \in Row
      /\ failures[m] \in Nat /\ faults \in Nat
  BY NodeTypes, EngineAssumption DEF SingleInv, InflightInv, TypeInv, TypeOK
<1>2. Sound(m, work[Ticker][m], row[m], Cand(m), Phase(m), rec.att,
            failures[m], effect[m], faults)
  BY DEF SingleInv, NodeSound
<1>3. /\ UNCHANGED <<row, effect, failures>> /\ faults' = faults + 1 /\ rec' = NoRec
      /\ work'[Ticker][m] = Idle
  BY EngineAssumption DEF Crash, Fault, dbVars, histVars
<1>4. Cand(m)' = FALSE /\ Phase(m)' = "none"
  BY <1>3 DEF Cand, Phase, NoRec
<1>5. work'[Ticker][m].pc = "idle"
  BY <1>3, IdleType
<1>6. /\ Sound(m, work'[Ticker][m], row[m], FALSE, "none", rec'.att,
               failures[m], effect[m], faults + 1)
      /\ Follows(m, work[Ticker][m], row[m], effect[m], work'[Ticker][m], row[m])
  BY <1>1, <1>2, <1>5, SoundLost
<1> QED
  BY <1>3, <1>4, <1>6 DEF Holds, NodeSound, NodeFollows

\* The steps that change no row, no worker and no list of Recover, but for a
\* lease and the cancel signal.
LEMMA CalmHolds ==
  ASSUME SingleInv, TypeInv', NEW m \in Nodes,
         \/ StepDone(Ticker) \/ TryCompleteRun(Ticker) \/ AbandonRun \/ CancelInflightRun
         \/ \E o \in Ops : RequestOp(o)
         \/ \E n \in Nodes : ExpireLease(n)
         \/ UNCHANGED vars
  PROVE  Holds(m)
<1>1. TypeInv /\ Ticker \in Loops /\ faults \in Nat /\ work[Ticker][m] \in Worker /\ row[m] \in Row
  BY EngineAssumption, NodeTypes DEF SingleInv, InflightInv
<1>2. CASE \/ StepDone(Ticker) \/ TryCompleteRun(Ticker) \/ AbandonRun
           \/ \E o \in Ops : RequestOp(o)
           \/ UNCHANGED vars
  <2>1. UNCHANGED <<row, work, rec, faults, effect, failures>>
    BY <1>2 DEF StepDone, TryCompleteRun, AbandonRun, RequestOp, dbVars, histVars, vars
  <2>2. RowFrame(m)
    BY <2>1 DEF RowFrame
  <2> QED
    BY <1>1, <2>1, <2>2, FrameHolds
<1>3. CASE CancelInflightRun
  <2>1. UNCHANGED <<row, rec, faults, effect, failures>>
    BY <1>3 DEF CancelInflightRun, dbVars, histVars
  <2>2. work'[Ticker][m] = IF work[Ticker][m].pc \in Tracked
                           THEN [work[Ticker][m] EXCEPT !.sig = TRUE] ELSE work[Ticker][m]
    BY <1>1, <1>3 DEF CancelInflightRun
  <2>3. work'[Ticker][m].pc = work[Ticker][m].pc /\ work'[Ticker][m].att = work[Ticker][m].att
    BY <1>1, <2>2 DEF Worker
  <2>4. RowFrame(m)
    BY <2>1 DEF RowFrame
  <2> QED
    BY <1>1, <2>1, <2>3, <2>4, FrameHolds
<1>4. CASE \E n \in Nodes : ExpireLease(n)
  <2>1. PICK n \in Nodes : ExpireLease(n)
    BY <1>4
  <2>2. /\ UNCHANGED <<work, rec, effect, failures>> /\ faults <= faults'
        /\ row' = [row EXCEPT ![n].lease = "expired"]
    BY <1>1, <2>1 DEF ExpireLease, Fault, procVars, histVars
  <2>3. row'[m] = row[m] \/ row'[m] = [row[m] EXCEPT !.lease = "expired"]
    BY <1>1, <2>2 DEF TypeInv, TypeOK
  <2>4. RowFrame(m)
    BY <1>1, <2>3 DEF RowFrame, Row
  <2> QED
    BY <1>1, <2>2, <2>4, FrameHolds
<1> QED
  BY <1>2, <1>3, <1>4

\* Every step, at every node.
LEMMA NextAdvances ==
  ASSUME SingleLoop, SingleInv, TypeInv', [Next]_vars, NEW m \in Nodes
  PROVE  Advances(m)
<1>1. CASE \E n \in Nodes : WorkerStep(Ticker, n) \/ Abort(Ticker, n)
  BY <1>1, WorkerHolds, HoldsAdvances
<1>2. CASE RecoverStep
  <2>1. CASE RecoverScan
    BY <2>1, ScanHolds, HoldsAdvances
  <2>2. CASE \E n \in Nodes : RecoverAt(n)
    BY <2>2, RecoverSelf, RecoverOther, HoldsAdvances
  <2> QED
    BY <1>2, <2>1, <2>2 DEF RecoverStep, RecoverAt
<1>3. CASE Step(Ticker)
  BY <1>3, StepAdvances
<1>4. CASE CancelRun \/ Crash
  BY <1>4, CancelRunHolds, CrashHolds, HoldsAdvances
<1>5. CASE \/ StepDone(Ticker) \/ TryCompleteRun(Ticker) \/ AbandonRun \/ CancelInflightRun
           \/ \E o \in Ops : RequestOp(o)
           \/ \E n \in Nodes : ExpireLease(n)
           \/ UNCHANGED vars
  BY <1>5, CalmHolds, HoldsAdvances
<1> QED
  BY <1>1, <1>2, <1>3, <1>4, <1>5 DEF SingleLoop, Next, LoopStep, OpStep

-----------------------------------------------------------------------------
(***************************************************************************)
(* The routes, the list of Recover and the end of the run.                 *)
(***************************************************************************)
\* Routes are taken by commitNodeSuccess only.
LEMMA RouteStep ==
  ASSUME SingleLoop, TypeInv, [Next]_vars
  PROVE  \/ UNCHANGED traversed
         \/ \E n \in Nodes : Commits(n)
<1>1. ASSUME NEW n \in Nodes, WorkerStep(Ticker, n) \/ Abort(Ticker, n)
      PROVE  \/ UNCHANGED traversed
             \/ Commits(n)
  <2>1. CASE FinishRouter(Ticker, n) \/ CommitResult(Ticker, n)
    <3>1. work[Ticker][n].att \in Attempts
      BY <2>1, NodeTypes DEF FinishRouter, CommitResult
    <3>2. \/ UNCHANGED traversed
          \/ \E route, known : CommitNodeSuccess(n, work[Ticker][n].att, route, known)
      BY <2>1 DEF FinishRouter, CommitResult
    <3> QED
      BY <3>1, <3>2 DEF Commits
  <2>2. CASE ~(FinishRouter(Ticker, n) \/ CommitResult(Ticker, n))
    BY <1>1, <2>2
    DEF WorkerStep, ClaimNonExecutable, RejectNode, TrackInflight, ClaimAttempt, Dispatch,
        ExecuteOk, ExecuteError, ExecuteCancelled, ExecuteTimeout, ExecuteUncertain,
        CheckResult, UncertainNode, CancelledNode, RecordAttemptFailure, RequeueNode,
        Abort, dbVars
  <2> QED
    BY <2>1, <2>2
<1>2. ASSUME NEW n \in Nodes, RecoverAt(n)
      PROVE  \/ UNCHANGED traversed
             \/ Commits(n)
  <2>1. CASE CommitReconciled(n)
    BY <2>1 DEF CommitReconciled, Commits, TypeInv, RecOK
  <2>2. CASE ~CommitReconciled(n)
    BY <1>2, <2>2
    DEF RecoverAt, RecoverNode, ResumeIdempotentAttempt, ReconcileNode, CheckAbsent,
        SettleAbsent, ReconcileCancelledNode, dbVars
  <2> QED
    BY <2>1, <2>2
<1>3. CASE \/ LoopStep(Ticker) \/ RecoverScan \/ OpStep \/ Crash
           \/ \E o \in Ops : RequestOp(o)
           \/ \E n \in Nodes : ExpireLease(n)
           \/ UNCHANGED vars
  BY <1>3
  DEF LoopStep, Step, StepDone, TryCompleteRun, RecoverScan, OpStep, CancelRun, AbandonRun,
      CancelInflightRun, Crash, RequestOp, ExpireLease, dbVars, vars
<1> QED
  BY <1>1, <1>2, <1>3 DEF SingleLoop, Next, RecoverStep, RecoverAt

\* A route is taken only from a node that succeeded, and stays taken.
LEMMA RoutesStep ==
  ASSUME SingleLoop, SingleInv, TypeInv', [Next]_vars, \A m \in Nodes : Advances(m)
  PROVE  RoutesTaken' /\ traversed \subseteq traversed'
<1>1. /\ TypeInv /\ TypeOK /\ traversed \subseteq RouteEdges /\ RoutesTaken
      /\ \A e \in RouteEdges : e.from \in Nodes
  BY EngineAssumption DEF SingleInv, InflightInv, TypeInv, TypeOK
<1>2. \A e \in traversed : row'[e.from].status = "succeeded"
  BY <1>1 DEF RoutesTaken, Advances, Terminal
<1>3. CASE UNCHANGED traversed
  BY <1>2, <1>3 DEF RoutesTaken
<1>4. ASSUME NEW n \in Nodes, NEW a \in Attempts, NEW route, NEW known,
             CommitNodeSuccess(n, a, route, known)
      PROVE  RoutesTaken' /\ traversed \subseteq traversed'
  <2>1. CASE row[n].status \in {"running", "reconciling"}
    <3>1. traversed' = traversed \cup Selected(n, route, known)
      BY <1>4, <2>1 DEF CommitNodeSuccess
    <3>2. row'[n].status = "succeeded"
      BY <1>1, <1>4, <2>1, CommitRows
    <3>3. \A e \in Selected(n, route, known) : e.from = n
      BY DEF Selected
    <3> QED
      BY <1>2, <3>1, <3>2, <3>3 DEF RoutesTaken
  <2>2. CASE row[n].status \notin {"running", "reconciling"}
    <3>1. UNCHANGED traversed
      BY <1>4, <2>2 DEF CommitNodeSuccess
    <3> QED
      BY <1>3, <3>1
  <2> QED
    BY <2>1, <2>2
<1> QED
  BY <1>1, <1>3, <1>4, RouteStep DEF Commits

\* What was ready stays ready.
LEMMA ReadyStays ==
  ASSUME SingleInv, \A m \in Nodes : Advances(m), traversed \subseteq traversed',
         NEW n \in Nodes, Ready(n)
  PROVE  Ready(n)'
<1>1. \A m \in Nodes : row[m].status \in Done => row'[m].status \in Done
  BY DEF Advances, Terminal, Done
<1> QED
  BY <1>1 DEF Ready

\* The list of Recover.
LEMMA RecStep ==
  ASSUME SingleLoop, SingleInv, TypeInv', [Next]_vars
  PROVE  RecShape'
<1>1. TypeInv /\ RecShape /\ Ticker \in Loops /\ NoRec.phase = "none" /\ NoRec.cur = {}
  BY EngineAssumption DEF SingleInv, InflightInv, NoRec
<1>2. ASSUME UNCHANGED <<loop, rec>>
      PROVE  RecShape'
  BY <1>1, <1>2 DEF RecShape
<1>3. ASSUME rec' = NoRec
      PROVE  RecShape'
  BY <1>1, <1>3 DEF RecShape
<1>4. ASSUME NEW n \in Nodes, WorkerStep(Ticker, n) \/ Abort(Ticker, n)
      PROVE  RecShape'
  BY <1>1, <1>2, <1>4, WorkerStepMove DEF Move
<1>5. CASE RecoverScan
  <2>1. /\ loop' = [loop EXCEPT ![Ticker] = "recovering"]
        /\ rec'.cur = {} /\ rec'.phase = "none"
    BY <1>5 DEF RecoverScan, NoRec
  <2> QED
    BY <1>1, <2>1 DEF RecShape, TypeInv, TypeOK
<1>6. ASSUME NEW n \in Nodes, RecoverAt(n)
      PROVE  RecShape'
  BY <1>6, RecoverMoves
<1>7. CASE LoopStep(Ticker)
  <2>1. loop[Ticker] # "recovering" /\ UNCHANGED rec
    BY <1>7 DEF LoopStep, Step, StepDone, TryCompleteRun
  <2> QED
    BY <1>1, <1>3, <2>1 DEF RecShape
<1>8. CASE Crash
  BY <1>3, <1>8 DEF Crash
<1>9. CASE \/ OpStep \/ \E o \in Ops : RequestOp(o)
           \/ \E n \in Nodes : ExpireLease(n)
           \/ UNCHANGED vars
  BY <1>2, <1>9
  DEF OpStep, CancelRun, AbandonRun, CancelInflightRun, RequestOp, ExpireLease, procVars, vars
<1> QED
  BY <1>4, <1>5, <1>6, <1>7, <1>8, <1>9
  DEF SingleLoop, Next, RecoverStep, RecoverAt

\* A run ends in tryCompleteRun or by CancelRun or AbandonRun, and after that
\* no loop steps again.
LEMMA RunStep ==
  ASSUME SingleLoop, SingleInv, TypeInv', [Next]_vars
  PROVE  \/ /\ UNCHANGED run
            /\ run # "running" /\ loop[Ticker] = "idle" => loop'[Ticker] = "idle"
         \/ TryCompleteRun(Ticker) \/ CancelRun \/ AbandonRun
<1>1. TypeInv /\ Ticker \in Loops /\ loop \in [Loops -> {"idle", "stepping", "completing", "recovering"}]
  BY EngineAssumption DEF SingleInv, InflightInv, TypeInv, TypeOK
<1>2. ASSUME NEW n \in Nodes, WorkerStep(Ticker, n) \/ Abort(Ticker, n)
      PROVE  UNCHANGED <<run, loop>>
  <2>1. UNCHANGED loop
    BY <1>1, <1>2, WorkerStepMove DEF Move
  <2>2. UNCHANGED run
    BY <1>2
    DEF WorkerStep, ClaimNonExecutable, FinishRouter, RejectNode, TrackInflight, ClaimAttempt,
        Dispatch, ExecuteOk, ExecuteError, ExecuteCancelled, ExecuteTimeout, ExecuteUncertain,
        CheckResult, CommitResult, UncertainNode, CancelledNode, RecordAttemptFailure,
        RequeueNode, Abort, dbVars
  <2> QED
    BY <2>1, <2>2
<1>3. ASSUME NEW n \in Nodes, RecoverAt(n)
      PROVE  UNCHANGED run /\ loop[Ticker] # "idle"
  <2>1. UNCHANGED run /\ Cand(n)
    BY <1>3, CandidateIdle
  <2>2. loop[Ticker] = "recovering"
    BY <2>1, IdleLoop
  <2> QED
    BY <2>1, <2>2
<1>4. CASE Step(Ticker) \/ StepDone(Ticker) \/ RecoverScan \/ Crash
  BY <1>1, <1>4 DEF Step, StepDone, RecoverScan, Crash, dbVars
<1>5. CASE \/ CancelInflightRun \/ \E o \in Ops : RequestOp(o)
           \/ \E n \in Nodes : ExpireLease(n)
           \/ UNCHANGED vars
  BY <1>5 DEF CancelInflightRun, RequestOp, ExpireLease, dbVars, procVars, vars
<1> QED
  BY <1>2, <1>3, <1>4, <1>5
  DEF SingleLoop, Next, LoopStep, OpStep, RecoverStep, RecoverAt

\* How the run ended stays true.
LEMMA EndStep ==
  ASSUME SingleLoop, SingleInv, TypeInv', [Next]_vars, \A m \in Nodes : Advances(m)
  PROVE  RunEnded'
<1>1. TypeInv /\ Ticker \in Loops /\ RunEnded /\ row \in [Nodes -> Row]
  BY EngineAssumption DEF SingleInv, InflightInv, TypeInv, TypeOK
<1>2. \A m \in Nodes : /\ row[m].status \in Done => row'[m].status \in Done
                       /\ row[m].status \in Terminal => row'[m].status \in Terminal
  BY DEF Advances, Terminal, Done
<1>3. CASE UNCHANGED run /\ (run # "running" /\ loop[Ticker] = "idle" => loop'[Ticker] = "idle")
  BY <1>1, <1>2, <1>3 DEF RunEnded
<1>4. CASE TryCompleteRun(Ticker)
  <2>1. loop'[Ticker] = "idle" /\ UNCHANGED row
    BY <1>1, <1>4 DEF TryCompleteRun, TypeInv, TypeOK
  <2>2. run' = "completed" => run = "completed" \/ \A m \in Nodes : row[m].status \in Done
    BY <1>4 DEF TryCompleteRun, TerminalEvent
  <2> QED
    BY <1>1, <2>1, <2>2 DEF RunEnded
<1>5. CASE CancelRun
  <2>1. CASE run = "running"
    <3>1. ASSUME NEW m \in Nodes, row'[m].status \notin Active
          PROVE  row'[m].status \in Terminal
      <4>1. row'[m] = CancelNode(row[m])
        BY <1>5, <2>1 DEF CancelRun
      <4>2. CancelNode(row[m]).status =
              IF row[m].status \in {"running", "uncertain", "reconciling"} THEN "cancel_requested"
              ELSE IF row[m].status \in Terminal \cup {"cancel_requested"} THEN row[m].status
              ELSE "cancelled"
        BY <1>1, CancelNodeFields
      <4> QED
        BY <3>1, <4>1, <4>2 DEF Terminal, Active
    <3>2. run' = "cancelled" => \A m \in Nodes : row'[m].status \notin Active
      BY <1>5, <2>1 DEF CancelRun
    <3>3. run' # "completed"
      BY <1>5, <2>1 DEF CancelRun
    <3> QED
      BY <3>1, <3>2, <3>3 DEF RunEnded
  <2>2. CASE run # "running"
    BY <1>1, <1>5, <2>2 DEF CancelRun, RunEnded
  <2> QED
    BY <2>1, <2>2
<1>6. CASE AbandonRun
  BY <1>1, <1>6 DEF AbandonRun, RunEnded
<1> QED
  BY <1>3, <1>4, <1>5, <1>6, RunStep

\* The invariant holds initially.
LEMMA SingleInvInit ==
  ASSUME Init
  PROVE  SingleInv
<1>1. TypeInv /\ InflightExact /\ LoopInv /\ Ticker \in Loops
  BY TypeInvInit, InflightInit, EngineAssumption
<1>2. RecShape /\ RoutesTaken /\ RunEnded
  BY DEF Init, NoRec, RecShape, RoutesTaken, RunEnded
<1>3. ASSUME NEW n \in Nodes
      PROVE  NodeSound(n) /\ ~NodeBegun(n)
  <2>1. /\ row[n] = NoRow /\ work[Ticker][n] = Idle /\ failures[n] = 0 /\ faults = 0
        /\ effect[n] = "clear" /\ Cand(n) = FALSE /\ Phase(n) = "none"
    BY <1>1 DEF Init, Cand, Phase, NoRec
  <2>2. /\ row[n].status = "absent" /\ row[n].count = 0 /\ row[n].latest = 0
        /\ work[Ticker][n].pc = "idle"
    BY <2>1 DEF NoRow, Idle
  <2>3. MaxAttempts[n] \in Nat \ {0}
    BY EngineAssumption
  <2>4. Owns(work[Ticker][n], row[n], Cand(n), Phase(n))
    BY <2>1, <2>2 DEF Owns, Claimed
  <2>5. Budget(n, work[Ticker][n], row[n], failures[n], faults)
    BY <2>1, <2>2, <2>3 DEF Budget, Extra, Late, Claimed
  <2>6. Keys(n, work[Ticker][n], row[n], Phase(n), rec.att)
    BY <2>1, <2>2 DEF Keys, Claimed, Attempts
  <2>7. EffectOK(n, work[Ticker][n], row[n], effect[n], Phase(n))
    BY <2>1 DEF EffectOK
  <2>8. ~NodeBegun(n)
    BY <2>2 DEF NodeBegun, Begun
  <2> QED
    BY <2>4, <2>5, <2>6, <2>7, <2>8 DEF NodeSound, Sound
<1> QED
  BY <1>1, <1>2, <1>3 DEF SingleInv, InflightInv

\* The invariant is inductive.
LEMMA SingleInvStep ==
  ASSUME SingleLoop, SingleInv, [Next]_vars
  PROVE  SingleInv' /\ \A m \in Nodes : Advances(m)
<1>1. TypeInv' /\ InflightInv'
  <2>1. InflightInv
    BY DEF SingleInv
  <2>2. TypeInv'
    BY <2>1, TypeInvStep DEF InflightInv
  <2>3. CASE Next
    BY <2>1, <2>2, <2>3, InflightStep DEF InflightInv
  <2>4. CASE UNCHANGED vars
    BY <2>1, <2>2, <2>4
    DEF InflightInv, InflightExact, LoopInv, StepOwnsWorkers, RecoverOwnsTicker, vars
  <2> QED
    BY <2>2, <2>3, <2>4
<1>2. \A m \in Nodes : Advances(m)
  BY <1>1, NextAdvances
<1>3. RoutesTaken' /\ traversed \subseteq traversed' /\ RecShape' /\ RunEnded'
  BY <1>1, <1>2, RoutesStep, RecStep, EndStep
<1>4. ASSUME NEW n \in Nodes
      PROVE  NodeSound(n)' /\ (NodeBegun(n)' => Ready(n)')
  BY <1>2, <1>3, ReadyStays DEF Advances
<1>5. (\A n \in Nodes : NodeSound(n) /\ (NodeBegun(n) => Ready(n)))'
  BY <1>4
<1> QED
  BY <1>1, <1>2, <1>3, <1>5 DEF SingleInv

-----------------------------------------------------------------------------
(***************************************************************************)
(* The properties.                                                         *)
(***************************************************************************)
\* What the invariant says of the worker of a node inside Execute.
LEMMA ExecOwned ==
  ASSUME SingleInv, NEW n \in Nodes, work[Ticker][n].pc = "exec"
  PROVE  /\ row[n].status \in {"running", "cancel_requested"}
         /\ loop[Ticker] = "stepping"
         /\ n \notin Routers /\ work[Ticker][n].att = row[n].count
<1>1. loop[Ticker] = "stepping"
  BY IdleLoop
<1>2. Owns(work[Ticker][n], row[n], Cand(n), Phase(n))
  BY DEF SingleInv, NodeSound, Sound
<1>3. Budget(n, work[Ticker][n], row[n], failures[n], faults)
  BY DEF SingleInv, NodeSound, Sound
<1> QED
  BY <1>1, <1>2, <1>3 DEF Owns, Budget, Claimed

\* A cancelled run is quiet: CancelRun ends the run only when no node is in
\* flight, and tryCompleteRun only between two Steps, so that no worker of a
\* cancelled run is still inside Execute.
THEOREM SingleLoopCancelledIsQuiet ==
  ASSUME SingleLoop
  PROVE  Spec => []CancelledIsQuiet
<1>1. ASSUME SingleInv PROVE CancelledIsQuiet
  <2> SUFFICES ASSUME run = "cancelled", NEW n \in Nodes, work[Ticker][n].pc = "exec"
               PROVE  FALSE
    BY DEF CancelledIsQuiet, Executing, SingleLoop
  <2>1. row[n].status \in {"running", "cancel_requested"} /\ loop[Ticker] = "stepping"
    BY <1>1, ExecOwned
  <2>2. row[n].status \in Terminal
    BY <1>1, <2>1 DEF SingleInv, RunEnded
  <2> QED
    BY <2>1, <2>2 DEF Terminal
<1> QED
  BY <1>1, SingleInvInit, SingleInvStep, PTL DEF Spec

\* A node is started only after everything it depends on was done and every
\* route to it taken, and that stays so: between the listing of a Step, its
\* claims and what Recover requeues, no dependency is lost.
THEOREM SingleLoopStartedAfterDependencies ==
  ASSUME SingleLoop
  PROVE  Spec => []StartedAfterDependencies
<1>1. SingleInv => StartedAfterDependencies
  BY DEF SingleInv, NodeBegun, Begun, StartedAfterDependencies
<1> QED
  BY <1>1, SingleInvInit, SingleInvStep, PTL DEF Spec

\* A node has at most max_attempts failed executions, and one more for each
\* fault, whatever crashes, aborted workers, lost leases and recoveries do.
THEOREM SingleLoopRetryBudget ==
  ASSUME SingleLoop
  PROVE  Spec => []RetryBudget
<1>1. SingleInv => RetryBudget
  BY DEF SingleInv, NodeSound, Sound, Budget, RetryBudget
<1> QED
  BY <1>1, SingleInvInit, SingleInvStep, PTL DEF Spec

\* An idempotent node uses a new operation key only after every execution
\* under an earlier key was recorded as failed: a lost attempt is resumed
\* under its own key by resumeIdempotentAttempt.
THEOREM SingleLoopFreshKeyAfterFailure ==
  ASSUME SingleLoop
  PROVE  Spec => []FreshKeyAfterFailure
<1>1. ASSUME SingleInv PROVE FreshKeyAfterFailure
  <2> SUFFICES ASSUME NEW n \in Nodes, Contract[n] = "idempotent",
                      work[Ticker][n].pc = "exec", NEW b \in 1 .. work[Ticker][n].att - 1
               PROVE  row[n].att[b] = "failed"
    BY DEF FreshKeyAfterFailure, SingleLoop
  <2>1. n \notin Routers /\ work[Ticker][n].att = row[n].count
    BY <1>1, ExecOwned
  <2>2. Keys(n, work[Ticker][n], row[n], Phase(n), rec.att)
    BY <1>1 DEF SingleInv, NodeSound, Sound
  <2>3. work[Ticker][n].att \in Attempts
    BY <1>1, NodeTypes DEF SingleInv, InflightInv
  <2>4. b \in Attempts /\ b < row[n].count
    BY <2>1, <2>3, AttemptBoundAssumption DEF Attempts
  <2>5. Idem(n) /\ work[Ticker][n].pc \in Claimed
    BY DEF Idem, Claimed
  <2> QED
    BY <2>1, <2>2, <2>4, <2>5 DEF Keys
<1> QED
  BY <1>1, SingleInvInit, SingleInvStep, PTL DEF Spec

\* Terminal history is preserved: no event of a worker, of Recover or of
\* CancelRun changes the status of a succeeded, failed, skipped or cancelled
\* node.
THEOREM SingleLoopTerminalHistory ==
  ASSUME SingleLoop
  PROVE  Spec => TerminalHistory
<1>1. ASSUME SingleInv, [Next]_vars
      PROVE  [\A n \in Nodes : row[n].status \in Terminal => row'[n].status = row[n].status]_vars
  BY <1>1, SingleInvStep DEF Advances
<1> QED
  BY <1>1, SingleInvInit, SingleInvStep, PTL DEF Spec, TerminalHistory

\* An Execute of a non_replayable or reconcilable node starts only when no
\* earlier execution of it can have had an effect: it failed before the
\* effect, or Recover was told that the effect did not happen.
THEOREM SingleLoopNoBlindRedispatch ==
  ASSUME SingleLoop
  PROVE  Spec => NoBlindRedispatch
<1>1. ASSUME SingleInv, [Next]_vars
      PROVE  [\A n \in Nodes : Guarded(n) /\ Starts(n) => effect[n] = "clear"]_vars
  <2> SUFFICES ASSUME NEW n \in Nodes, Guarded(n), Starts(n)
               PROVE  effect[n] = "clear"
    OBVIOUS
  <2>1. work[Ticker][n].pc # "exec" /\ work'[Ticker][n].pc = "exec"
    BY DEF Starts, Executing, SingleLoop
  <2> QED
    BY <1>1, <2>1, SingleInvStep DEF Advances
<1> QED
  BY <1>1, SingleInvInit, SingleInvStep, PTL DEF Spec, NoBlindRedispatch

-----------------------------------------------------------------------------
(***************************************************************************)
(* The promise of a run (RunOutcome).  The refinement needs to know, on top *)
(* of SingleInv, that what was signalled or listed as cancelled is being    *)
(* cancelled, that CancelRun reached every node, and that an ended run has  *)
(* nobody left who could move a node.                                       *)
(***************************************************************************)
\* The statuses after which a node can only stay or become cancelled.
Closing == Terminal \cup {"cancel_requested"}

\* The node was told to stop.
Stopped(n) == row[n].status \in Cancelling \/ run = "abandoned"

\* Only stopped nodes are signalled or reported as cancelled by their worker.
SignalOK == \A n \in Nodes :
  work[Ticker][n].sig \/ work[Ticker][n].pc = "cancel" => Stopped(n)

\* What Recover takes for cancelled is.
ListOK == \A n \in Nodes :
  n \in rec.canc \/ Phase(n) \in {"cancel", "queryCancelled"} => row[n].status \in Cancelling

\* CancelRun reached every node of the run.
AllClosing == \A n \in Nodes : row[n].status \in Closing

CancelReaches == run = "running" /\ (\E n \in Nodes : row[n].status \in Cancelling) => AllClosing

EndQuiet ==
  /\ run = "cancelled" => \A n \in Nodes : row[n].status \in Terminal
  /\ run \in {"completed", "failed"} => loop[Ticker] = "idle"

\* Whom CancelInflightRun will signal.
OpOK == op = "signal" => run \in {"abandoned", "completed", "failed"} \/ AllClosing

PromiseInv == SignalOK /\ ListOK /\ CancelReaches /\ EndQuiet /\ OpOK

-----------------------------------------------------------------------------
(***************************************************************************)
(* What a transaction of node n does to the ends of the nodes.             *)
(***************************************************************************)
\* The end of n, as RunOutcome sees it, does not change.
Keeps(n) ==
  \/ row'[n].status = row[n].status
  \/ row[n].status \notin Closing /\ row'[n].status \notin Closing

Fails(n) == row[n].status \notin Closing /\ NodeBegun(n) /\ row'[n].status = "failed"

Stops(n) == /\ row[n].status \notin Terminal /\ Stopped(n)
            /\ row'[n].status = "cancelled"

\* commitNodeSuccess of n with a route its executor may have returned.
Chooses(n) == \E a \in Attempts : \E route \in Routes \cup {Always}, known \in BOOLEAN :
                CommitNodeSuccess(n, a, route, known)

Moves(n) ==
  /\ UNCHANGED run
  /\ \/ /\ UNCHANGED traversed
        /\ \A m \in Nodes : m # n => row'[m] = row[m]
        /\ Keeps(n) \/ Fails(n) \/ Stops(n)
     \/ Chooses(n)

\* One event of n.
LEMMA EventMoves ==
  ASSUME TypeOK, NEW n \in Nodes, NEW new, Append(n, new) \/ AppendTransition(n, new),
         UNCHANGED <<run, traversed>>,
         \/ new.status = row[n].status
         \/ row[n].status \notin Closing /\ new.status \notin Closing
         \/ row[n].status \notin Closing /\ NodeBegun(n) /\ new.status = "failed"
         \/ row[n].status \notin Terminal /\ Stopped(n) /\ new.status = "cancelled"
  PROVE  Moves(n)
<1>1. \A m \in Nodes : m # n => row'[m] = row[m]
  BY AppendRow, TransitionRow
<1>2. row'[n] = new \/ row'[n] = row[n]
  BY AppendRow, TransitionRow
<1> QED
  BY <1>1, <1>2 DEF Moves, Keeps, Fails, Stops

\* No row changes.
LEMMA SameMoves ==
  ASSUME UNCHANGED <<run, row, traversed>>, NEW n
  PROVE  Moves(n)
  BY DEF Moves, Keeps

\* Who owns a node with a worker.
LEMMA WorkerOwns ==
  ASSUME SingleInv, NEW n \in Nodes
  PROVE  /\ work[Ticker][n].pc \in {"listed", "tracked"} =>
              /\ row[n].status \in Open \cup {"cancelled"} /\ NodeBegun(n)
         /\ work[Ticker][n].pc \in Claimed \cup {"routing"} =>
              row[n].status \in {"running", "cancel_requested"}
         /\ work[Ticker][n].pc = "requeue" =>
              row[n].status \in {"eligible", "cancel_requested", "cancelled"}
         /\ row[n].status \in {"running", "uncertain", "reconciling"} => NodeBegun(n)
  BY DEF SingleInv, NodeSound, Sound, Owns, NodeBegun, Begun

\* The transactions of a worker.
LEMMA WorkerMoves ==
  ASSUME SingleInv, PromiseInv, NEW n \in Nodes, WorkerStep(Ticker, n) \/ Abort(Ticker, n)
  PROVE  Moves(n)
<1> DEFINE w == work[Ticker][n]
<1>1. /\ TypeInv /\ TypeOK /\ row[n] \in Row /\ w \in Worker /\ Ticker \in Loops
  BY EngineAssumption DEF SingleInv, InflightInv, TypeInv, TypeOK
<1>2. w.pc # "idle"
  BY <1>1, WorkerStepMove DEF Move
<1>3. w.att \in Attempts /\ w.att \in 0 .. AttemptBound /\ 1 \in Attempts
  BY <1>1, <1>2, AttemptBoundAssumption DEF TypeInv, AttOK, Attempts
<1>4. CASE \/ TrackInflight(Ticker, n) \/ Dispatch(Ticker, n) \/ ExecuteOk(Ticker, n)
           \/ ExecuteError(Ticker, n) \/ ExecuteCancelled(Ticker, n) \/ ExecuteTimeout(Ticker, n)
           \/ ExecuteUncertain(Ticker, n) \/ CheckResult(Ticker, n) \/ Abort(Ticker, n)
  BY <1>4, SameMoves
  DEF TrackInflight, Dispatch, ExecuteOk, ExecuteError, ExecuteCancelled,
      ExecuteTimeout, ExecuteUncertain, CheckResult, Abort, dbVars
<1>5. CASE ClaimNonExecutable(Ticker, n) \/ ClaimAttempt(Ticker, n)
  <2>1. /\ UNCHANGED <<run, traversed>>
        /\ \/ UNCHANGED row
           \/ /\ Claimable(n)
              /\ \/ Append(n, OnNodeStarted(row[n], 1, FALSE))
                 \/ Append(n, OnNodeStarted(row[n], w.att, TRUE))
    BY <1>5 DEF ClaimNonExecutable, ClaimAttempt
  <2>2. /\ OnNodeStarted(row[n], 1, FALSE).status = "running"
        /\ OnNodeStarted(row[n], w.att, TRUE).status = "running"
    BY <1>1, <1>3, StartedType
  <2>3. Claimable(n) => row[n].status \notin Closing
    BY DEF Claimable, Closing, Terminal
  <2>4. "running" \notin Closing
    BY DEF Closing, Terminal
  <2> QED
    BY <1>1, <2>1, <2>2, <2>3, <2>4, EventMoves, SameMoves
<1>6. CASE FinishRouter(Ticker, n) \/ CommitResult(Ticker, n)
  <2>1. /\ UNCHANGED run
        /\ \/ \E route \in Routes \cup {Always} : CommitNodeSuccess(n, w.att, route, TRUE)
           \/ /\ UNCHANGED traversed /\ row[n].status \in Cancelling
              /\ Append(n, OnNodeCancelled(row[n], w.att))
    BY <1>1, <1>6 DEF FinishRouter, CommitResult, Worker
  <2>2. CASE \E route \in Routes \cup {Always} : CommitNodeSuccess(n, w.att, route, TRUE)
    BY <1>3, <2>1, <2>2 DEF Moves, Chooses
  <2>3. CASE /\ UNCHANGED traversed /\ row[n].status \in Cancelling
             /\ Append(n, OnNodeCancelled(row[n], w.att))
    <3>1. OnNodeCancelled(row[n], w.att).status = "cancelled"
      BY <1>1, <1>3, <2>3, CancelledType DEF Terminal, Cancelling
    <3>2. row[n].status = "cancelled" \/ row[n].status \notin Terminal
      BY <2>3 DEF Terminal, Cancelling
    <3> QED
      BY <1>1, <2>1, <2>3, <3>1, <3>2, EventMoves DEF Stopped
  <2> QED
    BY <2>1, <2>2, <2>3
<1>7. CASE RejectNode(Ticker, n)
  <2>1. PICK keyed \in BOOLEAN :
          Append(n, OnNodeTerminal(EnsureRunNode(row[n]), "failed", w.att, keyed))
    BY <1>7 DEF RejectNode
  <2>2. UNCHANGED <<run, traversed>> /\ w.pc = "listed"
    BY <1>7 DEF RejectNode
  <2>3. row[n].status \in Open \cup {"cancelled"} /\ NodeBegun(n)
    BY <2>2, WorkerOwns
  <2>4. /\ EnsureRunNode(row[n]) \in Row
        /\ EnsureRunNode(row[n]).status =
             IF row[n].status = "absent" THEN "pending" ELSE row[n].status
    BY <1>1, EnsureType
  <2>5. OnNodeTerminal(EnsureRunNode(row[n]), "failed", w.att, keyed).status
          = IF row[n].status = "cancelled" THEN "cancelled" ELSE "failed"
    <3>1. OnNodeTerminal(EnsureRunNode(row[n]), "failed", w.att, keyed).status
            = IF EnsureRunNode(row[n]).status \in Cancelling
              THEN EnsureRunNode(row[n]).status ELSE "failed"
      BY <1>3, <2>4, TerminalType
    <3> QED
      BY <2>3, <2>4, <3>1 DEF Cancelling, Open
  <2>6. row[n].status # "cancelled" => row[n].status \notin Closing
    BY <2>3 DEF Open, Closing, Terminal
  <2> DEFINE new == OnNodeTerminal(EnsureRunNode(row[n]), "failed", w.att, keyed)
  <2>7. /\ Append(n, new)
        /\ \/ new.status = row[n].status
           \/ row[n].status \notin Closing /\ new.status = "failed"
    BY <2>1, <2>5, <2>6
  <2> HIDE DEF new
  <2> QED
    BY <1>1, <2>2, <2>3, <2>7, EventMoves
<1>8. CASE UncertainNode(Ticker, n)
  <2>1. /\ UNCHANGED <<run, traversed>> /\ w.pc = "uncertain"
        /\ Append(n, OnNodeTerminal(row[n], "uncertain", w.att, FALSE))
    BY <1>8 DEF UncertainNode
  <2>2. row[n].status \in {"running", "cancel_requested"}
    BY <2>1, WorkerOwns DEF Claimed
  <2>3. OnNodeTerminal(row[n], "uncertain", w.att, FALSE).status
          = IF row[n].status \in Cancelling THEN row[n].status ELSE "uncertain"
    BY <1>1, <1>3, TerminalFields
  <2> QED
    BY <1>1, <2>1, <2>2, <2>3, EventMoves DEF Closing, Terminal, Cancelling
<1>9. CASE CancelledNode(Ticker, n)
  <2>1. /\ UNCHANGED <<run, traversed>> /\ w.pc = "cancel"
        /\ Append(n, OnNodeCancelled(row[n], w.att))
    BY <1>9 DEF CancelledNode
  <2>2. row[n].status \in {"running", "cancel_requested"} /\ Stopped(n)
    BY <2>1, WorkerOwns DEF Claimed, PromiseInv, SignalOK
  <2>3. OnNodeCancelled(row[n], w.att).status = "cancelled" /\ row[n].status \notin Terminal
    BY <1>1, <1>3, <2>2, CancelledType DEF Terminal
  <2> QED
    BY <1>1, <2>1, <2>2, <2>3, EventMoves
<1>10. CASE RecordAttemptFailure(Ticker, n)
  <2>1. /\ UNCHANGED <<run, traversed>> /\ w.pc = "fail"
        /\ \/ Append(n, OnNodeTerminal(row[n], "failed", w.att, FALSE))
           \/ Append(n, OnNodeAttemptFailed(row[n], w.att))
    BY <1>10 DEF RecordAttemptFailure
  <2>2. row[n].status \in {"running", "cancel_requested"}
    BY <2>1, WorkerOwns DEF Claimed
  <2>3. row[n].status = "running" => NodeBegun(n)
    BY WorkerOwns
  <2>4. /\ OnNodeTerminal(row[n], "failed", w.att, FALSE).status
             = IF row[n].status \in Cancelling THEN row[n].status ELSE "failed"
        /\ OnNodeAttemptFailed(row[n], w.att).status
             = IF row[n].status = "running" THEN "eligible" ELSE row[n].status
    BY <1>1, <1>3, TerminalFields, AttemptFailedType
  <2>5. /\ "running" \notin Closing /\ "eligible" \notin Closing
        /\ "running" \notin Cancelling /\ "cancel_requested" \in Cancelling
    BY DEF Closing, Terminal, Cancelling
  <2>6. CASE Append(n, OnNodeTerminal(row[n], "failed", w.att, FALSE))
    BY <1>1, <2>1, <2>2, <2>3, <2>4, <2>5, <2>6, EventMoves
  <2>7. CASE Append(n, OnNodeAttemptFailed(row[n], w.att))
    BY <1>1, <2>1, <2>2, <2>4, <2>5, <2>7, EventMoves
  <2> QED
    BY <2>1, <2>6, <2>7
<1>11. CASE RequeueNode(Ticker, n)
  <2>1. /\ UNCHANGED <<run, traversed>> /\ w.pc = "requeue"
        /\ AppendTransition(n, OnNodeRequeued(row[n], w.att, FALSE))
    BY <1>11 DEF RequeueNode
  <2>2. row[n].status \in {"eligible", "cancel_requested", "cancelled"}
    BY <2>1, WorkerOwns
  <2>3. OnNodeRequeued(row[n], w.att, FALSE).status = row[n].status
    BY <1>1, <1>3, <2>2, RequeuedFields DEF Cancelling
  <2> QED
    BY <1>1, <2>1, <2>3, EventMoves
<1> QED
  BY <1>4, <1>5, <1>6, <1>7, <1>8, <1>9, <1>10, <1>11 DEF WorkerStep

\* The transactions of Recover: it fails only nodes that were started, and
\* cancels only nodes that are being cancelled.
LEMMA CandidateMoves ==
  ASSUME SingleInv, PromiseInv, NEW n \in Nodes, RecoverAt(n)
  PROVE  Moves(n)
<1>1. /\ TypeInv /\ TypeOK /\ row[n] \in Row /\ row[n].latest \in 0 .. AttemptBound
      /\ rec.att \in 0 .. AttemptBound /\ 0 \in 0 .. AttemptBound
  BY AttemptBoundAssumption DEF SingleInv, InflightInv, TypeInv, TypeOK, Row
<1>2. /\ row[n].status \in {"uncertain", "running", "reconciling", "cancel_requested"}
      /\ Phase(n) = rec.phase /\ UNCHANGED run
  BY CandidateIdle DEF Recoverable
<1>3. row[n].status # "cancel_requested" => NodeBegun(n)
  BY <1>2, WorkerOwns
<1>4. /\ "cancel_requested" \notin Terminal
      /\ \A s \in {"uncertain", "running", "reconciling", "waiting", "eligible"} :
           s \notin Closing /\ s \notin Cancelling
      /\ row[n].status \in Cancelling \/ row[n].status \notin Closing
      /\ \A s \in Cancelling : s \notin {"uncertain", "running", "reconciling"}
  BY <1>2 DEF Closing, Terminal, Cancelling
<1>5. ASSUME UNCHANGED traversed, AppendTransition(n, OnNodeWaiting(row[n]))
      PROVE  Moves(n)
  <2>1. OnNodeWaiting(row[n]).status = IF row[n].status \in Cancelling THEN row[n].status ELSE "waiting"
    BY <1>1, WaitingType
  <2> QED
    BY <1>1, <1>2, <1>4, <1>5, <2>1, EventMoves
<1>6. ASSUME UNCHANGED traversed, NEW a \in 0 .. AttemptBound, NEW resume \in BOOLEAN,
             Append(n, OnNodeRequeued(row[n], a, resume))
               \/ AppendTransition(n, OnNodeRequeued(row[n], a, resume))
      PROVE  Moves(n)
  <2>1. OnNodeRequeued(row[n], a, resume).status
          = IF row[n].status \in Cancelling THEN row[n].status ELSE "eligible"
    BY <1>1, RequeuedType
  <2> QED
    BY <1>1, <1>2, <1>4, <1>6, <2>1, EventMoves
<1>7. ASSUME UNCHANGED traversed, NEW a \in Attempts,
             Append(n, OnNodeTerminal(row[n], "failed", a, FALSE))
      PROVE  Moves(n)
  <2>1. OnNodeTerminal(row[n], "failed", a, FALSE).status
          = IF row[n].status \in Cancelling THEN row[n].status ELSE "failed"
    BY <1>1, TerminalFields
  <2>2. row[n].status \in Cancelling \/ (row[n].status \notin Closing /\ NodeBegun(n))
    BY <1>2, <1>3, <1>4 DEF Cancelling
  <2> QED
    BY <1>1, <1>2, <1>7, <2>1, <2>2, EventMoves
<1>8. ASSUME UNCHANGED traversed, NEW a \in 0 .. AttemptBound, row[n].status \in Cancelling,
             Append(n, OnNodeCancelled(row[n], a))
      PROVE  Moves(n)
  <2>1. row[n].status = "cancel_requested"
    BY <1>2, <1>4, <1>8
  <2>2. OnNodeCancelled(row[n], a).status = "cancelled"
    BY <1>1, <1>4, <2>1, CancelledType
  <2> QED
    BY <1>1, <1>2, <1>4, <1>8, <2>1, <2>2, EventMoves DEF Stopped
<1>9. n \in rec.canc \/ rec.phase \in {"cancel", "queryCancelled"} => row[n].status \in Cancelling
  BY <1>2 DEF PromiseInv, ListOK
<1>10. CASE RecoverNode(n)
  <2>1. /\ UNCHANGED traversed
        /\ \/ UNCHANGED row
           \/ n \in rec.canc /\ Append(n, OnNodeCancelled(row[n], row[n].latest))
           \/ AppendTransition(n, OnNodeWaiting(row[n]))
           \/ AppendTransition(n, OnNodeRequeued(row[n], 0, FALSE))
           \/ Append(n, OnNodeReconciling(row[n]))
    BY <1>10 DEF RecoverNode
  <2>2. CASE Append(n, OnNodeReconciling(row[n]))
    <3>1. OnNodeReconciling(row[n]).status
            = IF row[n].status \in Cancelling THEN row[n].status ELSE "reconciling"
      BY <1>1, ReconcilingType
    <3> QED
      BY <1>1, <1>2, <1>4, <2>1, <2>2, <3>1, EventMoves
  <2> QED
    BY <1>1, <1>2, <1>5, <1>6, <1>8, <1>9, <2>1, <2>2, SameMoves
<1>11. CASE ResumeIdempotentAttempt(n)
  BY <1>1, <1>6, <1>11 DEF ResumeIdempotentAttempt
<1>12. CASE ReconcileNode(n) \/ ReconcileCancelledNode(n)
  <2>1. /\ UNCHANGED traversed
        /\ \/ UNCHANGED row
           \/ AppendTransition(n, OnNodeWaiting(row[n]))
           \/ \E a \in Attempts : Append(n, OnNodeTerminal(row[n], "failed", a, FALSE))
    <3>1. row[n].latest > 0 => row[n].latest \in Attempts
      BY <1>1, AttemptBoundAssumption DEF Attempts
    <3>2. rec.phase = "queryCancelled" => rec.att \in Attempts
      BY <1>1 DEF TypeInv, RecOK
    <3> QED
      BY <1>12, <3>1, <3>2 DEF ReconcileNode, ReconcileCancelledNode
  <2> QED
    BY <1>2, <1>5, <1>7, <2>1, SameMoves
<1>13. CASE CommitReconciled(n)
  BY <1>1, <1>2, <1>13 DEF CommitReconciled, Moves, Chooses, TypeInv, RecOK
<1>14. CASE CheckAbsent(n)
  BY <1>2, <1>14, SameMoves DEF CheckAbsent, dbVars
<1>15. CASE SettleAbsent(n)
  BY <1>1, <1>6, <1>8, <1>9, <1>15 DEF SettleAbsent
<1> QED
  BY <1>10, <1>11, <1>12, <1>13, <1>14, <1>15 DEF RecoverAt

-----------------------------------------------------------------------------
(***************************************************************************)
(* The invariant of the promise.                                           *)
(***************************************************************************)
\* What is stopped stays stopped, what is closing stays closing, and who
\* ended a run leaves nobody behind.
LEMMA StoppedStays ==
  ASSUME SingleLoop, SingleInv, [Next]_vars, \A m \in Nodes : Advances(m)
  PROVE  /\ run = "abandoned" => run' = "abandoned"
         /\ \A m \in Nodes : row[m].status \in Cancelling => row'[m].status \in Cancelling
         /\ \A m \in Nodes : Stopped(m) => Stopped(m)'
         /\ \A m \in Nodes : row[m].status \in Closing => row'[m].status \in Closing
<1>1. TypeInv /\ TypeInv'
  BY SingleInvStep DEF SingleInv, InflightInv
<1>2. ASSUME NEW m \in Nodes
      PROVE  KeepsCancel(row[m], row'[m])
  <2>1. CASE Next
    BY <1>1, <2>1, WorkerRows, RecoverRows, OtherRows DEF Next, Quiet
  <2>2. CASE UNCHANGED vars
    BY <2>2 DEF vars, KeepsCancel, Cancelling
  <2> QED
    BY <2>1, <2>2
<1>3. run = "abandoned" => run' = "abandoned"
  BY <1>1, RunStep DEF TryCompleteRun, CancelRun, AbandonRun
<1>4. ASSUME NEW m \in Nodes
      PROVE  /\ row[m].status \in Cancelling => row'[m].status \in Cancelling
             /\ row[m].status \in Closing => row'[m].status \in Closing
  BY <1>2 DEF KeepsCancel, Advances, Closing, Cancelling, Terminal
<1> QED
  BY <1>3, <1>4 DEF Stopped

\* A worker reports its node as cancelled, or remembers a signal, only of a
\* stopped node.
LEMMA WorkerStopped ==
  ASSUME SingleInv, SignalOK, NEW n \in Nodes, WorkerStep(Ticker, n) \/ Abort(Ticker, n),
         work'[Ticker][n].sig \/ work'[Ticker][n].pc = "cancel"
  PROVE  Stopped(n)
<1> DEFINE w == work[Ticker][n]
           w2 == work'[Ticker][n]
<1>1. TypeInv /\ Ticker \in Loops /\ w \in Worker /\ work \in [Loops -> [Nodes -> Worker]]
  BY EngineAssumption DEF SingleInv, InflightInv, TypeInv, TypeOK
<1>2. w.sig \/ w.pc = "cancel" => Stopped(n)
  BY DEF SignalOK
<1>3. ASSUME NEW pc, SetPc(Ticker, n, pc)
      PROVE  w2.pc = pc /\ w2.sig = w.sig
  <2>1. w2 = [w EXCEPT !.pc = pc]
    BY <1>1, <1>3 DEF SetPc
  <2> QED
    BY <1>1, <2>1 DEF Worker
<1>4. ASSUME work' = [work EXCEPT ![Ticker][n] = Idle]
      PROVE  FALSE
  <2>1. w2 = Idle
    BY <1>1, <1>4
  <2> QED
    BY <2>1 DEF Idle
<1>5. CASE ExecuteOk(Ticker, n)
  <2>1. PICK r \in Routes \cup {Always} :
          work' = [work EXCEPT ![Ticker][n].pc = "ok", ![Ticker][n].route = r]
    BY <1>5 DEF ExecuteOk
  <2>2. w2 = [w EXCEPT !.pc = "ok", !.route = r]
    BY <1>1, <2>1
  <2>3. w2.sig = w.sig /\ w2.pc = "ok"
    BY <1>1, <2>2 DEF Worker
  <2> QED
    BY <1>2, <2>3
<1>6. CASE Dispatch(Ticker, n) \/ ExecuteError(Ticker, n) \/ ExecuteCancelled(Ticker, n)
           \/ CheckResult(Ticker, n)
  <2>1. \/ SetPc(Ticker, n, "cancel") /\ (w.sig \/ row[n].status \in Cancelling)
        \/ SetPc(Ticker, n, "exec") \/ SetPc(Ticker, n, "fail")
        \/ SetPc(Ticker, n, "uncertain") \/ SetPc(Ticker, n, "commit")
    BY <1>6 DEF Dispatch, ExecuteError, ExecuteCancelled, CheckResult
  <2> QED
    BY <1>2, <1>3, <2>1 DEF Stopped
<1>7. CASE ~ExecuteOk(Ticker, n) /\ ~(Dispatch(Ticker, n) \/ ExecuteError(Ticker, n)
           \/ ExecuteCancelled(Ticker, n) \/ CheckResult(Ticker, n))
  <2>1. \/ work' = [work EXCEPT ![Ticker][n] = Idle]
        \/ SetPc(Ticker, n, "routing") \/ SetPc(Ticker, n, "tracked") \/ SetPc(Ticker, n, "claimed")
        \/ SetPc(Ticker, n, "fail") \/ SetPc(Ticker, n, "uncertain") \/ SetPc(Ticker, n, "requeue")
    BY <1>7
    DEF WorkerStep, ClaimNonExecutable, FinishRouter, RejectNode, TrackInflight, ClaimAttempt,
        ExecuteTimeout, TimeoutOutcome, ExecuteUncertain, CommitResult, UncertainNode,
        CancelledNode, RecordAttemptFailure, RequeueNode, Abort, Return
  <2> QED
    BY <1>2, <1>3, <1>4, <2>1
<1> QED
  BY <1>5, <1>6, <1>7

\* CancelInflightRun signals the workers of stopped nodes only.
LEMMA SignalStopped ==
  ASSUME SingleInv, PromiseInv, CancelInflightRun, NEW n \in Nodes,
         work'[Ticker][n].sig \/ work'[Ticker][n].pc = "cancel"
  PROVE  Stopped(n)
<1> DEFINE w == work[Ticker][n]
           w2 == work'[Ticker][n]
<1>1. Ticker \in Loops /\ w \in Worker
  BY EngineAssumption DEF SingleInv, InflightInv, TypeInv, TypeOK
<1>2. w.sig \/ w.pc = "cancel" => Stopped(n)
  BY DEF PromiseInv, SignalOK
<1>3. w2 = IF w.pc \in Tracked THEN [w EXCEPT !.sig = TRUE] ELSE w
  BY <1>1 DEF CancelInflightRun
<1>4. CASE w.pc \notin Tracked
  BY <1>2, <1>3, <1>4
<1>5. CASE w.pc \in Tracked
  <2>1. run = "abandoned" \/ AllClosing
    <3>1. loop[Ticker] = "stepping"
      BY <1>5, IdleLoop DEF Tracked
    <3> QED
      BY <3>1 DEF CancelInflightRun, PromiseInv, OpOK, EndQuiet
  <2>2. CASE AllClosing
    <3>1. row[n].status \in Closing
      BY <2>2 DEF AllClosing
    <3>2. row[n].status \in Open \cup {"cancelled", "running", "cancel_requested", "eligible"}
      BY <1>5, WorkerOwns DEF Tracked, Claimed
    <3> QED
      BY <3>1, <3>2 DEF Stopped, Closing, Terminal, Cancelling, Open
  <2> QED
    BY <2>1, <2>2 DEF Stopped
<1> QED
  BY <1>4, <1>5

\* A step that leaves the workers alone or clears them.
WorkersCalm == \A n \in Nodes : work'[Ticker][n].sig \/ work'[Ticker][n].pc = "cancel"
                                  => work[Ticker][n].sig \/ work[Ticker][n].pc = "cancel"

\* Every step.
LEMMA SignalStep ==
  ASSUME SingleLoop, SingleInv, PromiseInv, [Next]_vars, \A m \in Nodes : Advances(m)
  PROVE  SignalOK'
<1>1. TypeInv /\ Ticker \in Loops /\ work \in [Loops -> [Nodes -> Worker]]
  BY EngineAssumption DEF SingleInv, InflightInv, TypeInv, TypeOK
<1>2. SUFFICES ASSUME NEW n \in Nodes, work'[Ticker][n].sig \/ work'[Ticker][n].pc = "cancel"
               PROVE  Stopped(n)
  BY StoppedStays DEF SignalOK
<1>3. ASSUME WorkersCalm
      PROVE  Stopped(n)
  BY <1>2, <1>3 DEF WorkersCalm, PromiseInv, SignalOK
<1>4. ASSUME NEW m \in Nodes, WorkerStep(Ticker, m) \/ Abort(Ticker, m)
      PROVE  Stopped(n)
  <2>1. CASE m = n
    BY <1>2, <1>4, <2>1, WorkerStopped DEF PromiseInv
  <2>2. CASE m # n
    <3>1. Move(Ticker, m)
      BY <1>1, <1>4, WorkerStepMove
    <3>2. work'[Ticker][n] = work[Ticker][n]
      BY <1>1, <2>2, <3>1 DEF Move, Becomes
    <3> QED
      BY <1>2, <3>2 DEF PromiseInv, SignalOK
  <2> QED
    BY <2>1, <2>2
<1>5. CASE CancelInflightRun
  BY <1>2, <1>5, SignalStopped
<1>6. CASE Step(Ticker)
  <2>1. CASE Eligible = {}
    BY <1>3, <1>6, <2>1 DEF Step, WorkersCalm
  <2>2. CASE Eligible # {}
    <3>1. work' = [work EXCEPT ![Ticker] =
             [m \in Nodes |-> IF m \in Eligible
                              THEN [Idle EXCEPT !.pc = "listed", !.att = row[m].count + 1]
                              ELSE Idle]]
      BY <1>6, <2>2 DEF Step
    <3>2. work'[Ticker][n] = IF n \in Eligible
                             THEN [Idle EXCEPT !.pc = "listed", !.att = row[n].count + 1]
                             ELSE Idle
      BY <1>1, <3>1
    <3> QED
      BY <1>2, <3>2 DEF Idle
  <2> QED
    BY <2>1, <2>2
<1>7. CASE Crash
  <2>1. work'[Ticker][n] = Idle
    BY <1>1, <1>7 DEF Crash
  <2> QED
    BY <1>2, <2>1 DEF Idle
<1>8. CASE RecoverStep
  <2>1. UNCHANGED work
    BY <1>8, CandidateIdle DEF RecoverStep, RecoverAt, RecoverScan
  <2> QED
    BY <1>3, <2>1 DEF WorkersCalm
<1>9. CASE \/ StepDone(Ticker) \/ TryCompleteRun(Ticker) \/ CancelRun \/ AbandonRun
           \/ \E o \in Ops : RequestOp(o)
           \/ \E m \in Nodes : ExpireLease(m)
           \/ UNCHANGED vars
  <2>1. UNCHANGED work
    BY <1>9 DEF StepDone, TryCompleteRun, CancelRun, AbandonRun, RequestOp, ExpireLease, procVars, vars
  <2> QED
    BY <1>3, <2>1 DEF WorkersCalm
<1> QED
  BY <1>4, <1>5, <1>6, <1>7, <1>8, <1>9 DEF SingleLoop, Next, LoopStep, OpStep

\* What Recover keeps of its list.
LEMMA ListStep ==
  ASSUME SingleLoop, SingleInv, PromiseInv, [Next]_vars, \A m \in Nodes : Advances(m)
  PROVE  ListOK'
<1>1. /\ TypeInv /\ Ticker \in Loops
      /\ rec \in [todo : SUBSET Nodes, canc : SUBSET Nodes, cur : SUBSET Nodes,
                  phase : RecPhase, att : 0 .. AttemptBound]
  BY EngineAssumption DEF SingleInv, InflightInv, TypeInv, TypeOK
<1>2. SUFFICES ASSUME NEW n \in Nodes,
                      n \in rec'.canc \/ Phase(n)' \in {"cancel", "queryCancelled"}
               PROVE  row[n].status \in Cancelling
  BY StoppedStays DEF ListOK
<1>3. n \in rec.canc \/ Phase(n) \in {"cancel", "queryCancelled"} => row[n].status \in Cancelling
  BY DEF PromiseInv, ListOK
<1>4. ASSUME UNCHANGED rec \/ rec' = NoRec
      PROVE  row[n].status \in Cancelling
  BY <1>2, <1>3, <1>4 DEF Phase, NoRec
<1>5. CASE RecoverScan
  <2>1. rec'.canc = {m \in RecoverList : row[m].status = "cancel_requested"} /\ rec'.cur = {}
    BY <1>5 DEF RecoverScan, NoRec
  <2> QED
    BY <1>2, <2>1 DEF Phase, Cancelling
<1>6. ASSUME NEW m \in Nodes, RecoverAt(m)
      PROVE  row[n].status \in Cancelling
  <2>1. Phase(m) = rec.phase
    BY <1>6, CandidateIdle
  <2>2. ASSUME NEW p, NEW a, InPhase(m, p, a),
               p \in {"cancel", "queryCancelled"} => row[m].status \in Cancelling
        PROVE  row[n].status \in Cancelling
    <3>1. rec'.canc = rec.canc /\ rec'.cur = {m} /\ rec'.phase = p
      BY <1>1, <2>2 DEF InPhase
    <3> QED
      BY <1>2, <1>3, <2>2, <3>1 DEF Phase
  <2>3. ASSUME NextCandidate(m) \/ EndRecover
        PROVE  row[n].status \in Cancelling
    <3>1. CASE EndRecover
      BY <1>4, <3>1 DEF EndRecover
    <3>2. CASE ~EndRecover
      <4>1. rec' = [rec EXCEPT !.todo = @ \ {m}, !.cur = {}, !.phase = "none"]
        BY <2>3, <3>2 DEF NextCandidate
      <4>2. rec'.canc = rec.canc /\ rec'.cur = {}
        BY <1>1, <4>1
      <4> QED
        BY <1>2, <1>3, <4>2 DEF Phase
    <3> QED
      BY <3>1, <3>2
  <2>4. m \in rec.canc \/ rec.phase = "queryCancelled" => row[m].status \in Cancelling
    BY <2>1 DEF PromiseInv, ListOK
  <2>5. CASE RecoverNode(m)
    <3>1. \/ NextCandidate(m) \/ EndRecover
          \/ m \in rec.canc /\ InPhase(m, "queryCancelled", row[m].latest)
          \/ InPhase(m, "resume", row[m].latest)
          \/ InPhase(m, "query", 0)
      BY <2>5 DEF RecoverNode
    <3> QED
      BY <2>2, <2>3, <2>4, <3>1
  <2>6. CASE ReconcileNode(m)
    <3>1. \/ NextCandidate(m) \/ EndRecover
          \/ \E p \in {"commit", "commitNil", "check"} : InPhase(m, p, row[m].latest)
      BY <2>6 DEF ReconcileNode
    <3> QED
      BY <2>2, <2>3, <3>1
  <2>7. CASE ReconcileCancelledNode(m)
    <3>1. /\ rec.phase = "queryCancelled"
          /\ NextCandidate(m) \/ InPhase(m, "cancel", row[m].latest)
      BY <2>7 DEF ReconcileCancelledNode
    <3> QED
      BY <2>2, <2>3, <2>4, <3>1
  <2>8. CASE CheckAbsent(m)
    <3>1. \/ InPhase(m, "requeue", rec.att)
          \/ row[m].status = "cancel_requested" /\ InPhase(m, "cancel", rec.att)
      BY <2>8 DEF CheckAbsent
    <3> QED
      BY <2>2, <3>1 DEF Cancelling
  <2>9. CASE ResumeIdempotentAttempt(m) \/ CommitReconciled(m) \/ SettleAbsent(m)
    BY <2>3, <2>9 DEF ResumeIdempotentAttempt, CommitReconciled, SettleAbsent
  <2> QED
    BY <1>6, <2>5, <2>6, <2>7, <2>8, <2>9 DEF RecoverAt
<1>7. ASSUME NEW m \in Nodes, WorkerStep(Ticker, m) \/ Abort(Ticker, m)
      PROVE  row[n].status \in Cancelling
  BY <1>1, <1>4, <1>7, WorkerStepMove DEF Move
<1>8. CASE \/ LoopStep(Ticker) \/ OpStep \/ Crash
           \/ \E o \in Ops : RequestOp(o)
           \/ \E m \in Nodes : ExpireLease(m)
           \/ UNCHANGED vars
  BY <1>4, <1>8
  DEF LoopStep, Step, StepDone, TryCompleteRun, OpStep, CancelRun, AbandonRun,
      CancelInflightRun, Crash, RequestOp, ExpireLease, procVars, vars
<1> QED
  BY <1>5, <1>6, <1>7, <1>8 DEF SingleLoop, Next, RecoverStep, RecoverAt

\* Every step, sorted by what it may do to the run and the ends of its nodes.
MovesNode == \E n \in Nodes : Moves(n) /\ loop[Ticker] # "idle"

Calm == UNCHANGED <<run, traversed>> /\ \A n \in Nodes : row'[n].status = row[n].status

LEMMA StepKinds ==
  ASSUME SingleLoop, SingleInv, PromiseInv, [Next]_vars
  PROVE  MovesNode \/ Calm \/ CancelRun \/ AbandonRun \/ TryCompleteRun(Ticker)
<1>1. TypeInv /\ TypeOK /\ Ticker \in Loops
  BY EngineAssumption DEF SingleInv, InflightInv, TypeInv
<1>2. ASSUME NEW n \in Nodes, WorkerStep(Ticker, n) \/ Abort(Ticker, n)
      PROVE  MovesNode
  <2>1. work[Ticker][n].pc # "idle"
    BY <1>1, <1>2, WorkerStepMove DEF Move
  <2> QED
    BY <1>2, <2>1, WorkerMoves, IdleLoop DEF MovesNode
<1>3. ASSUME NEW n \in Nodes, RecoverAt(n)
      PROVE  MovesNode
  <2>1. Cand(n)
    BY <1>3, CandidateIdle
  <2> QED
    BY <1>3, <2>1, CandidateMoves, IdleLoop DEF MovesNode
<1>4. ASSUME NEW n \in Nodes, ExpireLease(n)
      PROVE  Calm
  <2>1. /\ UNCHANGED <<run, traversed>>
        /\ row' = [row EXCEPT ![n] = [row[n] EXCEPT !.lease = "expired"]]
    BY <1>4 DEF ExpireLease
  <2>2. \A m \in Nodes : row'[m].status = row[m].status
    BY <1>1, <2>1 DEF TypeOK, Row
  <2> QED
    BY <2>1, <2>2 DEF Calm
<1>5. CASE \/ Step(Ticker) \/ StepDone(Ticker) \/ RecoverScan \/ Crash \/ CancelInflightRun
           \/ \E o \in Ops : RequestOp(o)
           \/ UNCHANGED vars
  BY <1>5
  DEF Step, StepDone, RecoverScan, Crash, CancelInflightRun, RequestOp, dbVars, vars, Calm
<1> QED
  BY <1>2, <1>3, <1>4, <1>5 DEF SingleLoop, Next, LoopStep, RecoverStep, RecoverAt, OpStep

\* CancelRun closes every node, and ends the run if nothing is left to stop.
LEMMA CancelCloses ==
  ASSUME SingleInv, CancelRun, run = "running"
  PROVE  /\ AllClosing'
         /\ \A n \in Nodes :
              IF row[n].status \in Closing THEN row'[n].status = row[n].status
              ELSE row'[n].status \in Cancelling
         /\ run' = IF \E n \in Nodes : row'[n].status = "cancel_requested" THEN run ELSE "cancelled"
         /\ UNCHANGED traversed
<1>1. ASSUME NEW n \in Nodes
      PROVE  /\ row'[n].status \in Closing
             /\ IF row[n].status \in Closing THEN row'[n].status = row[n].status
                ELSE row'[n].status \in Cancelling
  <2>1. row[n] \in Row /\ row'[n] = CancelNode(row[n])
    BY DEF SingleInv, InflightInv, TypeInv, TypeOK, CancelRun
  <2>2. row'[n].status =
              IF row[n].status \in {"running", "uncertain", "reconciling"} THEN "cancel_requested"
              ELSE IF row[n].status \in Terminal \cup {"cancel_requested"} THEN row[n].status
              ELSE "cancelled"
    BY <2>1, CancelNodeFields
  <2> QED
    BY <2>2 DEF Closing, Cancelling, Terminal
<1>2. \A n \in Nodes : row'[n].status \in Active <=> row'[n].status = "cancel_requested"
  BY <1>1 DEF Closing, Terminal, Active
<1>3. run' = IF \E n \in Nodes : row'[n].status \in Active THEN run ELSE "cancelled"
  BY DEF CancelRun
<1>4. AllClosing'
  BY <1>1 DEF AllClosing
<1> QED
  BY <1>1, <1>2, <1>3, <1>4 DEF CancelRun

\* CancelRun is the only step that makes a node of a running run stop.
LEMMA ReachStep ==
  ASSUME SingleLoop, SingleInv, PromiseInv, [Next]_vars, \A m \in Nodes : Advances(m)
  PROVE  CancelReaches'
<1>1. AllClosing => AllClosing'
  BY StoppedStays DEF AllClosing
<1> SUFFICES ASSUME run' = "running", NEW n \in Nodes, row'[n].status \in Cancelling
             PROVE  AllClosing'
  BY DEF CancelReaches
<1>2. ASSUME run = "running", NEW m \in Nodes, row[m].status \in Cancelling
      PROVE  AllClosing'
  BY <1>1, <1>2 DEF PromiseInv, CancelReaches
<1>3. CASE MovesNode
  <2>1. PICK k \in Nodes : Moves(k)
    BY <1>3 DEF MovesNode
  <2>2. run = "running"
    BY <2>1 DEF Moves
  <2>3. \E m \in Nodes : row[m].status \in Cancelling
    <3>1. CASE Chooses(k)
      <4>1. PICK a \in Attempts : \E route, known : CommitNodeSuccess(k, a, route, known)
        BY <3>1 DEF Chooses
      <4>2. CommitEffect(k, n)
        BY <4>1, CommitType DEF SingleInv, InflightInv, TypeInv
      <4> QED
        BY <4>2 DEF CommitEffect, Cancelling
    <3>2. CASE ~Chooses(k)
      <4>1. n # k => row[n].status \in Cancelling
        BY <2>1, <3>2 DEF Moves
      <4>2. CASE n = k
        BY <2>1, <2>2, <3>2, <4>2
        DEF Moves, Keeps, Fails, Stops, Stopped, Closing, Terminal, Cancelling
      <4> QED
        BY <4>1, <4>2
    <3> QED
      BY <3>1, <3>2
  <2> QED
    BY <1>2, <2>2, <2>3
<1>4. CASE Calm
  BY <1>2, <1>4 DEF Calm
<1>5. CASE CancelRun
  <2>1. run = "running"
    BY <1>5 DEF CancelRun
  <2> QED
    BY <1>5, <2>1, CancelCloses
<1>6. CASE AbandonRun \/ TryCompleteRun(Ticker)
  BY <1>2, <1>6 DEF AbandonRun, TryCompleteRun
<1> QED
  BY <1>3, <1>4, <1>5, <1>6, StepKinds

\* An ended run has nobody left who could move a node.
LEMMA QuietStep ==
  ASSUME SingleLoop, SingleInv, PromiseInv, [Next]_vars, \A m \in Nodes : Advances(m)
  PROVE  EndQuiet'
<1>1. TypeInv /\ TypeInv' /\ Ticker \in Loops /\ loop[Ticker] \in {"idle", "stepping", "completing", "recovering"}
  BY SingleInvStep, EngineAssumption DEF SingleInv, InflightInv, TypeInv, TypeOK
<1>2. \A m \in Nodes : row[m].status \in Terminal => row'[m].status \in Terminal
  BY DEF Advances
<1>3. CASE UNCHANGED run /\ (run # "running" /\ loop[Ticker] = "idle" => loop'[Ticker] = "idle")
  BY <1>2, <1>3 DEF PromiseInv, EndQuiet
<1>4. CASE TryCompleteRun(Ticker)
  <2>1. loop'[Ticker] = "idle" /\ UNCHANGED row
    BY <1>1, <1>4 DEF TryCompleteRun, TypeInv, TypeOK
  <2>2. run = "running" /\ run' = "cancelled" => \A m \in Nodes : row'[m].status \in Terminal
    <3> SUFFICES ASSUME run = "running", TerminalEvent = "cancelled", NEW m \in Nodes
                 PROVE  row[m].status \in Terminal
      BY <1>4, <2>1 DEF TryCompleteRun
    <3>1. /\ \A k \in Nodes : row[k].status \notin Active
          /\ \E k \in Nodes : row[k].status = "cancelled"
      BY DEF TerminalEvent
    <3>2. row[m].status \in Closing
      BY <3>1 DEF PromiseInv, CancelReaches, AllClosing, Cancelling
    <3> QED
      BY <3>1, <3>2 DEF Closing, Active
  <2>3. run # "running" => UNCHANGED run
    BY <1>4 DEF TryCompleteRun
  <2> QED
    BY <1>2, <2>1, <2>2, <2>3 DEF PromiseInv, EndQuiet
<1>5. CASE CancelRun
  <2>1. CASE run = "running"
    <3>1. /\ AllClosing'
          /\ run' = IF \E n \in Nodes : row'[n].status = "cancel_requested" THEN run ELSE "cancelled"
      BY <1>5, <2>1, CancelCloses
    <3> QED
      BY <2>1, <3>1 DEF AllClosing, Closing, EndQuiet
  <2>2. CASE run # "running"
    BY <1>2, <1>5, <2>2 DEF CancelRun, PromiseInv, EndQuiet
  <2> QED
    BY <2>1, <2>2
<1>6. CASE AbandonRun
  BY <1>2, <1>6 DEF AbandonRun, PromiseInv, EndQuiet
<1> QED
  BY <1>1, <1>3, <1>4, <1>5, <1>6, RunStep

\* The signal follows CancelRun or AbandonRun.
LEMMA OpSignal ==
  ASSUME [Next]_vars, SingleInv, SingleLoop
  PROVE  op' = "signal" => op = "signal" \/ CancelRun \/ AbandonRun
<1>1. ASSUME NEW n \in Nodes, WorkerStep(Ticker, n) \/ Abort(Ticker, n)
      PROVE  UNCHANGED op
  BY <1>1
  DEF WorkerStep, ClaimNonExecutable, FinishRouter, RejectNode, TrackInflight, ClaimAttempt,
      Dispatch, ExecuteOk, ExecuteError, ExecuteCancelled, ExecuteTimeout, ExecuteUncertain,
      CheckResult, CommitResult, UncertainNode, CancelledNode, RecordAttemptFailure,
      RequeueNode, Abort
<1>2. ASSUME NEW n \in Nodes, RecoverAt(n)
      PROVE  UNCHANGED op
  BY <1>2, CandidateIdle
<1>3. CASE LoopStep(Ticker) \/ RecoverScan \/ Crash \/ CancelInflightRun \/ UNCHANGED vars
  BY <1>3 DEF LoopStep, Step, StepDone, TryCompleteRun, RecoverScan, Crash, CancelInflightRun, vars
<1>4. CASE \E o \in Ops : RequestOp(o)
  BY <1>4, EngineAssumption DEF RequestOp
<1>5. CASE \E n \in Nodes : ExpireLease(n)
  BY <1>5 DEF ExpireLease, procVars
<1> QED
  BY <1>1, <1>2, <1>3, <1>4, <1>5 DEF SingleLoop, Next, RecoverStep, RecoverAt, OpStep

\* Whom the signal reaches.
LEMMA OpStays ==
  ASSUME SingleLoop, SingleInv, PromiseInv, [Next]_vars, \A m \in Nodes : Advances(m)
  PROVE  OpOK'
<1> SUFFICES ASSUME op' = "signal"
             PROVE  run' \in {"abandoned", "completed", "failed"} \/ AllClosing'
  BY DEF OpOK
<1>1. AllClosing => AllClosing'
  BY StoppedStays DEF AllClosing
<1>2. run \in {"abandoned", "completed", "failed"} => UNCHANGED run
  <2>1. TypeInv'
    BY SingleInvStep DEF SingleInv, InflightInv
  <2> QED
    BY <2>1, RunStep DEF TryCompleteRun, CancelRun, AbandonRun
<1>3. CASE op = "signal"
  BY <1>1, <1>2, <1>3 DEF PromiseInv, OpOK
<1>4. run = "cancelled" => AllClosing
  BY DEF PromiseInv, EndQuiet, AllClosing, Closing
<1>5. run \in {"running", "completed", "failed", "cancelled", "abandoned"}
  BY DEF SingleInv, InflightInv, TypeInv, TypeOK
<1>6. CASE CancelRun
  BY <1>1, <1>2, <1>4, <1>5, <1>6, CancelCloses
<1>7. CASE AbandonRun
  BY <1>1, <1>2, <1>4, <1>5, <1>7 DEF AbandonRun
<1> QED
  BY <1>3, <1>6, <1>7, OpSignal

\* The invariant holds initially and is kept.
LEMMA PromiseInvInit ==
  ASSUME Init
  PROVE  PromiseInv
<1>1. Ticker \in Loops
  BY EngineAssumption
<1>2. \A n \in Nodes : row[n].status = "absent" /\ work[Ticker][n] = Idle
  BY <1>1 DEF Init, NoRow
<1>3. SignalOK
  BY <1>2 DEF SignalOK, Idle
<1>4. ListOK
  BY DEF Init, NoRec, ListOK, Phase
<1>5. CancelReaches
  BY <1>2 DEF CancelReaches, Cancelling
<1> QED
  BY <1>3, <1>4, <1>5 DEF Init, PromiseInv, EndQuiet, OpOK

LEMMA PromiseInvStep ==
  ASSUME SingleLoop, SingleInv, PromiseInv, [Next]_vars
  PROVE  PromiseInv'
  BY SingleInvStep, SignalStep, ListStep, ReachStep, QuietStep, OpStays DEF PromiseInv

-----------------------------------------------------------------------------
(***************************************************************************)
(* The refinement.                                                         *)
(***************************************************************************)
\* What the statuses of a node mean for RunOutcome.
LEMMA OutcomeValues ==
  ASSUME TypeOK, NEW n \in Nodes
  PROVE  /\ Outcome(n) \in RunPromise!Outcomes
         /\ row[n].status \notin Closing <=> Outcome(n) = "open"
         /\ row[n].status = "cancel_requested" <=> Outcome(n) = "stopping"
         /\ \A s \in Terminal : row[n].status = s <=> Outcome(n) = s
         /\ row[n].status \in Done <=> Outcome(n) \in RunPromise!DoneOutcome
<1>1. row[n] \in Row
  BY DEF TypeOK
<1> QED
  BY <1>1
  DEF Outcome, Closing, Terminal, Done, RunPromise!Outcomes, RunPromise!DoneOutcome

\* A node that keeps its end.
LEMMA OutcomeKept ==
  ASSUME NEW n \in Nodes, Keeps(n)
  PROVE  Outcome(n)' = Outcome(n)
  BY DEF Keeps, Outcome, Closing

\* A step that changes no end is a stutter.
LEMMA Stutters ==
  ASSUME UNCHANGED <<run, traversed>>, \A n \in Nodes : Keeps(n)
  PROVE  UNCHANGED RunPromise!vars
<1>1. \A n \in Nodes : Outcome(n)' = Outcome(n)
  BY OutcomeKept
<1> QED
  BY <1>1 DEF RunPromise!vars

\* Ready is what RunOutcome calls May, and a node that has not ended moves
\* only in a live run.
LEMMA ReadyIsMay ==
  ASSUME TypeOK, NEW n \in Nodes, Ready(n)
  PROVE  RunPromise!May(n)
<1>1. \A m \in Nodes : row[m].status \in Done => Outcome(m) \in RunPromise!DoneOutcome
  BY OutcomeValues
<1> QED
  BY <1>1 DEF Ready, RunPromise!May

LEMMA LiveRun ==
  ASSUME SingleInv, PromiseInv, loop[Ticker] # "idle", NEW n \in Nodes,
         row[n].status \notin Terminal
  PROVE  RunPromise!Live
<1>1. run \in {"running", "completed", "failed", "cancelled", "abandoned"}
  BY DEF SingleInv, InflightInv, TypeInv, TypeOK
<1> QED
  BY <1>1 DEF PromiseInv, EndQuiet, RunPromise!Live

\* An event of one node.
LEMMA EventImplements ==
  ASSUME SingleInv, PromiseInv, TypeInv', NEW n \in Nodes, loop[Ticker] # "idle",
         UNCHANGED <<run, traversed>>, \A m \in Nodes : m # n => row'[m] = row[m],
         Keeps(n) \/ Fails(n) \/ Stops(n)
  PROVE  RunPromise!Next \/ UNCHANGED RunPromise!vars
<1>1. TypeOK /\ TypeOK'
  BY DEF SingleInv, InflightInv, TypeInv
<1>2. \A m \in Nodes : m # n => Outcome(m)' = Outcome(m)
  BY OutcomeKept DEF Keeps
<1>3. CASE Keeps(n)
  BY <1>3, Stutters DEF Keeps
<1>4. CASE Fails(n)
  <2>1. Outcome(n) = "open" /\ Outcome(n)' = "failed"
    <3>1. Outcome(n) = "open"
      BY <1>1, <1>4, OutcomeValues DEF Fails
    <3>2. Outcome(n)' = "failed"
      BY <1>4 DEF Fails, Outcome, Terminal
    <3> QED
      BY <3>1, <3>2
  <2>2. RunPromise!May(n)
    BY <1>1, <1>4, ReadyIsMay DEF Fails, SingleInv
  <2>3. RunPromise!Live
    BY <1>4, LiveRun DEF Fails, Closing
  <2>4. RunPromise!Fail(n)
    BY <1>2, <2>1, <2>2, <2>3 DEF RunPromise!Fail
  <2> QED
    BY <2>4 DEF RunPromise!Next
<1>5. CASE Stops(n)
  <2>1. Outcome(n)' = "cancelled"
    BY <1>5 DEF Stops, Outcome, Terminal
  <2>2. Outcome(n) = "stopping" \/ (Outcome(n) = "open" /\ run = "abandoned")
    BY <1>5 DEF Stops, Stopped, Outcome, Terminal, Cancelling
  <2>3. RunPromise!Live
    BY <1>5, LiveRun DEF Stops
  <2>4. RunPromise!Stop(n)
    BY <1>2, <2>1, <2>2, <2>3 DEF RunPromise!Stop
  <2> QED
    BY <2>4 DEF RunPromise!Next
<1> QED
  BY <1>3, <1>4, <1>5

\* commitNodeSuccess: the node finishes with the routes it selected, and the
\* skipped targets were open and can be reached from it only.
LEMMA CommitImplements ==
  ASSUME SingleInv, PromiseInv, TypeInv', NEW n \in Nodes, loop[Ticker] # "idle",
         UNCHANGED run, Chooses(n)
  PROVE  RunPromise!Next \/ UNCHANGED RunPromise!vars
<1>1. TypeOK /\ TypeOK' /\ row \in [Nodes -> Row]
  BY DEF SingleInv, InflightInv, TypeInv, TypeOK
<1>2. PICK a \in Attempts : \E route \in Routes \cup {Always} : \E known \in BOOLEAN :
        CommitNodeSuccess(n, a, route, known)
  BY DEF Chooses
<1>3. PICK route \in Routes \cup {Always} : \E known \in BOOLEAN : CommitNodeSuccess(n, a, route, known)
  BY <1>2
<1>4. PICK known \in BOOLEAN : CommitNodeSuccess(n, a, route, known)
  BY <1>3
<1>5. CASE row[n].status \in {"running", "reconciling"}
  <2> DEFINE chosen == Selected(n, route, known)
             skips == {m \in Nodes : m # n /\ row[m].status = "absent" /\ row'[m].status = "skipped"}
  <2>1. traversed' = traversed \cup chosen
    BY <1>4, <1>5 DEF CommitNodeSuccess
  <2>2. chosen \in RouteChoices(n)
    BY DEF RouteChoices, Selected
  <2>3. row'[n].status = "succeeded"
    BY <1>1, <1>4, <1>5, CommitRows
  <2>4. Outcome(n) = "open" /\ Outcome(n)' = "succeeded"
    BY <1>5, <2>3 DEF Outcome, Terminal
  <2>5. RunPromise!May(n) /\ RunPromise!Live
    <3>1. NodeBegun(n) /\ row[n].status \notin Terminal
      BY <1>5, WorkerOwns DEF Terminal, NodeBegun, Begun
    <3> QED
      BY <1>1, <3>1, ReadyIsMay, LiveRun DEF SingleInv
  <2>6. ASSUME NEW m \in skips
        PROVE  /\ m \in Nodes /\ Outcome(m) = "open" /\ Outcome(m)' = "skipped"
               /\ \E e \in RouteEdges : e.to = m
               /\ \A e \in RouteEdges : e.to = m => e.from = n /\ e \notin chosen
    <3>1. m \in Unselected(n, route, known)
      BY <1>1, <1>4, <2>6, CommitRows
    <3> QED
      BY <2>6, <3>1 DEF Unselected, Outcome, Terminal
  <2>7. ASSUME NEW m \in Nodes, m # n, m \notin skips
        PROVE  Outcome(m)' = Outcome(m)
    <3>1. \/ row'[m].status = row[m].status
          \/ row[m].status = "absent" /\ row'[m].status = "pending"
      BY <1>1, <1>4, <2>7, CommitRows
    <3> QED
      BY <3>1 DEF Outcome, Terminal
  <2>8. n \notin skips
    OBVIOUS
  <2> HIDE DEF chosen, skips
  <2>9. RunPromise!Finish(n, chosen, skips)
    BY <2>1, <2>4, <2>5, <2>6, <2>7, <2>8 DEF RunPromise!Finish
  <2>10. skips \in SUBSET Nodes
    BY <2>6
  <2> QED
    BY <2>2, <2>9, <2>10 DEF RunPromise!Next
<1>6. CASE row[n].status = "cancel_requested"
  <2>1. UNCHANGED traversed /\ row' = [row EXCEPT ![n] = OnNodeCancelled(row[n], a)]
    BY <1>4, <1>6 DEF CommitNodeSuccess
  <2>2. row'[n].status = "cancelled"
    BY <1>1, <1>4, <1>6, CommitRows
  <2>3. \A m \in Nodes : m # n => row'[m] = row[m]
    BY <1>1, <2>1
  <2> QED
    BY <1>6, <2>1, <2>2, <2>3, EventImplements DEF Stops, Stopped, Terminal, Cancelling
<1>7. CASE row[n].status \notin {"running", "reconciling", "cancel_requested"}
  BY <1>4, <1>7, Stutters DEF CommitNodeSuccess, Keeps
<1> QED
  BY <1>5, <1>6, <1>7

\* CancelRun.
LEMMA CancelImplements ==
  ASSUME SingleInv, TypeInv', CancelRun
  PROVE  RunPromise!Next \/ UNCHANGED RunPromise!vars
<1>1. TypeOK /\ TypeOK'
  BY DEF SingleInv, InflightInv, TypeInv
<1>2. CASE run = "running"
  <2>1. /\ \A n \in Nodes :
             IF row[n].status \in Closing THEN row'[n].status = row[n].status
             ELSE row'[n].status \in Cancelling
        /\ run' = IF \E n \in Nodes : row'[n].status = "cancel_requested" THEN run ELSE "cancelled"
        /\ UNCHANGED traversed
    BY <1>2, CancelCloses
  <2>2. \A n \in Nodes : IF Outcome(n) = "open" THEN Outcome(n)' \in {"stopping", "cancelled"}
                         ELSE Outcome(n)' = Outcome(n)
    BY <2>1 DEF Outcome, Closing, Cancelling, Terminal
  <2>3. \A n \in Nodes : row'[n].status = "cancel_requested" <=> Outcome(n)' = "stopping"
    BY DEF Outcome, Terminal
  <2>4. \A n \in Nodes : Outcome(n)' \in RunPromise!Outcomes
    <3>1. \A n \in Nodes : Outcome(n) \in RunPromise!Outcomes
      BY <1>1, OutcomeValues
    <3> QED
      BY <2>2, <3>1 DEF RunPromise!Outcomes
  <2>5. run' = IF \E n \in Nodes : Outcome(n)' = "stopping" THEN run ELSE "cancelled"
    BY <2>1, <2>3
  <2>6. RunPromise!RequestCancel
    BY <1>2, <2>1, <2>2, <2>4, <2>5 DEF RunPromise!RequestCancel
  <2> QED
    BY <2>6 DEF RunPromise!Next
<1>3. CASE run # "running"
  BY <1>3, Stutters DEF CancelRun, Keeps
<1> QED
  BY <1>2, <1>3

\* tryCompleteRun.
LEMMA EndImplements ==
  ASSUME SingleInv, PromiseInv, TryCompleteRun(Ticker)
  PROVE  RunPromise!Next \/ UNCHANGED RunPromise!vars
<1>1. TypeOK /\ UNCHANGED <<row, traversed>>
  BY DEF SingleInv, InflightInv, TypeInv, TryCompleteRun
<1>2. \A n \in Nodes : Keeps(n) /\ Outcome(n)' = Outcome(n)
  BY <1>1, OutcomeKept DEF Keeps
<1>3. CASE UNCHANGED run
  BY <1>1, <1>2, <1>3, Stutters
<1>4. CASE run' # run
  <2>1. run = "running" /\ run' = TerminalEvent /\ TerminalEvent # "running"
    BY <1>4 DEF TryCompleteRun
  <2>2. run' \in {"failed", "cancelled", "completed"}
    BY <2>1 DEF TerminalEvent
  <2>3. run' = "failed" => \E n \in Nodes : Outcome(n) = "failed"
    BY <2>1 DEF TerminalEvent, Outcome, Terminal
  <2>4. ASSUME run' = "cancelled"
        PROVE  /\ \A n \in Nodes : Outcome(n) \in RunPromise!DoneOutcome \cup {"cancelled"}
               /\ \E n \in Nodes : Outcome(n) = "cancelled"
    <3>1. /\ \A n \in Nodes : row[n].status \notin Active \cup {"failed"}
          /\ \E n \in Nodes : row[n].status = "cancelled"
      BY <2>1, <2>4 DEF TerminalEvent
    <3>2. \A n \in Nodes : row[n].status \in Closing
      BY <2>1, <3>1 DEF PromiseInv, CancelReaches, AllClosing, Cancelling
    <3>3. \A n \in Nodes : row[n].status \in {"succeeded", "skipped", "cancelled"}
      BY <3>1, <3>2 DEF Closing, Terminal, Active
    <3> QED
      BY <3>1, <3>3 DEF Outcome, Terminal, RunPromise!DoneOutcome
  <2>5. run' = "completed" => \A n \in Nodes : Outcome(n) \in RunPromise!DoneOutcome
    BY <1>1, <2>1, OutcomeValues DEF TerminalEvent
  <2>6. RunPromise!End
    BY <1>1, <1>2, <2>1, <2>2, <2>3, <2>4, <2>5 DEF RunPromise!End
  <2> QED
    BY <2>6 DEF RunPromise!Next
<1> QED
  BY <1>3, <1>4

\* Every step.
LEMMA StepImplements ==
  ASSUME SingleLoop, SingleInv, PromiseInv, [Next]_vars
  PROVE  [RunPromise!Next]_(RunPromise!vars)
<1>1. TypeInv'
  BY SingleInvStep DEF SingleInv, InflightInv
<1>2. CASE MovesNode
  BY <1>1, <1>2, EventImplements, CommitImplements DEF MovesNode, Moves
<1>3. CASE Calm
  BY <1>3, Stutters DEF Calm, Keeps
<1>4. CASE AbandonRun
  <2>1. UNCHANGED <<row, traversed>>
    BY <1>4 DEF AbandonRun
  <2>2. \A n \in Nodes : Keeps(n) /\ Outcome(n)' = Outcome(n)
    BY <2>1, OutcomeKept DEF Keeps
  <2>3. CASE run = "running"
    BY <1>4, <2>1, <2>2, <2>3 DEF AbandonRun, RunPromise!Abandon, RunPromise!Next
  <2>4. CASE run # "running"
    BY <1>4, <2>1, <2>2, <2>4, Stutters DEF AbandonRun
  <2> QED
    BY <2>3, <2>4
<1> QED
  BY <1>1, <1>2, <1>3, <1>4, StepKinds, CancelImplements, EndImplements

\* One step loop implements RunOutcome: however workers, retries, Recover,
\* CancelRun, AbandonRun, lost leases and crashes interleave, a node ends once
\* and only after what it waits for, takes its routes in the step that
\* finishes it, and is skipped only by the node that could have routed to it;
\* a cancelled run finishes no further node; and the end of the run agrees
\* with the ends of its nodes.
THEOREM SingleLoopImplementsRun ==
  ASSUME SingleLoop
  PROVE  Spec => ImplementsRun
<1>1. Init => RunPromise!Init
  <2> SUFFICES ASSUME Init PROVE RunPromise!Init
    OBVIOUS
  <2>1. \A n \in Nodes : Outcome(n) = "open"
    BY DEF Init, NoRow, Outcome, Terminal
  <2> QED
    BY <2>1 DEF Init, RunPromise!Init
<1> QED
  BY <1>1, SingleInvInit, SingleInvStep, PromiseInvInit, PromiseInvStep, StepImplements, PTL
  DEF Spec, ImplementsRun, RunPromise!Spec
=============================================================================
