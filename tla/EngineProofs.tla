----------------------------- MODULE EngineProofs -----------------------------
(***************************************************************************)
(* Theorems about Engine for every graph, every number of step loops and   *)
(* every bound.  The handlers of Projection are used only through the      *)
(* lemmas of ProjectionProofs.                                             *)
(***************************************************************************)
EXTENDS Engine, ProjectionProofs

-----------------------------------------------------------------------------
(***************************************************************************)
(* The strengthening of TypeOK: attempt rows are addressed with a real     *)
(* attempt number by every worker and by the phases of Recover that append *)
(* an event of the attempt.                                                *)
(***************************************************************************)
AttOK == \A l \in Loops, n \in Nodes :
           work[l][n].pc # "idle" => work[l][n].att \in Attempts

RecOK == /\ rec.phase \in {"queryCancelled", "commit", "commitNil"} => rec.att \in Attempts
         /\ rec.todo \subseteq Nodes /\ rec.cur \subseteq Nodes

TypeInv == TypeOK /\ AttOK /\ RecOK

\* What one handler call does to the rows.
LEMMA AppendType ==
  ASSUME TypeOK, NEW n \in Nodes, NEW new \in Row, Append(n, new)
  PROVE  row' \in [Nodes -> Row]
  BY DEF TypeOK, Append

\* The same for the guarded transitions.
LEMMA TransitionType ==
  ASSUME TypeOK, NEW n \in Nodes, NEW new \in Row, AppendTransition(n, new)
  PROVE  row' \in [Nodes -> Row]
  BY DEF TypeOK, AppendTransition

\* The worker of l for n becomes w, the others stay as they are.
Becomes(l, n, w) == work' = [work EXCEPT ![l] = [work[l] EXCEPT ![n] = w]]

\* Replacing one worker by a worker keeps the type of work.
LEMMA WorkType ==
  ASSUME TypeInv, NEW l \in Loops, NEW n \in Nodes, NEW w \in Worker,
         w.pc # "idle" => w.att \in Attempts, Becomes(l, n, w)
  PROVE  work' \in [Loops -> [Nodes -> Worker]] /\ AttOK'
<1>1. work \in [Loops -> [Nodes -> Worker]]
  BY DEF TypeInv, TypeOK
<1>2. work' \in [Loops -> [Nodes -> Worker]]
  BY <1>1 DEF Becomes
<1>3. AttOK'
  <2> SUFFICES ASSUME NEW k \in Loops, NEW m \in Nodes, work'[k][m].pc # "idle"
               PROVE  work'[k][m].att \in Attempts
    BY DEF AttOK
  <2>1. work'[k][m] = IF k = l /\ m = n THEN w ELSE work[k][m]
    BY <1>1 DEF Becomes
  <2> QED
    BY <2>1 DEF TypeInv, AttOK
<1> QED
  BY <1>2, <1>3

\* A worker that changes its state keeps its attempt number.
LEMMA SetPcType ==
  ASSUME TypeInv, NEW l \in Loops, NEW n \in Nodes, NEW pc \in WorkerPc,
         work[l][n].pc # "idle", SetPc(l, n, pc)
  PROVE  work' \in [Loops -> [Nodes -> Worker]] /\ AttOK'
<1> DEFINE w == [work[l][n] EXCEPT !.pc = pc]
<1>1. work[l][n] \in Worker
  BY DEF TypeInv, TypeOK
<1>2. w \in Worker /\ w.att = work[l][n].att
  BY <1>1 DEF Worker, WorkerPc
<1>3. Becomes(l, n, w)
  BY DEF SetPc, Becomes
<1>4. w.att \in Attempts
  BY <1>2 DEF TypeInv, AttOK
<1> HIDE DEF w
<1> QED
  BY <1>2, <1>3, <1>4, WorkType

\* An idle worker is a worker.
LEMMA IdleType == Idle \in Worker /\ Idle.pc = "idle"
  BY AttemptBoundAssumption DEF Idle, Worker, WorkerPc

\* A worker that returns is idle.
LEMMA ReturnWork ==
  ASSUME TypeInv, NEW l \in Loops, NEW n \in Nodes,
         work' = [work EXCEPT ![l][n] = Idle]
  PROVE  work' \in [Loops -> [Nodes -> Worker]] /\ AttOK'
<1>1. Becomes(l, n, Idle)
  BY DEF Becomes
<1> QED
  BY <1>1, IdleType, WorkType

\* executeNode returns.
LEMMA ReturnType ==
  ASSUME TypeInv, NEW l \in Loops, NEW n \in Nodes, Return(l, n)
  PROVE  /\ work' \in [Loops -> [Nodes -> Worker]] /\ AttOK'
         /\ inflight' \subseteq Nodes
<1>1. work' = [work EXCEPT ![l][n] = Idle]
  BY DEF Return
<1>2. inflight' \subseteq Nodes
  BY DEF Return, TypeInv, TypeOK
<1> QED
  BY <1>1, <1>2, ReturnWork

-----------------------------------------------------------------------------
(***************************************************************************)
(* commitNodeSuccess.                                                      *)
(***************************************************************************)
\* Failing closed touches only nodes without a row.
LEMMA SkipsType ==
  ASSUME NEW rows \in [Nodes -> Row], NEW targets
  PROVE  /\ WithSkips(rows, targets) \in [Nodes -> Row]
         /\ \A m \in Nodes :
              \/ WithSkips(rows, targets)[m] = rows[m]
              \/ rows[m].status = "absent" /\ WithSkips(rows, targets)[m].status = "skipped"
<1> SUFFICES ASSUME NEW m \in Nodes
             PROVE  /\ WithSkips(rows, targets)[m] \in Row
                    /\ \/ WithSkips(rows, targets)[m] = rows[m]
                       \/ rows[m].status = "absent" /\ WithSkips(rows, targets)[m].status = "skipped"
  BY DEF WithSkips
<1>1. rows[m] \in Row
  OBVIOUS
<1>2. CASE m \in targets /\ rows[m].status = "absent"
  <2>1. WithSkips(rows, targets)[m] = OnNodeSkipped(EnsureRunNode(rows[m]))
    BY <1>2 DEF WithSkips
  <2>2. EnsureRunNode(rows[m]) \in Row /\ EnsureRunNode(rows[m]).status = "pending"
    BY <1>1, <1>2, EnsureType
  <2>3. /\ OnNodeSkipped(EnsureRunNode(rows[m])) \in Row
        /\ OnNodeSkipped(EnsureRunNode(rows[m])).status = "skipped"
    BY <2>2, SkippedType DEF Cancelling
  <2> QED
    BY <1>2, <2>1, <2>3
<1>3. CASE ~(m \in targets /\ rows[m].status = "absent")
  BY <1>1, <1>3 DEF WithSkips
<1> QED
  BY <1>2, <1>3

\* The decisions only materialise rows as pending.
LEMMA DecisionsType ==
  ASSUME NEW rows \in [Nodes -> Row], NEW n, NEW selected
  PROVE  /\ WithDecisions(rows, n, selected) \in [Nodes -> Row]
         /\ \A m \in Nodes :
              \/ WithDecisions(rows, n, selected)[m] = rows[m]
              \/ /\ rows[m].status = "absent"
                 /\ WithDecisions(rows, n, selected)[m].status = "pending"
<1> SUFFICES ASSUME NEW m \in Nodes
             PROVE  /\ WithDecisions(rows, n, selected)[m] \in Row
                    /\ \/ WithDecisions(rows, n, selected)[m] = rows[m]
                       \/ /\ rows[m].status = "absent"
                          /\ WithDecisions(rows, n, selected)[m].status = "pending"
  BY DEF WithDecisions
<1>1. rows[m] \in Row
  OBVIOUS
<1>2. \/ WithDecisions(rows, n, selected)[m] = rows[m]
      \/ WithDecisions(rows, n, selected)[m] = EnsureRunNode(rows[m])
  BY DEF WithDecisions
<1>3. /\ EnsureRunNode(rows[m]) \in Row
      /\ \/ EnsureRunNode(rows[m]) = rows[m]
         \/ rows[m].status = "absent" /\ EnsureRunNode(rows[m]).status = "pending"
  BY <1>1, EnsureType DEF EnsureRunNode
<1> QED
  BY <1>1, <1>2, <1>3

\* What commitNodeSuccess may do to the row of each node.
CommitEffect(n, m) ==
  \/ row'[m] = row[m]
  \/ row[m].status = "absent" /\ row'[m].status \in {"pending", "skipped"}
  \/ m = n /\ row[m].status \in {"running", "reconciling"} /\ row'[m].status = "succeeded"
  \/ m = n /\ row[m].status = "cancel_requested" /\ row'[m].status = "cancelled"

\* commitNodeSuccess keeps the types of the rows and of the edges it changes.
LEMMA CommitType ==
  ASSUME TypeOK, NEW n \in Nodes, NEW a \in Attempts, NEW route, NEW known,
         CommitNodeSuccess(n, a, route, known)
  PROVE  /\ row' \in [Nodes -> Row]
         /\ traversed' \subseteq RouteEdges
         /\ \A m \in Nodes : CommitEffect(n, m)
<1>1. row \in [Nodes -> Row] /\ row[n] \in Row
  BY DEF TypeOK
<1>2. traversed' \subseteq RouteEdges
  BY DEF CommitNodeSuccess, Selected, TypeOK
<1>3. CASE row[n].status = "cancel_requested"
  <2>1. row' = [row EXCEPT ![n] = OnNodeCancelled(row[n], a)]
    BY <1>3 DEF CommitNodeSuccess
  <2>2. OnNodeCancelled(row[n], a) \in Row /\ OnNodeCancelled(row[n], a).status = "cancelled"
    BY <1>1, <1>3, CancelledType DEF Terminal, Attempts
  <2> QED
    BY <1>1, <1>2, <1>3, <2>1, <2>2 DEF CommitEffect
<1>4. CASE row[n].status \in {"running", "reconciling"}
  <2> DEFINE done  == [row EXCEPT ![n] = OnNodeTerminal(row[n], "succeeded", a, FALSE)]
             skips == WithSkips(done, Unselected(n, route, known))
             rows  == WithDecisions(skips, n, Selected(n, route, known))
  <2>1. row' = rows
    BY <1>4 DEF CommitNodeSuccess, Finished
  <2>2. /\ OnNodeTerminal(row[n], "succeeded", a, FALSE) \in Row
        /\ OnNodeTerminal(row[n], "succeeded", a, FALSE).status = "succeeded"
    BY <1>1, <1>4, TerminalType DEF Cancelling
  <2>3. /\ done \in [Nodes -> Row] /\ done[n].status = "succeeded"
        /\ \A m \in Nodes : m # n => done[m] = row[m]
    BY <1>1, <2>2
  <2> HIDE DEF done
  <2>4. /\ skips \in [Nodes -> Row]
        /\ \A m \in Nodes : \/ skips[m] = done[m]
                            \/ done[m].status = "absent" /\ skips[m].status = "skipped"
    BY <2>3, SkipsType
  <2> HIDE DEF skips
  <2>5. /\ rows \in [Nodes -> Row]
        /\ \A m \in Nodes : \/ rows[m] = skips[m]
                            \/ skips[m].status = "absent" /\ rows[m].status = "pending"
    BY <2>4, DecisionsType
  <2> HIDE DEF rows
  <2>6. ASSUME NEW m \in Nodes PROVE CommitEffect(n, m)
    BY <1>4, <2>1, <2>3, <2>4, <2>5 DEF CommitEffect
  <2> QED
    BY <1>2, <2>1, <2>5, <2>6
<1>5. CASE row[n].status \notin {"running", "reconciling", "cancel_requested"}
  <2>1. row' = row
    BY <1>5 DEF CommitNodeSuccess
  <2> QED
    BY <1>1, <1>2, <2>1 DEF CommitEffect
<1> QED
  BY <1>3, <1>4, <1>5

-----------------------------------------------------------------------------
(***************************************************************************)
(* Type correctness, action by action.                                     *)
(***************************************************************************)
\* A fault stays within the bound.
LEMMA FaultType ==
  ASSUME TypeInv, Fault
  PROVE  faults' \in 0 .. MaxFaults
  BY EngineAssumption DEF TypeInv, TypeOK, Fault

\* Every step of a worker keeps TypeInv.
LEMMA WorkerStepType ==
  ASSUME TypeInv, NEW l \in Loops, NEW n \in Nodes, WorkerStep(l, n)
  PROVE  TypeInv'
<1>1. row[n] \in Row /\ work[l][n] \in Worker
  BY DEF TypeInv, TypeOK
<1>2. work[l][n].pc # "idle" => work[l][n].att \in Attempts
  BY DEF TypeInv, AttOK
<1>3. 1 \in Attempts
  BY AttemptBoundAssumption DEF Attempts
<1>4. CASE ClaimNonExecutable(l, n)
  <2>1. CASE Claimable(n)
    <3>1. OnNodeStarted(row[n], 1, FALSE) \in Row
      BY <1>1, <1>3, StartedType
    <3>2. row' \in [Nodes -> Row]
      BY <1>4, <2>1, <3>1, AppendType DEF ClaimNonExecutable, TypeInv
    <3>3. work' \in [Loops -> [Nodes -> Worker]] /\ AttOK'
      BY <1>4, <2>1, SetPcType DEF ClaimNonExecutable, WorkerPc
    <3> QED
      BY <1>4, <3>2, <3>3
      DEF ClaimNonExecutable, TypeInv, TypeOK, RecOK, histVars
  <2>2. CASE ~Claimable(n)
    <3>1. work' \in [Loops -> [Nodes -> Worker]] /\ AttOK'
      BY <1>4, <2>2, ReturnWork DEF ClaimNonExecutable
    <3> QED
      BY <1>4, <2>2, <3>1
      DEF ClaimNonExecutable, TypeInv, TypeOK, RecOK, histVars
  <2> QED
    BY <2>1, <2>2
<1>5. CASE FinishRouter(l, n)
  <2>1. /\ work' \in [Loops -> [Nodes -> Worker]] /\ AttOK'
        /\ inflight' \subseteq Nodes
    BY <1>5, ReturnType DEF FinishRouter
  <2>2. work[l][n].att \in Attempts
    BY <1>2, <1>5 DEF FinishRouter
  <2>3. row' \in [Nodes -> Row] /\ traversed' \subseteq RouteEdges
    <3>1. CASE CommitNodeSuccess(n, work[l][n].att, Always, TRUE)
      BY <2>2, <3>1, CommitType DEF TypeInv
    <3>2. CASE Append(n, OnNodeCancelled(row[n], work[l][n].att)) /\ UNCHANGED traversed
      <4>1. OnNodeCancelled(row[n], work[l][n].att) \in Row
        BY <1>1, <2>2, CancelledType DEF Attempts
      <4> QED
        BY <3>2, <4>1, AppendType DEF TypeInv, TypeOK
    <3> QED
      BY <1>5, <3>1, <3>2 DEF FinishRouter
  <2> QED
    BY <1>5, <2>1, <2>3 DEF FinishRouter, TypeInv, TypeOK, RecOK, histVars
<1>6. CASE RejectNode(l, n)
  <2>1. /\ work' \in [Loops -> [Nodes -> Worker]] /\ AttOK'
        /\ inflight' \subseteq Nodes
    BY <1>6, ReturnType DEF RejectNode
  <2>2. PICK keyed \in BOOLEAN :
          Append(n, OnNodeTerminal(EnsureRunNode(row[n]), "failed", work[l][n].att, keyed))
    BY <1>6 DEF RejectNode
  <2>3. OnNodeTerminal(EnsureRunNode(row[n]), "failed", work[l][n].att, keyed) \in Row
    BY <1>1, <1>2, <1>6, EnsureType, TerminalType DEF RejectNode
  <2>4. row' \in [Nodes -> Row]
    BY <2>2, <2>3, AppendType DEF TypeInv
  <2> QED
    BY <1>6, <2>1, <2>4 DEF RejectNode, TypeInv, TypeOK, RecOK, histVars
<1>7. CASE TrackInflight(l, n)
  <2>1. work' \in [Loops -> [Nodes -> Worker]] /\ AttOK'
    BY <1>7, ReturnWork, SetPcType DEF TrackInflight, WorkerPc
  <2>2. inflight' \subseteq Nodes
    BY <1>7 DEF TrackInflight, TypeInv, TypeOK
  <2> QED
    BY <1>7, <2>1, <2>2 DEF TrackInflight, TypeInv, TypeOK, RecOK, dbVars, histVars
<1>8. CASE ClaimAttempt(l, n)
  <2>1. work[l][n].att \in Attempts
    BY <1>2, <1>8 DEF ClaimAttempt
  <2>2. OnNodeStarted(row[n], work[l][n].att, TRUE) \in Row
    BY <1>1, <2>1, StartedType
  <2>3. row' \in [Nodes -> Row]
    BY <1>8, <2>2, AppendType DEF ClaimAttempt, TypeInv, TypeOK
  <2>4. /\ work' \in [Loops -> [Nodes -> Worker]] /\ AttOK'
        /\ inflight' \subseteq Nodes
    BY <1>8, ReturnType, SetPcType DEF ClaimAttempt, WorkerPc, TypeInv, TypeOK
  <2> QED
    BY <1>8, <2>3, <2>4 DEF ClaimAttempt, TypeInv, TypeOK, RecOK, histVars
<1>9. CASE Dispatch(l, n)
  <2>1. work' \in [Loops -> [Nodes -> Worker]] /\ AttOK'
    BY <1>9, SetPcType DEF Dispatch, WorkerPc
  <2>2. effect' \in [Nodes -> {"clear", "maybe", "applied"}]
    BY <1>9 DEF Dispatch, TypeInv, TypeOK
  <2> QED
    BY <1>9, <2>1, <2>2 DEF Dispatch, TypeInv, TypeOK, RecOK, dbVars
<1>10. CASE ExecuteOk(l, n)
  <2>1. PICK r \in Routes \cup {Always} :
          work' = [work EXCEPT ![l][n].pc = "ok", ![l][n].route = r]
    BY <1>10 DEF ExecuteOk
  <2> DEFINE w == [work[l][n] EXCEPT !.pc = "ok", !.route = r]
  <2>2. w \in Worker /\ w.att = work[l][n].att
    BY <1>1 DEF Worker, WorkerPc
  <2>3. Becomes(l, n, w)
    BY <2>1 DEF Becomes, TypeInv, TypeOK
  <2>4. w.att \in Attempts
    BY <1>2, <1>10, <2>2 DEF ExecuteOk
  <2> HIDE DEF w
  <2>5. work' \in [Loops -> [Nodes -> Worker]] /\ AttOK'
    BY <2>2, <2>3, <2>4, WorkType
  <2>6. effect' \in [Nodes -> {"clear", "maybe", "applied"}]
    BY <1>10 DEF ExecuteOk, TypeInv, TypeOK
  <2> QED
    BY <1>10, <2>5, <2>6 DEF ExecuteOk, TypeInv, TypeOK, RecOK, dbVars
<1>11. CASE ExecuteError(l, n)
  <2>1. work' \in [Loops -> [Nodes -> Worker]] /\ AttOK'
    BY <1>11, SetPcType DEF ExecuteError, WorkerPc
  <2>2. effect' \in [Nodes -> {"clear", "maybe", "applied"}] /\ failures' \in [Nodes -> Nat]
    BY <1>11 DEF ExecuteError, TypeInv, TypeOK
  <2> QED
    BY <1>11, <2>1, <2>2 DEF ExecuteError, TypeInv, TypeOK, RecOK, dbVars
<1>12. CASE ExecuteCancelled(l, n)
  <2>1. work' \in [Loops -> [Nodes -> Worker]] /\ AttOK'
    BY <1>12, SetPcType DEF ExecuteCancelled, WorkerPc
  <2> QED
    BY <1>12, <2>1 DEF ExecuteCancelled, TypeInv, TypeOK, RecOK, dbVars, histVars
<1>13. CASE ExecuteTimeout(l, n)
  <2>1. work' \in [Loops -> [Nodes -> Worker]] /\ AttOK'
    BY <1>13, SetPcType DEF ExecuteTimeout, TimeoutOutcome, WorkerPc
  <2>2. failures' \in [Nodes -> Nat]
    BY <1>13 DEF ExecuteTimeout, TypeInv, TypeOK
  <2>3. faults' \in 0 .. MaxFaults
    BY <1>13, FaultType DEF ExecuteTimeout
  <2> QED
    BY <1>13, <2>1, <2>2, <2>3 DEF ExecuteTimeout, TypeInv, TypeOK, RecOK, dbVars
<1>14. CASE ExecuteUncertain(l, n)
  <2>1. work' \in [Loops -> [Nodes -> Worker]] /\ AttOK'
    BY <1>14, SetPcType DEF ExecuteUncertain, WorkerPc
  <2>2. faults' \in 0 .. MaxFaults
    BY <1>14, FaultType DEF ExecuteUncertain
  <2> QED
    BY <1>14, <2>1, <2>2 DEF ExecuteUncertain, TypeInv, TypeOK, RecOK, dbVars, histVars
<1>15. CASE CheckResult(l, n)
  <2>1. work' \in [Loops -> [Nodes -> Worker]] /\ AttOK'
    BY <1>15, SetPcType DEF CheckResult, WorkerPc
  <2>2. faults' \in 0 .. MaxFaults
    BY <1>15, FaultType DEF CheckResult, TypeInv, TypeOK
  <2> QED
    BY <1>15, <2>1, <2>2 DEF CheckResult, TypeInv, TypeOK, RecOK, dbVars, histVars
<1>16. CASE CommitResult(l, n)
  <2>1. /\ work' \in [Loops -> [Nodes -> Worker]] /\ AttOK'
        /\ inflight' \subseteq Nodes
    BY <1>16, ReturnType DEF CommitResult
  <2>2. row' \in [Nodes -> Row] /\ traversed' \subseteq RouteEdges
    BY <1>2, <1>16, CommitType DEF CommitResult, TypeInv
  <2> QED
    BY <1>16, <2>1, <2>2 DEF CommitResult, TypeInv, TypeOK, RecOK, histVars
<1>17. CASE UncertainNode(l, n)
  <2>1. /\ work' \in [Loops -> [Nodes -> Worker]] /\ AttOK'
        /\ inflight' \subseteq Nodes
    BY <1>17, ReturnType DEF UncertainNode
  <2>2. OnNodeTerminal(row[n], "uncertain", work[l][n].att, FALSE) \in Row
    BY <1>1, <1>2, <1>17, TerminalType DEF UncertainNode
  <2>3. row' \in [Nodes -> Row]
    BY <1>17, <2>2, AppendType DEF UncertainNode, TypeInv
  <2> QED
    BY <1>17, <2>1, <2>3 DEF UncertainNode, TypeInv, TypeOK, RecOK, histVars
<1>18. CASE CancelledNode(l, n)
  <2>1. /\ work' \in [Loops -> [Nodes -> Worker]] /\ AttOK'
        /\ inflight' \subseteq Nodes
    BY <1>18, ReturnType DEF CancelledNode
  <2>2. OnNodeCancelled(row[n], work[l][n].att) \in Row
    BY <1>1, <1>2, <1>18, CancelledType DEF CancelledNode, Attempts
  <2>3. row' \in [Nodes -> Row]
    BY <1>18, <2>2, AppendType DEF CancelledNode, TypeInv
  <2> QED
    BY <1>18, <2>1, <2>3 DEF CancelledNode, TypeInv, TypeOK, RecOK, histVars
<1>19. CASE RecordAttemptFailure(l, n)
  <2>1. work[l][n].att \in Attempts
    BY <1>2, <1>19 DEF RecordAttemptFailure
  <2>2. /\ OnNodeTerminal(row[n], "failed", work[l][n].att, FALSE) \in Row
        /\ OnNodeAttemptFailed(row[n], work[l][n].att) \in Row
    BY <1>1, <2>1, TerminalType, AttemptFailedType
  <2>3. row' \in [Nodes -> Row]
    BY <1>19, <2>2, AppendType DEF RecordAttemptFailure, TypeInv
  <2>4. /\ work' \in [Loops -> [Nodes -> Worker]] /\ AttOK'
        /\ inflight' \subseteq Nodes
    BY <1>19, ReturnType, SetPcType DEF RecordAttemptFailure, WorkerPc, TypeInv, TypeOK
  <2> QED
    BY <1>19, <2>3, <2>4 DEF RecordAttemptFailure, TypeInv, TypeOK, RecOK, histVars
<1>20. CASE RequeueNode(l, n)
  <2>1. /\ work' \in [Loops -> [Nodes -> Worker]] /\ AttOK'
        /\ inflight' \subseteq Nodes
    BY <1>20, ReturnType DEF RequeueNode
  <2>2. work[l][n].att \in 0 .. AttemptBound
    BY <1>1 DEF Worker
  <2>3. OnNodeRequeued(row[n], work[l][n].att, FALSE) \in Row
    BY <1>1, <2>2, RequeuedType
  <2>4. row' \in [Nodes -> Row]
    BY <1>20, <2>3, TransitionType DEF RequeueNode, TypeInv
  <2> QED
    BY <1>20, <2>1, <2>4 DEF RequeueNode, TypeInv, TypeOK, RecOK, histVars
<1> QED
  BY <1>4, <1>5, <1>6, <1>7, <1>8, <1>9, <1>10, <1>11, <1>12, <1>13, <1>14,
     <1>15, <1>16, <1>17, <1>18, <1>19, <1>20 DEF WorkerStep

\* What Recover does to its own progress keeps the types.
LEMMA RecoverFrame ==
  ASSUME TypeInv, NEW n \in rec.todo \cup rec.cur,
         \/ NextCandidate(n)
         \/ EndRecover
         \/ \E phase \in RecPhase, a \in 0 .. AttemptBound :
              /\ phase \in {"queryCancelled", "commit", "commitNil"} => a \in Attempts
              /\ InPhase(n, phase, a)
  PROVE  /\ rec' \in [todo : SUBSET Nodes, canc : SUBSET Nodes, cur : SUBSET Nodes,
                      phase : RecPhase, att : 0 .. AttemptBound]
         /\ loop' \in [Loops -> {"idle", "stepping", "completing", "recovering"}]
         /\ RecOK'
<1> DEFINE RecT == [todo : SUBSET Nodes, canc : SUBSET Nodes, cur : SUBSET Nodes,
                    phase : RecPhase, att : 0 .. AttemptBound]
           LoopT == [Loops -> {"idle", "stepping", "completing", "recovering"}]
<1>1. rec \in RecT /\ loop \in LoopT /\ n \in Nodes
  BY DEF TypeInv, TypeOK, RecOK
<1>2. NoRec \in RecT /\ NoRec.phase = "none" /\ NoRec.todo = {} /\ NoRec.cur = {}
  BY AttemptBoundAssumption DEF NoRec, RecPhase
<1>3. CASE EndRecover
  BY <1>1, <1>2, <1>3 DEF EndRecover, RecOK
<1>4. CASE NextCandidate(n) /\ ~EndRecover
  <2>1. rec' = [rec EXCEPT !.todo = rec.todo \ {n}, !.cur = {}, !.phase = "none"] /\ loop' = loop
    BY <1>4 DEF NextCandidate
  <2>2. /\ rec' \in RecT /\ rec'.phase = "none" /\ rec'.todo \subseteq Nodes
        /\ rec'.cur = {}
    BY <1>1, <2>1 DEF RecPhase
  <2> QED
    BY <1>1, <2>1, <2>2 DEF RecOK
<1>5. CASE \E phase \in RecPhase, a \in 0 .. AttemptBound :
              /\ phase \in {"queryCancelled", "commit", "commitNil"} => a \in Attempts
              /\ InPhase(n, phase, a)
  <2>1. PICK phase \in RecPhase, a \in 0 .. AttemptBound :
              /\ phase \in {"queryCancelled", "commit", "commitNil"} => a \in Attempts
              /\ InPhase(n, phase, a)
    BY <1>5
  <2>2. rec' = [rec EXCEPT !.cur = {n}, !.phase = phase, !.att = a] /\ loop' = loop
    BY <2>1 DEF InPhase
  <2>3. /\ rec' \in RecT /\ rec'.phase = phase /\ rec'.att = a
        /\ rec'.todo \subseteq Nodes /\ rec'.cur = {n}
    BY <1>1, <2>2
  <2> QED
    BY <1>1, <2>1, <2>2, <2>3 DEF RecOK
<1> QED
  BY <1>3, <1>4, <1>5

\* Every step of Recover keeps TypeInv.
LEMMA RecoverStepType ==
  ASSUME TypeInv, RecoverStep
  PROVE  TypeInv'
<1> DEFINE RecT == rec' \in [todo : SUBSET Nodes, canc : SUBSET Nodes, cur : SUBSET Nodes,
                             phase : RecPhase, att : 0 .. AttemptBound]
           LoopT == loop' \in [Loops -> {"idle", "stepping", "completing", "recovering"}]
<1>1. CASE RecoverScan
  <2>1. RecT /\ rec'.phase = "none" /\ rec'.todo \subseteq Nodes /\ rec'.cur = {}
    <3> DEFINE canc == {n \in RecoverList : row[n].status = "cancel_requested"}
    <3>1. RecoverList \subseteq Nodes /\ canc \subseteq Nodes
      BY DEF RecoverList
    <3>2. rec' = [todo |-> RecoverList, canc |-> canc, cur |-> {}, phase |-> "none", att |-> 0]
      BY <1>1 DEF RecoverScan, NoRec
    <3> HIDE DEF canc
    <3> QED
      BY <3>1, <3>2, AttemptBoundAssumption DEF RecPhase
  <2>2. LoopT
    BY <1>1 DEF RecoverScan, TypeInv, TypeOK
  <2> QED
    BY <1>1, <2>1, <2>2 DEF RecoverScan, TypeInv, TypeOK, AttOK, RecOK, dbVars, histVars
<1>2. ASSUME NEW n \in Nodes, RecoverNode(n)
      PROVE  TypeInv'
  <2>1. row[n] \in Row /\ row[n].latest \in 0 .. AttemptBound
    BY DEF TypeInv, TypeOK, Row
  <2>2. n \in rec.todo
    BY <1>2 DEF RecoverNode
  <2>3. row[n].latest > 0 => row[n].latest \in Attempts
    BY <2>1, AttemptBoundAssumption DEF Attempts
  <2>4. RecT /\ LoopT /\ RecOK'
    <3>1. \/ NextCandidate(n)
          \/ EndRecover
          \/ InPhase(n, "queryCancelled", row[n].latest) /\ row[n].latest > 0
          \/ InPhase(n, "resume", row[n].latest)
          \/ InPhase(n, "query", 0)
      BY <1>2 DEF RecoverNode
    <3>2. 0 \in 0 .. AttemptBound
      BY AttemptBoundAssumption
    <3>3. \/ NextCandidate(n)
          \/ EndRecover
          \/ \E phase \in RecPhase, a \in 0 .. AttemptBound :
              /\ phase \in {"queryCancelled", "commit", "commitNil"} => a \in Attempts
              /\ InPhase(n, phase, a)
      BY <2>1, <2>3, <3>1, <3>2 DEF RecPhase
    <3> QED
      BY <2>2, <3>3, RecoverFrame
  <2>5. /\ OnNodeCancelled(row[n], row[n].latest) \in Row
        /\ OnNodeWaiting(row[n]) \in Row
        /\ OnNodeReconciling(row[n]) \in Row
    BY <2>1, CancelledType, WaitingType, ReconcilingType
  <2>6. OnNodeRequeued(row[n], 0, FALSE) \in Row
    <3>1. 0 \in 0 .. AttemptBound
      BY AttemptBoundAssumption
    <3> QED
      BY <2>1, <3>1, RequeuedType
  <2>7. row' \in [Nodes -> Row]
    <3>1. \/ UNCHANGED row
          \/ Append(n, OnNodeCancelled(row[n], row[n].latest))
          \/ AppendTransition(n, OnNodeWaiting(row[n]))
          \/ AppendTransition(n, OnNodeRequeued(row[n], 0, FALSE))
          \/ Append(n, OnNodeReconciling(row[n]))
      BY <1>2 DEF RecoverNode
    <3>2. TypeOK
      BY DEF TypeInv
    <3>3. CASE UNCHANGED row
      BY <3>2, <3>3 DEF TypeOK
    <3> QED
      BY <2>5, <2>6, <3>1, <3>2, <3>3, AppendType, TransitionType
  <2> QED
    BY <1>2, <2>4, <2>7 DEF RecoverNode, TypeInv, TypeOK, AttOK, histVars
<1>3. ASSUME NEW n \in Nodes, ResumeIdempotentAttempt(n)
      PROVE  TypeInv'
  <2>1. row[n] \in Row /\ rec.att \in 0 .. AttemptBound
    BY DEF TypeInv, TypeOK
  <2>2. OnNodeRequeued(row[n], rec.att, TRUE) \in Row
    BY <2>1, RequeuedType
  <2>3. row' \in [Nodes -> Row]
    BY <1>3, <2>2, AppendType DEF ResumeIdempotentAttempt, TypeInv
  <2>4. RecT /\ LoopT /\ RecOK'
    BY <1>3, RecoverFrame DEF ResumeIdempotentAttempt
  <2> QED
    BY <1>3, <2>3, <2>4 DEF ResumeIdempotentAttempt, TypeInv, TypeOK, AttOK, histVars
<1>4. ASSUME NEW n \in Nodes, ReconcileNode(n)
      PROVE  TypeInv'
  <2>1. row[n] \in Row /\ row[n].latest \in 0 .. AttemptBound
    BY DEF TypeInv, TypeOK, Row
  <2>2. row[n].latest > 0 => row[n].latest \in Attempts
    BY <2>1, AttemptBoundAssumption DEF Attempts
  <2>3. RecT /\ LoopT /\ RecOK'
    <3>1. \/ NextCandidate(n)
          \/ EndRecover
          \/ /\ row[n].latest > 0
             /\ \/ InPhase(n, "commit", row[n].latest)
                \/ InPhase(n, "commitNil", row[n].latest)
                \/ InPhase(n, "check", row[n].latest)
      BY <1>4 DEF ReconcileNode
    <3>2. \/ NextCandidate(n)
          \/ EndRecover
          \/ \E phase \in RecPhase, a \in 0 .. AttemptBound :
              /\ phase \in {"queryCancelled", "commit", "commitNil"} => a \in Attempts
              /\ InPhase(n, phase, a)
      BY <2>1, <2>2, <3>1 DEF RecPhase
    <3>3. n \in rec.cur
      BY <1>4 DEF ReconcileNode
    <3> QED
      BY <3>2, <3>3, RecoverFrame
  <2>4. row' \in [Nodes -> Row]
    <3>1. \/ UNCHANGED row
          \/ row[n].latest > 0 /\ Append(n, OnNodeTerminal(row[n], "failed", row[n].latest, FALSE))
          \/ AppendTransition(n, OnNodeWaiting(row[n]))
      BY <1>4 DEF ReconcileNode
    <3>2. TypeOK
      BY DEF TypeInv
    <3>3. row[n].latest > 0 => OnNodeTerminal(row[n], "failed", row[n].latest, FALSE) \in Row
      BY <2>1, <2>2, TerminalType
    <3>4. OnNodeWaiting(row[n]) \in Row
      BY <2>1, WaitingType
    <3>5. CASE UNCHANGED row
      BY <3>2, <3>5 DEF TypeOK
    <3> QED
      BY <3>1, <3>2, <3>3, <3>4, <3>5, AppendType, TransitionType
  <2>5. effect' \in [Nodes -> {"clear", "maybe", "applied"}]
    BY <1>4 DEF ReconcileNode, Confirmed, Absent, TypeInv, TypeOK
  <2> QED
    BY <1>4, <2>3, <2>4, <2>5 DEF ReconcileNode, TypeInv, TypeOK, AttOK
<1>5. ASSUME NEW n \in Nodes, CommitReconciled(n)
      PROVE  TypeInv'
  <2>1. rec.att \in Attempts
    BY <1>5 DEF CommitReconciled, TypeInv, RecOK
  <2>2. row' \in [Nodes -> Row] /\ traversed' \subseteq RouteEdges
    BY <1>5, <2>1, CommitType DEF CommitReconciled, TypeInv
  <2>3. RecT /\ LoopT /\ RecOK'
    BY <1>5, RecoverFrame DEF CommitReconciled
  <2> QED
    BY <1>5, <2>2, <2>3 DEF CommitReconciled, TypeInv, TypeOK, AttOK, histVars
<1>6. ASSUME NEW n \in Nodes, CheckAbsent(n)
      PROVE  TypeInv'
  <2>1. rec.att \in 0 .. AttemptBound
    BY DEF TypeInv, TypeOK
  <2>2. RecT /\ LoopT /\ RecOK'
    <3>1. n \in rec.cur
      BY <1>6 DEF CheckAbsent
    <3>2. \E phase \in RecPhase, a \in 0 .. AttemptBound :
              /\ phase \in {"queryCancelled", "commit", "commitNil"} => a \in Attempts
              /\ InPhase(n, phase, a)
      BY <1>6, <2>1 DEF CheckAbsent, RecPhase
    <3> QED
      BY <3>1, <3>2, RecoverFrame
  <2> QED
    BY <1>6, <2>2 DEF CheckAbsent, TypeInv, TypeOK, AttOK, dbVars, histVars
<1>7. ASSUME NEW n \in Nodes, SettleAbsent(n)
      PROVE  TypeInv'
  <2>1. row[n] \in Row /\ rec.att \in 0 .. AttemptBound
    BY DEF TypeInv, TypeOK
  <2>2. /\ OnNodeCancelled(row[n], rec.att) \in Row
        /\ OnNodeRequeued(row[n], rec.att, FALSE) \in Row
    BY <2>1, CancelledType, RequeuedType
  <2>3. row' \in [Nodes -> Row]
    BY <1>7, <2>2, AppendType, TransitionType DEF SettleAbsent, TypeInv
  <2>4. RecT /\ LoopT /\ RecOK'
    BY <1>7, RecoverFrame DEF SettleAbsent
  <2> QED
    BY <1>7, <2>3, <2>4 DEF SettleAbsent, TypeInv, TypeOK, AttOK, histVars
<1>8. ASSUME NEW n \in Nodes, ReconcileCancelledNode(n)
      PROVE  TypeInv'
  <2>1. row[n] \in Row /\ row[n].latest \in 0 .. AttemptBound
    BY DEF TypeInv, TypeOK, Row
  <2>2. rec.att \in Attempts
    BY <1>8 DEF ReconcileCancelledNode, TypeInv, RecOK
  <2>3. RecT /\ LoopT /\ RecOK'
    <3>1. n \in rec.cur
      BY <1>8 DEF ReconcileCancelledNode
    <3>2. NextCandidate(n) \/ InPhase(n, "cancel", row[n].latest)
      BY <1>8 DEF ReconcileCancelledNode
    <3>3. \/ NextCandidate(n)
          \/ \E phase \in RecPhase, a \in 0 .. AttemptBound :
              /\ phase \in {"queryCancelled", "commit", "commitNil"} => a \in Attempts
              /\ InPhase(n, phase, a)
      BY <2>1, <3>2 DEF RecPhase
    <3> QED
      BY <3>1, <3>3, RecoverFrame
  <2>4. row' \in [Nodes -> Row]
    <3>1. \/ UNCHANGED row
          \/ Append(n, OnNodeTerminal(row[n], "failed", rec.att, FALSE))
          \/ AppendTransition(n, OnNodeWaiting(row[n]))
      BY <1>8 DEF ReconcileCancelledNode
    <3>2. TypeOK
      BY DEF TypeInv
    <3>3. OnNodeTerminal(row[n], "failed", rec.att, FALSE) \in Row /\ OnNodeWaiting(row[n]) \in Row
      BY <2>1, <2>2, TerminalType, WaitingType
    <3>4. CASE UNCHANGED row
      BY <3>2, <3>4 DEF TypeOK
    <3> QED
      BY <3>1, <3>2, <3>3, <3>4, AppendType, TransitionType
  <2>5. effect' \in [Nodes -> {"clear", "maybe", "applied"}]
    BY <1>8 DEF ReconcileCancelledNode, Confirmed, Absent, TypeInv, TypeOK
  <2> QED
    BY <1>8, <2>3, <2>4, <2>5 DEF ReconcileCancelledNode, TypeInv, TypeOK, AttOK
<1> QED
  BY <1>1, <1>2, <1>3, <1>4, <1>5, <1>6, <1>7, <1>8 DEF RecoverStep

\* The rest of the next-state relation.
LEMMA OtherStepType ==
  ASSUME TypeInv,
         \/ \E l \in Loops : LoopStep(l)
         \/ \E l \in Loops, n \in Nodes : Abort(l, n)
         \/ \E o \in Ops : RequestOp(o)
         \/ OpStep
         \/ \E n \in Nodes : ExpireLease(n)
         \/ Crash
  PROVE  TypeInv'
<1>1. ASSUME NEW l \in Loops, Step(l)
      PROVE  TypeInv'
  <2>1. work' \in [Loops -> [Nodes -> Worker]] /\ AttOK'
    <3>1. CASE UNCHANGED work
      BY <3>1 DEF TypeInv, TypeOK, AttOK
    <3>2. CASE work' = [work EXCEPT ![l] =
               [n \in Nodes |-> IF n \in Eligible
                                THEN [Idle EXCEPT !.pc = "listed", !.att = row[n].count + 1]
                                ELSE Idle]]
      <4> DEFINE listed == [n \in Nodes |-> IF n \in Eligible
                                THEN [Idle EXCEPT !.pc = "listed", !.att = row[n].count + 1]
                                ELSE Idle]
      <4>1. ASSUME NEW n \in Nodes
            PROVE  /\ listed[n] \in Worker
                   /\ listed[n].pc # "idle" => listed[n].att \in Attempts
        <5>1. CASE n \in Eligible
          <6>1. row[n].count \in 0 .. AttemptBound /\ row[n].count < AttemptBound
            BY <1>1, <5>1 DEF Step, TypeInv, TypeOK, Row
          <6>2. row[n].count + 1 \in Attempts /\ row[n].count + 1 \in 0 .. AttemptBound
            BY <6>1, AttemptBoundAssumption DEF Attempts
          <6>3. listed[n] = [Idle EXCEPT !.pc = "listed", !.att = row[n].count + 1]
            BY <5>1
          <6> HIDE DEF listed
          <6> QED
            BY <6>2, <6>3 DEF Idle, Worker, WorkerPc
        <5>2. CASE n \notin Eligible
          BY <5>2, IdleType
        <5> QED
          BY <5>1, <5>2
      <4>2. listed \in [Nodes -> Worker]
        BY <4>1
      <4>3. work' = [work EXCEPT ![l] = listed]
        BY <3>2
      <4> HIDE DEF listed
      <4> QED
        BY <4>1, <4>2, <4>3 DEF TypeInv, TypeOK, AttOK
    <3> QED
      BY <1>1, <3>1, <3>2 DEF Step
  <2>2. loop' \in [Loops -> {"idle", "stepping", "completing", "recovering"}]
    BY <1>1 DEF Step, TypeInv, TypeOK
  <2> QED
    BY <1>1, <2>1, <2>2 DEF Step, TypeInv, TypeOK, RecOK, dbVars, histVars
<1>2. ASSUME NEW l \in Loops, StepDone(l)
      PROVE  TypeInv'
  BY <1>2 DEF StepDone, TypeInv, TypeOK, AttOK, RecOK, dbVars, histVars
<1>3. ASSUME NEW l \in Loops, TryCompleteRun(l)
      PROVE  TypeInv'
  BY <1>3 DEF TryCompleteRun, TerminalEvent, TypeInv, TypeOK, AttOK, RecOK, histVars
<1>4. ASSUME NEW l \in Loops, NEW n \in Nodes, Abort(l, n)
      PROVE  TypeInv'
  <2>1. /\ work' \in [Loops -> [Nodes -> Worker]] /\ AttOK'
        /\ inflight' \subseteq Nodes
    BY <1>4, ReturnType DEF Abort
  <2>2. faults' \in 0 .. MaxFaults
    BY <1>4, FaultType DEF Abort
  <2> QED
    BY <1>4, <2>1, <2>2 DEF Abort, TypeInv, TypeOK, RecOK, dbVars, histVars
<1>5. ASSUME NEW o \in Ops, RequestOp(o)
      PROVE  TypeInv'
  BY <1>5, EngineAssumption
  DEF RequestOp, TypeInv, TypeOK, AttOK, RecOK, dbVars, histVars
<1>6. CASE CancelRun
  <2>1. ASSUME NEW n \in Nodes PROVE CancelNode(row[n]) \in Row
    <3>1. row[n] \in Row
      BY DEF TypeInv, TypeOK
    <3>2. OnNodeCancelRequested(row[n]) \in Row /\ EnsureRunNode(row[n]) \in Row
      BY <3>1, CancelRequestedType, EnsureType
    <3>3. 0 \in 0 .. AttemptBound
      BY AttemptBoundAssumption
    <3>4. OnNodeCancelled(EnsureRunNode(row[n]), 0) \in Row
      BY <3>2, <3>3, CancelledType
    <3> QED
      BY <3>1, <3>2, <3>4 DEF CancelNode
  <2>2. row' \in [Nodes -> Row]
    BY <1>6, <2>1 DEF CancelRun, TypeInv, TypeOK
  <2>3. run' \in {"running", "completed", "failed", "cancelled", "abandoned"}
    BY <1>6 DEF CancelRun, TypeInv, TypeOK
  <2> QED
    BY <1>6, <2>2, <2>3 DEF CancelRun, TypeInv, TypeOK, AttOK, RecOK, histVars
<1>7. CASE AbandonRun
  BY <1>7 DEF AbandonRun, TypeInv, TypeOK, AttOK, RecOK, histVars
<1>8. CASE CancelInflightRun
  <2> DEFINE signalled(l, n) == IF work[l][n].pc \in Tracked
                                THEN [work[l][n] EXCEPT !.sig = TRUE] ELSE work[l][n]
  <2>1. work' = [l \in Loops |-> [n \in Nodes |-> signalled(l, n)]]
    BY <1>8 DEF CancelInflightRun
  <2>2. ASSUME NEW l \in Loops, NEW n \in Nodes
        PROVE  /\ signalled(l, n) \in Worker
               /\ signalled(l, n).pc = work[l][n].pc
               /\ signalled(l, n).att = work[l][n].att
    <3>1. work[l][n] \in Worker
      BY DEF TypeInv, TypeOK
    <3> QED
      BY <3>1 DEF Worker
  <2> HIDE DEF signalled
  <2>3. work' \in [Loops -> [Nodes -> Worker]] /\ AttOK'
    BY <2>1, <2>2 DEF TypeInv, AttOK
  <2> QED
    BY <1>8, <2>3 DEF CancelInflightRun, TypeInv, TypeOK, RecOK, dbVars, histVars
<1>9. ASSUME NEW n \in Nodes, ExpireLease(n)
      PROVE  TypeInv'
  <2>1. row' = [row EXCEPT ![n] = [row[n] EXCEPT !.lease = "expired"]]
    BY <1>9 DEF ExpireLease
  <2>2. row[n] \in Row
    BY DEF TypeInv, TypeOK
  <2>3. [row[n] EXCEPT !.lease = "expired"] \in Row
    BY <2>2 DEF Row
  <2>4. row' \in [Nodes -> Row]
    BY <2>1, <2>3 DEF TypeInv, TypeOK
  <2>5. faults' \in 0 .. MaxFaults
    BY <1>9, FaultType DEF ExpireLease, TypeInv, TypeOK
  <2> QED
    BY <1>9, <2>4, <2>5
    DEF ExpireLease, TypeInv, TypeOK, AttOK, RecOK, procVars, histVars
<1>10. CASE Crash
  <2>1. work' \in [Loops -> [Nodes -> Worker]] /\ AttOK'
    BY <1>10, IdleType DEF Crash, AttOK
  <2>2. faults' \in 0 .. MaxFaults
    BY <1>10, FaultType DEF Crash
  <2>3. /\ rec' \in [todo : SUBSET Nodes, canc : SUBSET Nodes, cur : SUBSET Nodes,
                     phase : RecPhase, att : 0 .. AttemptBound]
        /\ RecOK'
    BY <1>10, AttemptBoundAssumption DEF Crash, NoRec, RecOK, RecPhase
  <2> QED
    BY <1>10, <2>1, <2>2, <2>3 DEF Crash, TypeInv, TypeOK, dbVars, histVars
<1> QED
  BY <1>1, <1>2, <1>3, <1>4, <1>5, <1>6, <1>7, <1>8, <1>9, <1>10 DEF LoopStep, OpStep

\* The initial states satisfy TypeInv.
LEMMA TypeInvInit == Init => TypeInv
<1> SUFFICES ASSUME Init PROVE TypeInv
  OBVIOUS
<1>1. row \in [Nodes -> Row]
  BY NoRowType DEF Init
<1>2. work \in [Loops -> [Nodes -> Worker]] /\ AttOK
  BY IdleType DEF Init, AttOK
<1>3. /\ rec \in [todo : SUBSET Nodes, canc : SUBSET Nodes, cur : SUBSET Nodes,
                  phase : RecPhase, att : 0 .. AttemptBound]
      /\ RecOK
  BY AttemptBoundAssumption DEF Init, NoRec, RecOK, RecPhase
<1> QED
  BY <1>1, <1>2, <1>3, EngineAssumption DEF Init, TypeInv, TypeOK

\* TypeInv is inductive.
LEMMA TypeInvStep == TypeInv /\ [Next]_vars => TypeInv'
<1>1. TypeInv /\ Next => TypeInv'
  BY WorkerStepType, RecoverStepType, OtherStepType DEF Next
<1>2. TypeInv /\ UNCHANGED vars => TypeInv'
  BY DEF TypeInv, TypeOK, AttOK, RecOK, vars
<1> QED
  BY <1>1, <1>2

\* Every variable keeps its type: attempt numbers stay within the bound, no
\* event is appended for an attempt 0, whatever the workers, Recover, the
\* operator and crashes do.
THEOREM EngineTypeOK == Spec => []TypeOK
<1>1. TypeInv => TypeOK
  BY DEF TypeInv
<1> QED
  BY <1>1, TypeInvInit, TypeInvStep, PTL DEF Spec

-----------------------------------------------------------------------------
(***************************************************************************)
(* The inflight map.  InflightExact is inductive together with the fact    *)
(* that only a loop inside Step has workers, and only a recovering ticker  *)
(* is at a candidate.                                                      *)
(***************************************************************************)
StepOwnsWorkers == \A l \in Loops : loop[l] # "stepping" =>
                     \A n \in Nodes : work[l][n].pc = "idle"

RecoverOwnsTicker == rec.phase # "none" => loop[Ticker] = "recovering"

LoopInv == StepOwnsWorkers /\ RecoverOwnsTicker

InflightInv == TypeInv /\ InflightExact /\ LoopInv

\* What any step of a worker does to the workers and the inflight map: it
\* stays tracked or untracked, or it enters the map while the node is not in
\* it, or it leaves the map.
Move(l, n) ==
  /\ UNCHANGED <<loop, rec>>
  /\ work[l][n].pc # "idle"
  /\ \E w \in Worker :
       /\ Becomes(l, n, w)
       /\ \/ /\ w.pc \in Tracked <=> work[l][n].pc \in Tracked
             /\ UNCHANGED inflight
          \/ /\ n \notin inflight /\ w.pc \in Tracked
             /\ inflight' = inflight \cup {n}
          \/ /\ work[l][n].pc \in Tracked /\ w.pc \notin Tracked
             /\ inflight' = inflight \ {n}

\* A change of program counter among the tracked states is a Move.
LEMMA SetPcMove ==
  ASSUME TypeInv, NEW l \in Loops, NEW n \in Nodes, NEW pc \in WorkerPc,
         work[l][n].pc # "idle", SetPc(l, n, pc), UNCHANGED <<loop, rec, inflight>>,
         pc \in Tracked <=> work[l][n].pc \in Tracked
  PROVE  Move(l, n)
<1> DEFINE w == [work[l][n] EXCEPT !.pc = pc]
<1>1. work[l][n] \in Worker
  BY DEF TypeInv, TypeOK
<1>2. w \in Worker /\ w.pc = pc
  BY <1>1 DEF Worker, WorkerPc
<1>3. Becomes(l, n, w)
  BY DEF SetPc, Becomes
<1> HIDE DEF w
<1> QED
  BY <1>2, <1>3 DEF Move

\* Returning, with the deferred untrackInflight, is a Move.
LEMMA ReturnMove ==
  ASSUME TypeInv, NEW l \in Loops, NEW n \in Nodes,
         work[l][n].pc # "idle", Return(l, n), UNCHANGED <<loop, rec>>
  PROVE  Move(l, n)
<1>1. Becomes(l, n, Idle)
  BY DEF Return, Becomes
<1>2. Idle.pc \notin Tracked
  BY IdleType DEF Tracked
<1>3. inflight' = IF work[l][n].pc \in Tracked THEN inflight \ {n} ELSE inflight
  BY DEF Return
<1> QED
  BY <1>1, <1>2, <1>3, IdleType DEF Move

\* Every step of executeNode is a Move: only its own worker and its own entry of
\* the inflight map change, and they change together.
LEMMA WorkerStepMove ==
  ASSUME TypeInv, NEW l \in Loops, NEW n \in Nodes, WorkerStep(l, n) \/ Abort(l, n)
  PROVE  Move(l, n)
<1>1. CASE ClaimNonExecutable(l, n)
  <2>1. CASE Claimable(n)
    BY <1>1, <2>1, SetPcMove DEF ClaimNonExecutable, WorkerPc, Tracked
  <2>2. CASE ~Claimable(n)
    <3>1. Return(l, n)
      BY <1>1, <2>2 DEF ClaimNonExecutable, Return, Tracked
    <3> QED
      BY <1>1, <3>1, ReturnMove DEF ClaimNonExecutable
  <2> QED
    BY <2>1, <2>2
<1>2. CASE FinishRouter(l, n)
  BY <1>2, ReturnMove DEF FinishRouter
<1>3. CASE RejectNode(l, n)
  BY <1>3, ReturnMove DEF RejectNode
<1>4. CASE TrackInflight(l, n)
  <2>1. CASE n \in inflight
    <3>1. Return(l, n)
      BY <1>4, <2>1 DEF TrackInflight, Return, Tracked
    <3> QED
      BY <1>4, <3>1, ReturnMove DEF TrackInflight
  <2>2. CASE n \notin inflight
    <3> DEFINE w == [work[l][n] EXCEPT !.pc = "tracked"]
    <3>1. work[l][n] \in Worker
      BY DEF TypeInv, TypeOK
    <3>2. w \in Worker /\ w.pc = "tracked"
      BY <3>1 DEF Worker, WorkerPc
    <3>3. Becomes(l, n, w)
      BY <1>4, <2>2 DEF TrackInflight, SetPc, Becomes
    <3> HIDE DEF w
    <3>4. w.pc \in Tracked
      BY <3>2 DEF Tracked
    <3> QED
      BY <1>4, <2>2, <3>2, <3>3, <3>4 DEF TrackInflight, Move
  <2> QED
    BY <2>1, <2>2
<1>5. CASE ClaimAttempt(l, n)
  <2>1. CASE Claimable(n)
    BY <1>5, <2>1, SetPcMove DEF ClaimAttempt, WorkerPc, Tracked
  <2>2. CASE ~Claimable(n)
    BY <1>5, <2>2, ReturnMove DEF ClaimAttempt
  <2> QED
    BY <2>1, <2>2
<1>6. CASE Dispatch(l, n)
  BY <1>6, SetPcMove DEF Dispatch, WorkerPc, Tracked
<1>7. CASE ExecuteOk(l, n)
  <2>1. PICK r \in Routes \cup {Always} :
          work' = [work EXCEPT ![l][n].pc = "ok", ![l][n].route = r]
    BY <1>7 DEF ExecuteOk
  <2> DEFINE w == [work[l][n] EXCEPT !.pc = "ok", !.route = r]
  <2>2. work[l][n] \in Worker
    BY DEF TypeInv, TypeOK
  <2>3. w \in Worker /\ w.pc = "ok"
    BY <2>2 DEF Worker, WorkerPc
  <2>4. Becomes(l, n, w)
    BY <2>1 DEF Becomes, TypeInv, TypeOK
  <2> HIDE DEF w
  <2>5. work[l][n].pc = "exec" /\ UNCHANGED <<loop, rec, inflight>>
    BY <1>7 DEF ExecuteOk
  <2> QED
    BY <2>3, <2>4, <2>5 DEF Move, Tracked
<1>8. CASE ExecuteError(l, n)
  BY <1>8, SetPcMove DEF ExecuteError, WorkerPc, Tracked
<1>9. CASE ExecuteCancelled(l, n)
  BY <1>9, SetPcMove DEF ExecuteCancelled, WorkerPc, Tracked
<1>10. CASE ExecuteTimeout(l, n)
  BY <1>10, SetPcMove DEF ExecuteTimeout, TimeoutOutcome, WorkerPc, Tracked
<1>11. CASE ExecuteUncertain(l, n)
  BY <1>11, SetPcMove DEF ExecuteUncertain, WorkerPc, Tracked
<1>12. CASE CheckResult(l, n)
  BY <1>12, SetPcMove DEF CheckResult, WorkerPc, Tracked
<1>13. CASE CommitResult(l, n)
  BY <1>13, ReturnMove DEF CommitResult
<1>14. CASE UncertainNode(l, n)
  BY <1>14, ReturnMove DEF UncertainNode
<1>15. CASE CancelledNode(l, n)
  BY <1>15, ReturnMove DEF CancelledNode
<1>16. CASE RecordAttemptFailure(l, n)
  <2>1. CASE Exhausted(n, work[l][n].att)
    BY <1>16, <2>1, ReturnMove DEF RecordAttemptFailure
  <2>2. CASE ~Exhausted(n, work[l][n].att)
    BY <1>16, <2>2, SetPcMove DEF RecordAttemptFailure, WorkerPc, Tracked
  <2> QED
    BY <2>1, <2>2
<1>17. CASE RequeueNode(l, n)
  BY <1>17, ReturnMove DEF RequeueNode
<1>18. CASE Abort(l, n)
  BY <1>18, ReturnMove DEF Abort
<1> QED
  BY <1>1, <1>2, <1>3, <1>4, <1>5, <1>6, <1>7, <1>8, <1>9, <1>10, <1>11, <1>12,
     <1>13, <1>14, <1>15, <1>16, <1>17, <1>18 DEF WorkerStep

\* A Move keeps the map exact.
LEMMA MoveInflight ==
  ASSUME InflightInv, NEW l \in Loops, NEW n \in Nodes, Move(l, n)
  PROVE  InflightExact' /\ LoopInv'
<1>1. PICK w \in Worker :
       /\ Becomes(l, n, w)
       /\ \/ /\ w.pc \in Tracked <=> work[l][n].pc \in Tracked
             /\ UNCHANGED inflight
          \/ /\ n \notin inflight /\ w.pc \in Tracked
             /\ inflight' = inflight \cup {n}
          \/ /\ work[l][n].pc \in Tracked /\ w.pc \notin Tracked
             /\ inflight' = inflight \ {n}
  BY DEF Move
<1>2. ASSUME NEW k \in Loops, NEW m \in Nodes
      PROVE  work'[k][m] = IF k = l /\ m = n THEN w ELSE work[k][m]
  BY <1>1 DEF Becomes, InflightInv, TypeInv, TypeOK
<1>3. LoopInv'
  BY <1>2 DEF Move, LoopInv, StepOwnsWorkers, RecoverOwnsTicker, InflightInv
<1>4. ASSUME NEW m \in Nodes, NEW k1 \in Loops, NEW k2 \in Loops,
             work'[k1][m].pc \in Tracked, work'[k2][m].pc \in Tracked
      PROVE  k1 = k2
  BY <1>1, <1>2, <1>4 DEF InflightInv, InflightExact
<1>5. inflight' \subseteq Nodes
  BY <1>1 DEF InflightInv, TypeInv, TypeOK
<1>6. ASSUME NEW m \in Nodes
      PROVE  m \in inflight' <=> \E k \in Loops : work'[k][m].pc \in Tracked
  BY <1>1, <1>2 DEF InflightInv, InflightExact
<1>7. inflight' = {m \in Nodes : \E k \in Loops : work'[k][m].pc \in Tracked}
  BY <1>5, <1>6
<1> QED
  BY <1>3, <1>4, <1>7 DEF InflightExact

\* Every step keeps the map exact.
LEMMA InflightStep ==
  ASSUME InflightInv, Next
  PROVE  InflightExact' /\ LoopInv'
<1>1. CASE \E l \in Loops, n \in Nodes : WorkerStep(l, n) \/ Abort(l, n)
  BY <1>1, WorkerStepMove, MoveInflight DEF InflightInv
<1>2. ASSUME NEW l \in Loops, Step(l)
      PROVE  InflightExact' /\ LoopInv'
  <2>1. \A n \in Nodes : work[l][n].pc = "idle"
    BY <1>2 DEF Step, LoopInv, StepOwnsWorkers, InflightInv
  <2>2. /\ \A k \in Loops, n \in Nodes : work'[k][n].pc \in Tracked <=> work[k][n].pc \in Tracked
        /\ \A k \in Loops, n \in Nodes : k # l => work'[k][n] = work[k][n]
    <3>1. CASE UNCHANGED work
      BY <3>1
    <3>2. CASE work' = [work EXCEPT ![l] =
               [n \in Nodes |-> IF n \in Eligible
                                THEN [Idle EXCEPT !.pc = "listed", !.att = row[n].count + 1]
                                ELSE Idle]]
      <4>1. ASSUME NEW n \in Nodes PROVE work'[l][n].pc \in {"listed", "idle"}
        <5> DEFINE a == row[n].count + 1
        <5>1. \/ work'[l][n] = Idle
              \/ work'[l][n] = [Idle EXCEPT !.pc = "listed", !.att = a]
          BY <3>2 DEF InflightInv, TypeInv, TypeOK
        <5> HIDE DEF a
        <5>2. [Idle EXCEPT !.pc = "listed", !.att = a].pc = "listed"
          BY DEF Idle
        <5> QED
          BY <5>1, <5>2, IdleType
      <4>2. \A k \in Loops, n \in Nodes : k # l => work'[k][n] = work[k][n]
        BY <3>2 DEF InflightInv, TypeInv, TypeOK
      <4> QED
        BY <2>1, <4>1, <4>2 DEF Tracked
    <3> QED
      BY <1>2, <3>1, <3>2 DEF Step
  <2>3. InflightExact'
    BY <1>2, <2>2 DEF Step, InflightInv, InflightExact
  <2>4. LoopInv'
    <3>1. loop'[l] = "stepping" \/ UNCHANGED work
      BY <1>2 DEF Step, InflightInv, TypeInv, TypeOK
    <3>2. \A k \in Loops : k # l => loop'[k] = loop[k]
      BY <1>2 DEF Step, InflightInv, TypeInv, TypeOK
    <3>3. StepOwnsWorkers'
      <4> SUFFICES ASSUME NEW k \in Loops, loop'[k] # "stepping", NEW n \in Nodes
                   PROVE  work'[k][n].pc = "idle"
        BY DEF StepOwnsWorkers
      <4>1. CASE k = l
        BY <2>1, <3>1, <4>1
      <4>2. CASE k # l
        BY <2>2, <3>2, <4>2 DEF InflightInv, LoopInv, StepOwnsWorkers
      <4> QED
        BY <4>1, <4>2
    <3>4. RecoverOwnsTicker'
      BY <1>2, <3>2, EngineAssumption
      DEF Step, InflightInv, LoopInv, RecoverOwnsTicker
    <3> QED
      BY <3>3, <3>4 DEF LoopInv
  <2> QED
    BY <2>3, <2>4
<1>3. ASSUME NEW l \in Loops, StepDone(l)
      PROVE  InflightExact' /\ LoopInv'
  BY <1>3
  DEF StepDone, InflightInv, InflightExact, LoopInv, StepOwnsWorkers, RecoverOwnsTicker,
      TypeInv, TypeOK
<1>4. ASSUME NEW l \in Loops, TryCompleteRun(l)
      PROVE  InflightExact' /\ LoopInv'
  BY <1>4
  DEF TryCompleteRun, InflightInv, InflightExact, LoopInv, StepOwnsWorkers,
      RecoverOwnsTicker, TypeInv, TypeOK
<1>5. CASE RecoverStep
  <2>1. UNCHANGED <<work, inflight>>
    BY <1>5 DEF RecoverStep, RecoverScan, RecoverNode, ResumeIdempotentAttempt,
                ReconcileNode, CommitReconciled, CheckAbsent, SettleAbsent,
                ReconcileCancelledNode
  <2>2. loop[Ticker] \in {"idle", "recovering"}
    BY <1>5
    DEF RecoverStep, RecoverScan, RecoverNode, ResumeIdempotentAttempt,
        ReconcileNode, CommitReconciled, CheckAbsent, SettleAbsent,
        ReconcileCancelledNode, InflightInv, LoopInv, RecoverOwnsTicker
  <2>3. CASE RecoverScan
    BY <2>1, <2>3
    DEF RecoverScan, NoRec, InflightInv, InflightExact, LoopInv, StepOwnsWorkers,
        RecoverOwnsTicker, TypeInv, TypeOK
  <2>4. CASE ~RecoverScan
    <3>1. loop[Ticker] = "recovering"
      BY <1>5, <2>4
      DEF RecoverStep, RecoverNode, ResumeIdempotentAttempt,
          ReconcileNode, CommitReconciled, CheckAbsent, SettleAbsent,
          ReconcileCancelledNode, InflightInv, LoopInv, RecoverOwnsTicker
    <3>2. EndRecover \/ UNCHANGED loop
      BY <1>5, <2>4
      DEF RecoverStep, RecoverNode, ResumeIdempotentAttempt, ReconcileNode,
          CommitReconciled, CheckAbsent, SettleAbsent, ReconcileCancelledNode,
          NextCandidate, InPhase
    <3>3. InflightExact'
      BY <2>1 DEF InflightInv, InflightExact
    <3>4. \A k \in Loops : k # Ticker => loop'[k] = loop[k]
      BY <3>2 DEF EndRecover, InflightInv, TypeInv, TypeOK
    <3>5. StepOwnsWorkers'
      BY <2>1, <3>1, <3>4 DEF InflightInv, LoopInv, StepOwnsWorkers
    <3>6. RecoverOwnsTicker'
      BY <3>1, <3>2 DEF EndRecover, NoRec, RecoverOwnsTicker
    <3> QED
      BY <3>3, <3>5, <3>6 DEF LoopInv
  <2> QED
    BY <2>3, <2>4
<1>6. CASE \E o \in Ops : RequestOp(o)
  BY <1>6 DEF RequestOp, InflightInv, InflightExact,
      LoopInv, StepOwnsWorkers, RecoverOwnsTicker
<1>7. CASE CancelRun \/ AbandonRun
  BY <1>7 DEF CancelRun, AbandonRun, InflightInv, InflightExact,
      LoopInv, StepOwnsWorkers, RecoverOwnsTicker
<1>8. CASE CancelInflightRun
  <2>1. ASSUME NEW l \in Loops, NEW n \in Nodes
        PROVE  work'[l][n].pc = work[l][n].pc
    <3>1. work[l][n] \in Worker
      BY DEF InflightInv, TypeInv, TypeOK
    <3>2. work'[l][n] = IF work[l][n].pc \in Tracked
                        THEN [work[l][n] EXCEPT !.sig = TRUE] ELSE work[l][n]
      BY <1>8 DEF CancelInflightRun
    <3> QED
      BY <3>1, <3>2 DEF Worker
  <2> QED
    BY <1>8, <2>1 DEF CancelInflightRun, InflightInv, InflightExact,
      LoopInv, StepOwnsWorkers, RecoverOwnsTicker
<1>9. CASE \E n \in Nodes : ExpireLease(n)
  BY <1>9
  DEF ExpireLease, procVars, InflightInv, InflightExact, LoopInv, StepOwnsWorkers,
      RecoverOwnsTicker
<1>10. CASE Crash
  <2>1. \A l \in Loops, n \in Nodes : work'[l][n].pc = "idle"
    BY <1>10, IdleType DEF Crash
  <2> QED
    BY <1>10, <2>1
    DEF Crash, NoRec, InflightExact, LoopInv, StepOwnsWorkers, RecoverOwnsTicker, Tracked
<1> QED
  BY <1>1, <1>2, <1>3, <1>4, <1>5, <1>6, <1>7, <1>8, <1>9, <1>10
  DEF Next, LoopStep, OpStep

\* The initial states satisfy InflightInv.
LEMMA InflightInit == Init => InflightExact /\ LoopInv
  BY IdleType DEF Init, NoRec, InflightExact, LoopInv, StepOwnsWorkers, RecoverOwnsTicker, Tracked

\* The inflight map of the process holds exactly the nodes that are being
\* executed, and no node is executed twice at the same time, for every graph
\* and every number of concurrent step loops.
THEOREM EngineInflightExact == Spec => []InflightExact
<1>1. Init => InflightInv
  BY TypeInvInit, InflightInit DEF InflightInv
<1>2. InflightInv /\ [Next]_vars => InflightInv'
  <2>1. InflightInv /\ Next => InflightInv'
    BY TypeInvStep, InflightStep DEF InflightInv
  <2>2. InflightInv /\ UNCHANGED vars => InflightInv'
    BY TypeInvStep
    DEF InflightInv, InflightExact, LoopInv, StepOwnsWorkers, RecoverOwnsTicker, vars
  <2> QED
    BY <2>1, <2>2
<1>3. InflightInv => InflightExact
  BY DEF InflightInv
<1> QED
  BY <1>1, <1>2, <1>3, PTL DEF Spec

-----------------------------------------------------------------------------
(***************************************************************************)
(* What a step does to the status of each node.                            *)
(***************************************************************************)
Open == {"absent", "pending", "eligible"}

\* The step makes node m claimable.
Opens(m) == row[m].status \notin Open /\ row'[m].status \in Open

\* The step keeps the cancellation of node m and does not make it claimable.
Quiet(m) == KeepsCancel(row[m], row'[m]) /\ ~Opens(m)

\* One handler call changes one row.
LEMMA AppendRow ==
  ASSUME TypeOK, NEW n \in Nodes, NEW new, Append(n, new), NEW m \in Nodes
  PROVE  row'[m] = IF m = n THEN new ELSE row[m]
  BY DEF TypeOK, Append

\* What appendNodeTransition leaves in the row of its node.
LEMMA TransitionRow ==
  ASSUME TypeOK, NEW n \in Nodes, NEW new, AppendTransition(n, new), NEW m \in Nodes
  PROVE  row'[m] = IF m = n /\ row[n].status \notin Cancelling THEN new ELSE row[m]
  BY DEF TypeOK, AppendTransition

\* A row that does not change is quiet.
LEMMA SameQuiet ==
  ASSUME NEW m, row'[m] = row[m]
  PROVE  Quiet(m)
  BY DEF Quiet, Opens, KeepsCancel, Cancelling

\* The handlers that resist a cancellation and leave no claimable node.
LEMMA GuardedQuiet ==
  ASSUME NEW m, NEW s \in NodeStatus \ Open,
         row'[m].status = IF row[m].status \in Cancelling THEN row[m].status ELSE s
  PROVE  Quiet(m)
  BY DEF Quiet, Opens, KeepsCancel, Cancelling, Open

\* node_cancelled is quiet.
LEMMA CancelledQuiet ==
  ASSUME NEW m,
         row'[m].status = IF row[m].status \in Terminal THEN row[m].status ELSE "cancelled"
  PROVE  Quiet(m)
  BY DEF Quiet, Opens, KeepsCancel, Cancelling, Terminal, Open

\* commitNodeSuccess is quiet for every node.
LEMMA CommitQuiet ==
  ASSUME TypeOK, NEW n \in Nodes, NEW a \in Attempts, NEW route, NEW known,
         CommitNodeSuccess(n, a, route, known), NEW m \in Nodes
  PROVE  Quiet(m)
<1>1. CommitEffect(n, m)
  BY CommitType
<1> QED
  BY <1>1, SameQuiet DEF CommitEffect, Quiet, Opens, KeepsCancel, Cancelling, Open

\* The steps of a worker: only recordAttemptFailure and the requeue that
\* follows it make a node claimable again, and only the worker's own node.
LEMMA WorkerRows ==
  ASSUME TypeInv, NEW l \in Loops, NEW n \in Nodes, WorkerStep(l, n), NEW m \in Nodes
  PROVE  /\ KeepsCancel(row[m], row'[m])
         /\ Opens(m) => m = n /\ work[l][n].pc \in {"fail", "requeue"}
<1> DEFINE Goal == /\ KeepsCancel(row[m], row'[m])
                   /\ Opens(m) => m = n /\ work[l][n].pc \in {"fail", "requeue"}
<1>1. TypeOK /\ row[n] \in Row
  BY DEF TypeInv, TypeOK
<1>2. work[l][n].pc # "idle" => work[l][n].att \in Attempts
  BY DEF TypeInv, AttOK
<1>3. Quiet(m) => Goal
  BY DEF Quiet
<1>4. CASE ClaimNonExecutable(l, n)
  <2>1. CASE Claimable(n)
    <3>1. 1 \in Attempts
      BY AttemptBoundAssumption DEF Attempts
    <3>2. row'[m] = IF m = n THEN OnNodeStarted(row[n], 1, FALSE) ELSE row[m]
      BY <1>1, <1>4, <2>1, AppendRow DEF ClaimNonExecutable
    <3>3. OnNodeStarted(row[n], 1, FALSE).status = "running"
      BY <1>1, <3>1, StartedType
    <3>4. CASE m = n
      BY <2>1, <3>2, <3>3, <3>4 DEF Claimable, Opens, Open, KeepsCancel
    <3>5. CASE m # n
      BY <1>3, <3>2, <3>5, SameQuiet
    <3> QED
      BY <3>4, <3>5
  <2>2. CASE ~Claimable(n)
    BY <1>3, <1>4, <2>2, SameQuiet DEF ClaimNonExecutable
  <2> QED
    BY <2>1, <2>2
<1>5. CASE FinishRouter(l, n)
  <2>1. work[l][n].att \in Attempts /\ work[l][n].att \in 0 .. AttemptBound
    BY <1>2, <1>5 DEF FinishRouter, Attempts
  <2>2. CASE CommitNodeSuccess(n, work[l][n].att, Always, TRUE)
    BY <1>1, <1>3, <2>1, <2>2, CommitQuiet
  <2>3. CASE Append(n, OnNodeCancelled(row[n], work[l][n].att))
    <3>1. row'[m] = IF m = n THEN OnNodeCancelled(row[n], work[l][n].att) ELSE row[m]
      BY <1>1, <2>3, AppendRow
    <3> QED
      BY <1>1, <1>3, <2>1, <3>1, CancelledType, CancelledQuiet, SameQuiet
  <2> QED
    BY <1>5, <2>2, <2>3 DEF FinishRouter
<1>6. CASE RejectNode(l, n)
  <2> DEFINE r == EnsureRunNode(row[n])
  <2>1. PICK keyed \in BOOLEAN :
          Append(n, OnNodeTerminal(r, "failed", work[l][n].att, keyed))
    BY <1>6 DEF RejectNode
  <2>2. r \in Row /\ r.status = IF row[n].status = "absent" THEN "pending" ELSE row[n].status
    BY <1>1, EnsureType
  <2>3. work[l][n].att \in Attempts
    BY <1>2, <1>6 DEF RejectNode
  <2> HIDE DEF r
  <2>4. OnNodeTerminal(r, "failed", work[l][n].att, keyed).status
          = IF r.status \in Cancelling THEN r.status ELSE "failed"
    BY <2>2, <2>3, TerminalType
  <2>5. row'[m] = IF m = n THEN OnNodeTerminal(r, "failed", work[l][n].att, keyed) ELSE row[m]
    BY <1>1, <2>1, AppendRow
  <2>6. CASE m = n
    BY <2>2, <2>4, <2>5, <2>6 DEF KeepsCancel, Opens, Open, Cancelling
  <2>7. CASE m # n
    BY <1>3, <2>5, <2>7, SameQuiet
  <2> QED
    BY <2>6, <2>7
<1>7. CASE ClaimAttempt(l, n)
  <2>1. CASE Claimable(n)
    <3>1. work[l][n].att \in Attempts
      BY <1>2, <1>7 DEF ClaimAttempt
    <3>2. row'[m] = IF m = n THEN OnNodeStarted(row[n], work[l][n].att, TRUE) ELSE row[m]
      BY <1>1, <1>7, <2>1, AppendRow DEF ClaimAttempt
    <3>3. OnNodeStarted(row[n], work[l][n].att, TRUE).status = "running"
      BY <1>1, <3>1, StartedType
    <3>4. CASE m = n
      BY <2>1, <3>2, <3>3, <3>4 DEF Claimable, Opens, Open, KeepsCancel
    <3>5. CASE m # n
      BY <1>3, <3>2, <3>5, SameQuiet
    <3> QED
      BY <3>4, <3>5
  <2>2. CASE ~Claimable(n)
    BY <1>3, <1>7, <2>2, SameQuiet DEF ClaimAttempt
  <2> QED
    BY <2>1, <2>2
<1>8. CASE \/ TrackInflight(l, n) \/ Dispatch(l, n) \/ ExecuteOk(l, n)
           \/ ExecuteError(l, n) \/ ExecuteCancelled(l, n) \/ ExecuteTimeout(l, n)
           \/ ExecuteUncertain(l, n) \/ CheckResult(l, n)
  <2>1. row' = row
    BY <1>8 DEF TrackInflight, Dispatch, ExecuteOk, ExecuteError, ExecuteCancelled,
                ExecuteTimeout, ExecuteUncertain, CheckResult, dbVars
  <2> QED
    BY <1>3, <2>1, SameQuiet
<1>9. CASE CommitResult(l, n)
  BY <1>1, <1>2, <1>3, <1>9, CommitQuiet DEF CommitResult
<1>10. CASE UncertainNode(l, n)
  <2>1. work[l][n].att \in Attempts
    BY <1>2, <1>10 DEF UncertainNode
  <2>2. row'[m] = IF m = n THEN OnNodeTerminal(row[n], "uncertain", work[l][n].att, FALSE)
                  ELSE row[m]
    BY <1>1, <1>10, AppendRow DEF UncertainNode
  <2>3. "uncertain" \in NodeStatus \ Open
    BY DEF NodeStatus, Open
  <2>4. OnNodeTerminal(row[n], "uncertain", work[l][n].att, FALSE).status
          = IF row[n].status \in Cancelling THEN row[n].status ELSE "uncertain"
    BY <1>1, <2>1, TerminalType
  <2>5. CASE m = n
    BY <1>3, <2>2, <2>3, <2>4, <2>5, GuardedQuiet
  <2>6. CASE m # n
    BY <1>3, <2>2, <2>6, SameQuiet
  <2> QED
    BY <2>5, <2>6
<1>11. CASE CancelledNode(l, n)
  <2>1. work[l][n].att \in 0 .. AttemptBound
    BY <1>2, <1>11 DEF CancelledNode, Attempts
  <2>2. row'[m] = IF m = n THEN OnNodeCancelled(row[n], work[l][n].att) ELSE row[m]
    BY <1>1, <1>11, AppendRow DEF CancelledNode
  <2> QED
    BY <1>1, <1>3, <2>1, <2>2, CancelledType, CancelledQuiet, SameQuiet
<1>12. CASE RecordAttemptFailure(l, n)
  <2>1. work[l][n].att \in Attempts /\ work[l][n].pc = "fail"
    BY <1>2, <1>12 DEF RecordAttemptFailure
  <2>2. CASE Exhausted(n, work[l][n].att)
    <3>1. row'[m] = IF m = n THEN OnNodeTerminal(row[n], "failed", work[l][n].att, FALSE)
                    ELSE row[m]
      BY <1>1, <1>12, <2>2, AppendRow DEF RecordAttemptFailure
    <3>2. "failed" \in NodeStatus \ Open
      BY DEF NodeStatus, Open
    <3>3. OnNodeTerminal(row[n], "failed", work[l][n].att, FALSE).status
            = IF row[n].status \in Cancelling THEN row[n].status ELSE "failed"
      BY <1>1, <2>1, TerminalType
    <3>4. CASE m = n
      BY <1>3, <3>1, <3>2, <3>3, <3>4, GuardedQuiet
    <3>5. CASE m # n
      BY <1>3, <3>1, <3>5, SameQuiet
    <3> QED
      BY <3>4, <3>5
  <2>3. CASE ~Exhausted(n, work[l][n].att)
    <3>1. row'[m] = IF m = n THEN OnNodeAttemptFailed(row[n], work[l][n].att) ELSE row[m]
      BY <1>1, <1>12, <2>3, AppendRow DEF RecordAttemptFailure
    <3>2. CASE m = n
      <4>1. row'[m].status = IF row[m].status = "running" THEN "eligible" ELSE row[m].status
        BY <1>1, <2>1, <3>1, <3>2, AttemptFailedType
      <4> QED
        BY <2>1, <3>2, <4>1 DEF KeepsCancel, Cancelling
    <3>3. CASE m # n
      BY <1>3, <3>1, <3>3, SameQuiet
    <3> QED
      BY <3>2, <3>3
  <2> QED
    BY <2>2, <2>3
<1>13. CASE RequeueNode(l, n)
  <2>1. work[l][n].att \in 0 .. AttemptBound /\ work[l][n].pc = "requeue"
    BY <1>2, <1>13 DEF RequeueNode, Attempts
  <2>2. row'[m] = IF m = n /\ row[n].status \notin Cancelling
                  THEN OnNodeRequeued(row[n], work[l][n].att, FALSE) ELSE row[m]
    BY <1>1, <1>13, TransitionRow DEF RequeueNode
  <2>3. CASE m = n /\ row[n].status \notin Cancelling
    BY <2>1, <2>3 DEF KeepsCancel, Cancelling
  <2>4. CASE ~(m = n /\ row[n].status \notin Cancelling)
    BY <1>3, <2>2, <2>4, SameQuiet
  <2> QED
    BY <2>3, <2>4
<1> QED
  BY <1>4, <1>5, <1>6, <1>7, <1>8, <1>9, <1>10, <1>11, <1>12, <1>13 DEF WorkerStep

\* waitingNode is quiet.
LEMMA WaitingQuiet ==
  ASSUME TypeOK, NEW n \in Nodes, AppendTransition(n, OnNodeWaiting(row[n])), NEW m \in Nodes
  PROVE  Quiet(m)
<1>1. row[n] \in Row
  BY DEF TypeOK
<1>2. OnNodeWaiting(row[n]).status
        = IF row[n].status \in Cancelling THEN row[n].status ELSE "waiting"
  BY <1>1, WaitingType
<1>3. row'[m] = IF m = n /\ row[n].status \notin Cancelling THEN OnNodeWaiting(row[n]) ELSE row[m]
  BY TransitionRow
<1>4. CASE m = n /\ row[n].status \notin Cancelling
  BY <1>2, <1>3, <1>4 DEF Quiet, Opens, Open, KeepsCancel, Cancelling
<1>5. CASE ~(m = n /\ row[n].status \notin Cancelling)
  BY <1>3, <1>5, SameQuiet
<1> QED
  BY <1>4, <1>5

\* failNode for the latest attempt is quiet.
LEMMA FailedQuiet ==
  ASSUME TypeOK, NEW n \in Nodes, NEW a \in Attempts,
         Append(n, OnNodeTerminal(row[n], "failed", a, FALSE)), NEW m \in Nodes
  PROVE  Quiet(m)
<1>1. row[n] \in Row
  BY DEF TypeOK
<1>2. OnNodeTerminal(row[n], "failed", a, FALSE).status
        = IF row[n].status \in Cancelling THEN row[n].status ELSE "failed"
  BY <1>1, TerminalType
<1>3. row'[m] = IF m = n THEN OnNodeTerminal(row[n], "failed", a, FALSE) ELSE row[m]
  BY AppendRow
<1>4. "failed" \in NodeStatus \ Open
  BY DEF NodeStatus, Open
<1>5. CASE m = n
  BY <1>2, <1>3, <1>4, <1>5, GuardedQuiet
<1>6. CASE m # n
  BY <1>3, <1>6, SameQuiet
<1> QED
  BY <1>5, <1>6

\* cancelledNode is quiet.
LEMMA NodeCancelledQuiet ==
  ASSUME TypeOK, NEW n \in Nodes, NEW a \in 0 .. AttemptBound,
         Append(n, OnNodeCancelled(row[n], a)), NEW m \in Nodes
  PROVE  Quiet(m)
<1>1. row[n] \in Row
  BY DEF TypeOK
<1>2. OnNodeCancelled(row[n], a).status
        = IF row[n].status \in Terminal THEN row[n].status ELSE "cancelled"
  BY <1>1, CancelledType
<1>3. row'[m] = IF m = n THEN OnNodeCancelled(row[n], a) ELSE row[m]
  BY AppendRow
<1>4. CASE m = n
  BY <1>2, <1>3, <1>4, CancelledQuiet
<1>5. CASE m # n
  BY <1>3, <1>5, SameQuiet
<1> QED
  BY <1>4, <1>5

\* The steps of Recover: a node becomes claimable again only if it is pure or
\* was found idempotent or reconcilable (the only ones with further phases).
LEMMA RecoverRows ==
  ASSUME TypeInv, RecoverStep, NEW m \in Nodes
  PROVE  /\ KeepsCancel(row[m], row'[m])
         /\ Opens(m) => Contract[m] = "pure" \/ m \in rec.cur
<1> DEFINE Goal == /\ KeepsCancel(row[m], row'[m])
                   /\ Opens(m) => Contract[m] = "pure" \/ m \in rec.cur
<1>1. TypeOK
  BY DEF TypeInv
<1>2. Quiet(m) => Goal
  BY DEF Quiet
<1>3. row' = row => Goal
  BY <1>2, SameQuiet
<1>4. ASSUME NEW n \in Nodes, RecoverNode(n)
      PROVE  Goal
  <2>1. row[n] \in Row /\ row[n].latest \in 0 .. AttemptBound
    BY <1>1 DEF TypeOK, Row
  <2>2. \/ row' = row
        \/ Append(n, OnNodeCancelled(row[n], row[n].latest))
        \/ AppendTransition(n, OnNodeWaiting(row[n]))
        \/ Contract[n] = "pure" /\ AppendTransition(n, OnNodeRequeued(row[n], 0, FALSE))
        \/ Append(n, OnNodeReconciling(row[n]))
    BY <1>4 DEF RecoverNode
  <2>3. CASE Append(n, OnNodeCancelled(row[n], row[n].latest))
    BY <1>1, <1>2, <2>1, <2>3, NodeCancelledQuiet
  <2>4. CASE AppendTransition(n, OnNodeWaiting(row[n]))
    BY <1>1, <1>2, <2>4, WaitingQuiet
  <2>5. CASE Contract[n] = "pure" /\ AppendTransition(n, OnNodeRequeued(row[n], 0, FALSE))
    <3>1. row'[m] = IF m = n /\ row[n].status \notin Cancelling
                    THEN OnNodeRequeued(row[n], 0, FALSE) ELSE row[m]
      BY <1>1, <2>5, TransitionRow
    <3>2. CASE m = n /\ row[n].status \notin Cancelling
      BY <2>5, <3>2 DEF KeepsCancel, Cancelling
    <3>3. CASE ~(m = n /\ row[n].status \notin Cancelling)
      BY <1>2, <3>1, <3>3, SameQuiet
    <3> QED
      BY <3>2, <3>3
  <2>6. CASE Append(n, OnNodeReconciling(row[n]))
    <3>1. row'[m] = IF m = n THEN OnNodeReconciling(row[n]) ELSE row[m]
      BY <1>1, <2>6, AppendRow
    <3>2. OnNodeReconciling(row[n]).status
            = IF row[n].status \in Cancelling THEN row[n].status ELSE "reconciling"
      BY <2>1, ReconcilingType
    <3>3. "reconciling" \in NodeStatus \ Open
      BY DEF NodeStatus, Open
    <3>4. CASE m = n
      BY <1>2, <3>1, <3>2, <3>3, <3>4, GuardedQuiet
    <3>5. CASE m # n
      BY <1>2, <3>1, <3>5, SameQuiet
    <3> QED
      BY <3>4, <3>5
  <2> QED
    BY <1>3, <2>2, <2>3, <2>4, <2>5, <2>6
<1>5. ASSUME NEW n \in Nodes, ResumeIdempotentAttempt(n)
      PROVE  Goal
  <2>1. row[n] \in Row /\ rec.att \in 0 .. AttemptBound /\ n \in rec.cur
    BY <1>1, <1>5 DEF TypeOK, ResumeIdempotentAttempt
  <2>2. OnNodeRequeued(row[n], rec.att, TRUE).status
          = IF row[n].status \in Cancelling THEN row[n].status ELSE "eligible"
    BY <2>1, RequeuedType
  <2>3. row'[m] = IF m = n THEN OnNodeRequeued(row[n], rec.att, TRUE) ELSE row[m]
    BY <1>1, <1>5, AppendRow DEF ResumeIdempotentAttempt
  <2>4. CASE m = n
    BY <2>1, <2>2, <2>3, <2>4 DEF KeepsCancel, Cancelling
  <2>5. CASE m # n
    BY <1>2, <2>3, <2>5, SameQuiet
  <2> QED
    BY <2>4, <2>5
<1>6. ASSUME NEW n \in Nodes, ReconcileNode(n)
      PROVE  Goal
  <2>1. \/ row' = row
        \/ row[n].latest > 0 /\ Append(n, OnNodeTerminal(row[n], "failed", row[n].latest, FALSE))
        \/ AppendTransition(n, OnNodeWaiting(row[n]))
    BY <1>6 DEF ReconcileNode
  <2>2. row[n].latest > 0 => row[n].latest \in Attempts
    BY <1>1, AttemptBoundAssumption DEF TypeOK, Row, Attempts
  <2> QED
    BY <1>1, <1>2, <1>3, <2>1, <2>2, FailedQuiet, WaitingQuiet
<1>7. ASSUME NEW n \in Nodes, CommitReconciled(n)
      PROVE  Goal
  <2>1. rec.att \in Attempts
    BY <1>7 DEF CommitReconciled, TypeInv, RecOK
  <2> QED
    BY <1>1, <1>2, <1>7, <2>1, CommitQuiet DEF CommitReconciled
<1>8. ASSUME NEW n \in Nodes, SettleAbsent(n)
      PROVE  Goal
  <2>1. rec.att \in 0 .. AttemptBound /\ n \in rec.cur
    BY <1>1, <1>8 DEF TypeOK, SettleAbsent
  <2>2. CASE Append(n, OnNodeCancelled(row[n], rec.att))
    BY <1>1, <1>2, <2>1, <2>2, NodeCancelledQuiet
  <2>3. CASE AppendTransition(n, OnNodeRequeued(row[n], rec.att, FALSE))
    <3>1. row'[m] = IF m = n /\ row[n].status \notin Cancelling
                    THEN OnNodeRequeued(row[n], rec.att, FALSE) ELSE row[m]
      BY <1>1, <2>3, TransitionRow
    <3>2. CASE m = n /\ row[n].status \notin Cancelling
      BY <2>1, <3>2 DEF KeepsCancel, Cancelling
    <3>3. CASE ~(m = n /\ row[n].status \notin Cancelling)
      BY <1>2, <3>1, <3>3, SameQuiet
    <3> QED
      BY <3>2, <3>3
  <2> QED
    BY <1>8, <2>2, <2>3 DEF SettleAbsent
<1>9. ASSUME NEW n \in Nodes, ReconcileCancelledNode(n)
      PROVE  Goal
  <2>1. \/ row' = row
        \/ Append(n, OnNodeTerminal(row[n], "failed", rec.att, FALSE))
        \/ AppendTransition(n, OnNodeWaiting(row[n]))
    BY <1>9 DEF ReconcileCancelledNode
  <2>2. rec.att \in Attempts
    BY <1>9 DEF ReconcileCancelledNode, TypeInv, RecOK
  <2> QED
    BY <1>1, <1>2, <1>3, <2>1, <2>2, FailedQuiet, WaitingQuiet
<1>10. CASE RecoverScan \/ \E n \in Nodes : CheckAbsent(n)
  BY <1>3, <1>10 DEF RecoverScan, CheckAbsent, dbVars
<1> QED
  BY <1>4, <1>5, <1>6, <1>7, <1>8, <1>9, <1>10 DEF RecoverStep

\* No other step makes a node claimable or takes a cancellation back.
LEMMA OtherRows ==
  ASSUME TypeInv, NEW m \in Nodes,
         \/ \E l \in Loops : LoopStep(l)
         \/ \E l \in Loops, n \in Nodes : Abort(l, n)
         \/ \E o \in Ops : RequestOp(o)
         \/ OpStep
         \/ \E n \in Nodes : ExpireLease(n)
         \/ Crash
  PROVE  Quiet(m)
<1>1. row[m] \in Row
  BY DEF TypeInv, TypeOK
<1>2. CASE CancelRun
  <2>1. CASE run = "running"
    <3>1. row'[m] = CancelNode(row[m])
      BY <1>2, <2>1 DEF CancelRun
    <3>2. /\ OnNodeCancelRequested(row[m]).status =
              IF row[m].status \in Terminal THEN row[m].status ELSE "cancel_requested"
          /\ EnsureRunNode(row[m]) \in Row
          /\ EnsureRunNode(row[m]).status =
              IF row[m].status = "absent" THEN "pending" ELSE row[m].status
      BY <1>1, CancelRequestedType, EnsureType
    <3>3. 0 \in 0 .. AttemptBound
      BY AttemptBoundAssumption
    <3>4. OnNodeCancelled(EnsureRunNode(row[m]), 0).status =
            IF EnsureRunNode(row[m]).status \in Terminal
            THEN EnsureRunNode(row[m]).status ELSE "cancelled"
      BY <3>2, <3>3, CancelledType
    <3>5. CASE row[m].status \in {"running", "uncertain", "reconciling"}
      BY <3>1, <3>2, <3>5
      DEF CancelNode, Quiet, Opens, Open, KeepsCancel, Terminal, Cancelling
    <3>6. CASE row[m].status \in Terminal \cup {"cancel_requested"}
      BY <3>1, <3>6, SameQuiet DEF CancelNode, Terminal
    <3>7. CASE row[m].status \notin {"running", "uncertain", "reconciling"}
                                   \cup Terminal \cup {"cancel_requested"}
      BY <3>1, <3>2, <3>4, <3>7
      DEF CancelNode, Quiet, Opens, Open, KeepsCancel, Terminal, Cancelling
    <3> QED
      BY <3>5, <3>6, <3>7
  <2>2. CASE run # "running"
    BY <1>2, <2>2, SameQuiet DEF CancelRun
  <2> QED
    BY <2>1, <2>2
<1>3. ASSUME NEW n \in Nodes, ExpireLease(n)
      PROVE  Quiet(m)
  <2>1. row' = [row EXCEPT ![n] = [row[n] EXCEPT !.lease = "expired"]]
    BY <1>3 DEF ExpireLease
  <2>2. row'[m].status = row[m].status
    BY <1>1, <2>1 DEF Row, TypeInv, TypeOK
  <2> QED
    BY <2>2 DEF Quiet, Opens, KeepsCancel, Cancelling
<1>4. CASE ~CancelRun /\ ~\E n \in Nodes : ExpireLease(n)
  <2>1. row' = row
    BY <1>4 DEF LoopStep, Step, StepDone, TryCompleteRun, Abort, RequestOp, OpStep,
                AbandonRun, CancelInflightRun, Crash, dbVars
  <2> QED
    BY <2>1, SameQuiet
<1> QED
  BY <1>2, <1>3, <1>4

-----------------------------------------------------------------------------
\* Cancellation is final: no event of a late worker, of a stale recovery, of a
\* retry or of another step loop takes a node out of cancel_requested except
\* to cancelled, and nothing takes it out of cancelled.
THEOREM EngineCancelIsFinal == Spec => CancelIsFinal
<1> DEFINE Final == \A n \in Nodes :
       /\ row[n].status = "cancelled" => row'[n].status = "cancelled"
       /\ row[n].status = "cancel_requested" => row'[n].status \in Cancelling
<1>1. TypeInv /\ [Next]_vars => [Final]_vars
  <2>1. ASSUME TypeInv, Next, NEW n \in Nodes
        PROVE  KeepsCancel(row[n], row'[n])
    BY <2>1, WorkerRows, RecoverRows, OtherRows DEF Next, Quiet
  <2> QED
    BY <2>1 DEF KeepsCancel
<1> QED
  BY <1>1, TypeInvInit, TypeInvStep, PTL DEF Spec, CancelIsFinal

-----------------------------------------------------------------------------
(***************************************************************************)
(* Non-replayable effects.  The inductive invariant says where an effect   *)
(* may be unknown: a node with a possible effect is not claimable, a worker *)
(* that has not dispatched, or whose execution failed before the effect,    *)
(* sees none, and Recover never works on a non-replayable node beyond its   *)
(* first transaction.                                                      *)
(***************************************************************************)
NoEffectYet == {"claimed", "fail", "requeue"}
Claimed == {"claimed", "exec", "ok", "fail", "uncertain", "cancel", "commit"}

NonReplayableOK(n) ==
  /\ effect[n] # "clear" => row[n].status \notin Open
  /\ \A l \in Loops :
       /\ work[l][n].pc \in NoEffectYet => effect[n] = "clear"
       /\ work[l][n].pc \in Claimed => row[n].status \notin Open

RecoverSafe == \A m \in rec.cur : Contract[m] \in {"idempotent", "reconcilable"}

ReplayInv ==
  /\ InflightInv
  /\ RecoverSafe
  /\ \A n \in Nodes : Contract[n] = "non_replayable" => NonReplayableOK(n)

\* How the worker of a non-replayable node moves, with what it knows of the
\* effect at each point.
Progress(l, n, pc) ==
  /\ pc = "claimed" => /\ row[n].status \in Open /\ row'[n].status \notin Open
                       /\ UNCHANGED effect
  /\ pc = "exec" => work[l][n].pc = "claimed"
  /\ pc = "fail" => work[l][n].pc = "exec" /\ effect'[n] = "clear"
  /\ pc = "requeue" => work[l][n].pc = "fail"
  /\ pc \in {"ok", "uncertain", "cancel", "commit"} => work[l][n].pc \in Claimed \ {"fail"}
  /\ effect'[n] # effect[n] => work[l][n].pc \in {"claimed", "exec"}

\* The new state of a worker after SetPc and after Return.
LEMMA SetPcNew ==
  ASSUME TypeInv, NEW l \in Loops, NEW n \in Nodes, NEW pc, SetPc(l, n, pc)
  PROVE  work'[l][n].pc = pc
<1>1. work[l][n] \in Worker
  BY DEF TypeInv, TypeOK
<1>2. work'[l][n] = [work[l][n] EXCEPT !.pc = pc]
  BY DEF SetPc, TypeInv, TypeOK
<1> QED
  BY <1>1, <1>2 DEF Worker

\* A worker that returned is idle.
LEMMA ReturnNew ==
  ASSUME TypeInv, NEW l \in Loops, NEW n \in Nodes, Return(l, n)
  PROVE  work'[l][n].pc = "idle"
  BY IdleType DEF Return, TypeInv, TypeOK

\* A worker that returns has nothing to show.
LEMMA IdleProgress ==
  ASSUME NEW l, NEW n, UNCHANGED effect
  PROVE  Progress(l, n, "idle")
  BY DEF Progress

\* Every step of executeNode is a Progress step of its own worker.
LEMMA WorkerProgress ==
  ASSUME TypeInv, NEW l \in Loops, NEW n \in Nodes, Contract[n] = "non_replayable",
         WorkerStep(l, n) \/ Abort(l, n)
  PROVE  Progress(l, n, work'[l][n].pc)
<1>1. Guarded(n) /\ row[n] \in Row /\ TypeOK
  BY DEF Guarded, TypeInv, TypeOK
<1>2. CASE \/ FinishRouter(l, n) \/ RejectNode(l, n) \/ CommitResult(l, n)
           \/ UncertainNode(l, n) \/ CancelledNode(l, n) \/ RequeueNode(l, n) \/ Abort(l, n)
  <2>1. Return(l, n) /\ UNCHANGED effect
    BY <1>2 DEF FinishRouter, RejectNode, CommitResult, UncertainNode, CancelledNode,
                RequeueNode, Abort, histVars
  <2> QED
    BY <2>1, ReturnNew, IdleProgress
<1>3. CASE ClaimNonExecutable(l, n)
  <2>1. UNCHANGED effect
    BY <1>3 DEF ClaimNonExecutable, histVars
  <2>2. CASE Claimable(n)
    <3>1. work'[l][n].pc = "routing"
      BY <1>3, <2>2, SetPcNew DEF ClaimNonExecutable
    <3> QED
      BY <2>1, <3>1 DEF Progress
  <2>3. CASE ~Claimable(n)
    <3>1. work'[l][n].pc = "idle"
      BY <1>3, <2>3, IdleType DEF ClaimNonExecutable, TypeInv, TypeOK
    <3> QED
      BY <2>1, <3>1, IdleProgress
  <2> QED
    BY <2>2, <2>3
<1>4. CASE TrackInflight(l, n)
  <2>1. UNCHANGED effect
    BY <1>4 DEF TrackInflight, histVars
  <2>2. work'[l][n].pc \in {"idle", "tracked"}
    BY <1>4, SetPcNew, IdleType DEF TrackInflight, TypeInv, TypeOK
  <2> QED
    BY <2>1, <2>2 DEF Progress
<1>5. CASE ClaimAttempt(l, n)
  <2>1. UNCHANGED effect
    BY <1>5 DEF ClaimAttempt, histVars
  <2>2. CASE Claimable(n)
    <3>1. work'[l][n].pc = "claimed"
      BY <1>5, <2>2, SetPcNew DEF ClaimAttempt
    <3>2. work[l][n].att \in Attempts
      BY <1>5 DEF ClaimAttempt, TypeInv, AttOK
    <3>3. row'[n] = OnNodeStarted(row[n], work[l][n].att, TRUE)
      BY <1>1, <1>5, <2>2, AppendRow DEF ClaimAttempt
    <3>4. row'[n].status = "running"
      <4>1. OnNodeStarted(row[n], work[l][n].att, TRUE).status = "running"
        BY <1>1, <3>2, StartedType
      <4> QED
        BY <3>3, <4>1
    <3> QED
      BY <2>1, <2>2, <3>1, <3>4 DEF Progress, Claimable, Open
  <2>3. CASE ~Claimable(n)
    BY <1>5, <2>1, <2>3, ReturnNew, IdleProgress DEF ClaimAttempt
  <2> QED
    BY <2>2, <2>3
<1>6. CASE Dispatch(l, n)
  <2>1. work[l][n].pc = "claimed" /\ work'[l][n].pc \in {"cancel", "exec"}
    BY <1>6, SetPcNew DEF Dispatch
  <2> QED
    BY <2>1 DEF Progress, Claimed
<1>7. CASE ExecuteOk(l, n)
  <2>1. PICK r \in Routes \cup {Always} :
          work' = [work EXCEPT ![l][n].pc = "ok", ![l][n].route = r]
    BY <1>7 DEF ExecuteOk
  <2>2. work[l][n] \in Worker
    BY DEF TypeInv, TypeOK
  <2>3. work'[l][n] = [work[l][n] EXCEPT !.pc = "ok", !.route = r]
    BY <2>1 DEF TypeInv, TypeOK
  <2>4. work'[l][n].pc = "ok"
    BY <2>2, <2>3 DEF Worker
  <2>5. work[l][n].pc = "exec"
    BY <1>7 DEF ExecuteOk
  <2> QED
    BY <2>4, <2>5 DEF Progress, Claimed
<1>8. CASE ExecuteError(l, n)
  <2>1. work[l][n].pc = "exec" /\ work'[l][n].pc \in {"cancel", "fail"}
    BY <1>8, SetPcNew DEF ExecuteError
  <2>2. effect'[n] = "clear"
    BY <1>1, <1>8 DEF ExecuteError, TypeOK
  <2> QED
    BY <2>1, <2>2 DEF Progress, Claimed
<1>9. CASE ExecuteCancelled(l, n) \/ ExecuteTimeout(l, n) \/ ExecuteUncertain(l, n)
  <2>1. /\ work[l][n].pc = "exec" /\ work'[l][n].pc \in {"cancel", "uncertain"}
        /\ UNCHANGED effect
    BY <1>1, <1>9, SetPcNew
    DEF ExecuteCancelled, ExecuteTimeout, ExecuteUncertain, TimeoutOutcome, histVars
  <2> QED
    BY <2>1 DEF Progress, Claimed
<1>10. CASE CheckResult(l, n)
  <2>1. /\ work[l][n].pc = "ok" /\ work'[l][n].pc \in {"cancel", "uncertain", "commit"}
        /\ UNCHANGED effect
    BY <1>10, SetPcNew DEF CheckResult, histVars
  <2> QED
    BY <2>1 DEF Progress, Claimed
<1>11. CASE RecordAttemptFailure(l, n)
  <2>1. /\ work[l][n].pc = "fail" /\ work'[l][n].pc \in {"idle", "requeue"}
        /\ UNCHANGED effect
    BY <1>11, SetPcNew, ReturnNew DEF RecordAttemptFailure, histVars
  <2> QED
    BY <2>1 DEF Progress
<1> QED
  BY <1>2, <1>3, <1>4, <1>5, <1>6, <1>7, <1>8, <1>9, <1>10, <1>11 DEF WorkerStep

\* A worker changes what is known of the effect of its own node only.
LEMMA WorkerEffect ==
  ASSUME TypeInv, NEW l \in Loops, NEW n \in Nodes, WorkerStep(l, n) \/ Abort(l, n),
         NEW m \in Nodes, m # n
  PROVE  effect'[m] = effect[m]
  BY DEF WorkerStep, ClaimNonExecutable, FinishRouter, RejectNode, TrackInflight,
         ClaimAttempt, Dispatch, ExecuteOk, ExecuteError, ExecuteCancelled,
         ExecuteTimeout, ExecuteUncertain, CheckResult, CommitResult, UncertainNode,
         CancelledNode, RecordAttemptFailure, RequeueNode, Abort, histVars, TypeInv, TypeOK

\* The candidate in progress after each way Recover may go on.
LEMMA RecoverCur ==
  ASSUME TypeInv, NEW n \in Nodes
  PROVE  /\ EndRecover => rec'.cur = {}
         /\ NextCandidate(n) => rec'.cur = {}
         /\ \A phase, a : InPhase(n, phase, a) => rec'.cur = {n}
<1>1. rec \in [todo : SUBSET Nodes, canc : SUBSET Nodes, cur : SUBSET Nodes,
              phase : RecPhase, att : 0 .. AttemptBound]
  BY DEF TypeInv, TypeOK
<1>2. EndRecover => rec'.cur = {}
  BY DEF EndRecover, NoRec
<1>3. NextCandidate(n) => rec'.cur = {}
  <2>1. CASE rec.todo \ {n} = {}
    BY <1>2, <2>1 DEF NextCandidate
  <2>2. CASE rec.todo \ {n} # {}
    <3>1. NextCandidate(n) =>
            rec' = [rec EXCEPT !.todo = @ \ {n}, !.cur = {}, !.phase = "none"]
      BY <2>2 DEF NextCandidate
    <3> QED
      BY <1>1, <3>1
  <2> QED
    BY <2>1, <2>2
<1>4. ASSUME NEW phase, NEW a, InPhase(n, phase, a)
      PROVE  rec'.cur = {n}
  <2>1. rec' = [rec EXCEPT !.cur = {n}, !.phase = phase, !.att = a]
    BY <1>4 DEF InPhase
  <2> QED
    BY <1>1, <2>1
<1> QED
  BY <1>2, <1>3, <1>4

\* Recover learns about the effect of the candidate in progress only, and goes
\* beyond its first transaction with idempotent and reconcilable nodes only.
LEMMA RecoverEffect ==
  ASSUME TypeInv, RecoverSafe, RecoverStep
  PROVE  /\ \A m \in Nodes : effect'[m] # effect[m] => m \in rec.cur
         /\ RecoverSafe'
<1>1. ASSUME NEW n \in Nodes, RecoverNode(n)
      PROVE  RecoverSafe' /\ UNCHANGED effect
  <2>1. UNCHANGED effect
    BY <1>1 DEF RecoverNode, histVars
  <2>2. Contract[n] \in Contracts
    BY EngineAssumption
  <2>3. \/ NextCandidate(n) \/ EndRecover
        \/ /\ Contract[n] \in {"idempotent", "reconcilable"}
           /\ \E phase, a : InPhase(n, phase, a)
    BY <1>1 DEF RecoverNode
  <2>4. rec'.cur \subseteq {n} /\ (rec'.cur # {} => Contract[n] \in {"idempotent", "reconcilable"})
    <3>1. CASE NextCandidate(n) \/ EndRecover
      BY <3>1, RecoverCur
    <3>2. CASE /\ Contract[n] \in {"idempotent", "reconcilable"}
               /\ \E phase, a : InPhase(n, phase, a)
      BY <3>2, RecoverCur
    <3> QED
      BY <2>3, <3>1, <3>2
  <2> QED
    BY <2>1, <2>4 DEF RecoverSafe
<1>2. ASSUME NEW n \in Nodes, n \in rec.cur,
             NextCandidate(n) \/ EndRecover \/ \E phase, a : InPhase(n, phase, a)
      PROVE  RecoverSafe'
  <2>1. rec'.cur \subseteq {n}
    BY <1>2, RecoverCur
  <2> QED
    BY <1>2, <2>1 DEF RecoverSafe
<1>3. ASSUME NEW n \in Nodes,
             \/ ResumeIdempotentAttempt(n) \/ CommitReconciled(n)
             \/ CheckAbsent(n) \/ SettleAbsent(n)
      PROVE  RecoverSafe' /\ UNCHANGED effect
  <2>1. /\ UNCHANGED effect /\ n \in rec.cur
        /\ NextCandidate(n) \/ \E phase, a : InPhase(n, phase, a)
    BY <1>3 DEF ResumeIdempotentAttempt, CommitReconciled, CheckAbsent, SettleAbsent, histVars
  <2> QED
    BY <1>2, <2>1
<1>4. ASSUME NEW n \in Nodes, ReconcileNode(n) \/ ReconcileCancelledNode(n)
      PROVE  /\ \A m \in Nodes : effect'[m] # effect[m] => m \in rec.cur
             /\ RecoverSafe'
  <2>1. /\ n \in rec.cur
        /\ NextCandidate(n) \/ EndRecover \/ \E phase, a : InPhase(n, phase, a)
        /\ UNCHANGED effect \/ Confirmed(n) \/ Absent(n)
    BY <1>4 DEF ReconcileNode, ReconcileCancelledNode
  <2>2. \A m \in Nodes : m # n => effect'[m] = effect[m]
    BY <2>1 DEF Confirmed, Absent, TypeInv, TypeOK
  <2> QED
    BY <1>2, <2>1, <2>2
<1>5. CASE RecoverScan
  <2>1. rec'.cur = {} /\ UNCHANGED effect
    BY <1>5 DEF RecoverScan, NoRec, histVars
  <2> QED
    BY <2>1 DEF RecoverSafe
<1> QED
  BY <1>1, <1>3, <1>4, <1>5 DEF RecoverStep

\* The worker part of ReplayInv.
LEMMA WorkerReplay ==
  ASSUME ReplayInv, NEW l \in Loops, NEW n \in Nodes, WorkerStep(l, n) \/ Abort(l, n),
         NEW m \in Nodes, Contract[m] = "non_replayable"
  PROVE  NonReplayableOK(m)'
<1>1. TypeInv /\ InflightExact /\ NonReplayableOK(m)
  BY DEF ReplayInv, InflightInv
<1>2. Move(l, n)
  BY <1>1, WorkerStepMove
<1>3. ASSUME NEW k \in Loops, ~(k = l /\ m = n)
      PROVE  work'[k][m] = work[k][m]
  BY <1>1, <1>2, <1>3 DEF Move, Becomes, TypeInv, TypeOK
<1>4. Opens(m) => m = n /\ work[l][n].pc \in {"fail", "requeue"}
  <2>1. CASE WorkerStep(l, n)
    BY <1>1, <2>1, WorkerRows
  <2>2. CASE Abort(l, n)
    BY <1>1, <2>2, OtherRows DEF Quiet
  <2> QED
    BY <2>1, <2>2
<1>5. CASE m # n
  <2>1. effect'[m] = effect[m] /\ ~Opens(m)
    BY <1>1, <1>4, <1>5, WorkerEffect
  <2>2. \A k \in Loops : work'[k][m] = work[k][m]
    BY <1>3, <1>5
  <2> QED
    BY <1>1, <2>1, <2>2 DEF NonReplayableOK, Opens
<1>6. CASE m = n
  <2>1. Progress(l, m, work'[l][m].pc)
    BY <1>1, <1>6, WorkerProgress
  <2>2. ASSUME NEW k \in Loops, k # l
        PROVE  work'[k][m] = work[k][m]
    BY <1>3, <2>2
  <2>3. work[l][m].pc \in Claimed \cup NoEffectYet =>
          \A k \in Loops : k # l => work[k][m].pc \notin Tracked
    BY <1>1 DEF InflightExact, Claimed, NoEffectYet, Tracked
  <2>4. Claimed \cup NoEffectYet \subseteq Tracked
    BY DEF Claimed, NoEffectYet, Tracked
  <2>5. effect'[m] # "clear" => row'[m].status \notin Open
    <3> SUFFICES ASSUME effect'[m] # "clear"
                 PROVE  row'[m].status \notin Open
      OBVIOUS
    <3>1. CASE effect'[m] = effect[m]
      <4>1. row[m].status \notin Open
        BY <1>1, <3>1 DEF NonReplayableOK
      <4>2. ~(work[l][m].pc \in {"fail", "requeue"})
        BY <1>1, <3>1 DEF NonReplayableOK, NoEffectYet
      <4> QED
        BY <1>4, <1>6, <4>1, <4>2 DEF Opens
    <3>2. CASE effect'[m] # effect[m]
      <4>1. work[l][m].pc \in {"claimed", "exec"}
        BY <2>1, <3>2 DEF Progress
      <4>2. row[m].status \notin Open
        BY <1>1, <4>1 DEF NonReplayableOK, Claimed
      <4> QED
        BY <1>4, <1>6, <4>1, <4>2 DEF Opens
    <3> QED
      BY <3>1, <3>2
  <2>6. ASSUME NEW k \in Loops
        PROVE  /\ work'[k][m].pc \in NoEffectYet => effect'[m] = "clear"
               /\ work'[k][m].pc \in Claimed => row'[m].status \notin Open
    <3>1. CASE k = l
      <4>1. work'[l][m].pc \in NoEffectYet => effect'[m] = "clear"
        <5>1. CASE work'[l][m].pc = "claimed"
          BY <1>1, <2>1, <5>1 DEF Progress, NonReplayableOK
        <5>2. CASE work'[l][m].pc = "fail"
          BY <2>1, <5>2 DEF Progress
        <5>3. CASE work'[l][m].pc = "requeue"
          BY <1>1, <2>1, <5>3 DEF Progress, NonReplayableOK, NoEffectYet
        <5> QED
          BY <5>1, <5>2, <5>3 DEF NoEffectYet
      <4>2. work'[l][m].pc \in Claimed => row'[m].status \notin Open
        <5>1. CASE work'[l][m].pc = "claimed"
          BY <2>1, <5>1 DEF Progress
        <5>2. CASE work'[l][m].pc \in Claimed \ {"claimed"}
          <6>1. work[l][m].pc \in Claimed \ {"fail"}
            BY <2>1, <5>2 DEF Progress, Claimed
          <6>2. row[m].status \notin Open
            BY <1>1, <6>1 DEF NonReplayableOK
          <6> QED
            BY <1>4, <1>6, <6>1, <6>2 DEF Opens, Claimed
        <5> QED
          BY <5>1, <5>2
      <4> QED
        BY <3>1, <4>1, <4>2
    <3>2. CASE k # l
      <4>1. work'[k][m] = work[k][m]
        BY <2>2, <3>2
      <4>2. work[k][m].pc \in Claimed \cup NoEffectYet =>
              work[l][m].pc \notin Claimed \cup NoEffectYet
        BY <2>3, <2>4, <3>2
      <4>3. work[k][m].pc \in Claimed \cup NoEffectYet => effect'[m] = effect[m] /\ ~Opens(m)
        BY <1>4, <1>6, <2>1, <4>2 DEF Progress, Claimed, NoEffectYet
      <4> QED
        BY <1>1, <4>1, <4>3 DEF NonReplayableOK, Opens
    <3> QED
      BY <3>1, <3>2
  <2> QED
    BY <2>5, <2>6 DEF NonReplayableOK
<1> QED
  BY <1>5, <1>6

\* No step but a worker's own takes a worker further than "listed".
LEMMA CalmWorkers ==
  ASSUME TypeInv, NEW l \in Loops, NEW m \in Nodes,
         \/ \E k \in Loops : LoopStep(k)
         \/ RecoverStep
         \/ \E o \in Ops : RequestOp(o)
         \/ OpStep
         \/ \E n \in Nodes : ExpireLease(n)
         \/ Crash
  PROVE  \/ work'[l][m].pc = work[l][m].pc
         \/ work'[l][m].pc \in {"idle", "listed"}
  <1>1. CASE UNCHANGED work
    BY <1>1
  <1>2. ASSUME NEW k \in Loops, Step(k), work' # work
        PROVE  \/ work'[l][m].pc = work[l][m].pc
               \/ work'[l][m].pc \in {"idle", "listed"}
    <2> DEFINE a == row[m].count + 1
    <2>1. work' = [work EXCEPT ![k] =
             [n \in Nodes |-> IF n \in Eligible
                              THEN [Idle EXCEPT !.pc = "listed", !.att = row[n].count + 1]
                              ELSE Idle]]
      BY <1>2 DEF Step
    <2>2. \/ work'[l][m] = work[l][m]
          \/ work'[l][m] = Idle
          \/ work'[l][m] = [Idle EXCEPT !.pc = "listed", !.att = a]
      BY <2>1 DEF TypeInv, TypeOK
    <2> HIDE DEF a
    <2>3. [Idle EXCEPT !.pc = "listed", !.att = a].pc = "listed"
      BY DEF Idle
    <2> QED
      BY <2>2, <2>3, IdleType
  <1>3. CASE CancelInflightRun
    <2>1. work[l][m] \in Worker
      BY DEF TypeInv, TypeOK
    <2>2. work'[l][m] = IF work[l][m].pc \in Tracked
                        THEN [work[l][m] EXCEPT !.sig = TRUE] ELSE work[l][m]
      BY <1>3 DEF CancelInflightRun
    <2> QED
      BY <2>1, <2>2 DEF Worker
  <1>4. CASE Crash
    BY <1>4, IdleType DEF Crash
  <1> QED
    BY <1>1, <1>2, <1>3, <1>4
    DEF LoopStep, StepDone, TryCompleteRun, RequestOp, OpStep, CancelRun, AbandonRun,
        ExpireLease, procVars, RecoverStep, RecoverScan, RecoverNode, ResumeIdempotentAttempt,
      ReconcileNode, CommitReconciled, CheckAbsent, SettleAbsent, ReconcileCancelledNode

\* The steps that are not a worker's: no new effect, no worker gets further.
LEMMA CalmReplay ==
  ASSUME NEW m \in Nodes, NonReplayableOK(m),
         effect'[m] = effect[m], ~Opens(m),
         \A l \in Loops : \/ work'[l][m].pc = work[l][m].pc
                          \/ work'[l][m].pc \in {"idle", "listed"}
  PROVE  NonReplayableOK(m)'
  BY DEF NonReplayableOK, Opens, Claimed, NoEffectYet

\* Every step keeps what ReplayInv says of the workers, the rows and Recover.
LEMMA ReplayStep ==
  ASSUME ReplayInv, Next
  PROVE  /\ RecoverSafe'
         /\ \A m \in Nodes : Contract[m] = "non_replayable" => NonReplayableOK(m)'
<1>1. TypeInv /\ InflightExact /\ LoopInv /\ RecoverSafe
  BY DEF ReplayInv, InflightInv
<1>2. CASE \E l \in Loops, n \in Nodes : WorkerStep(l, n) \/ Abort(l, n)
  <2>1. UNCHANGED rec
    BY <1>1, <1>2, WorkerStepMove DEF Move
  <2> QED
    BY <1>1, <1>2, <2>1, WorkerReplay DEF RecoverSafe
<1>3. CASE RecoverStep
  <2>1. UNCHANGED work
    BY <1>3 DEF RecoverStep, RecoverScan, RecoverNode, ResumeIdempotentAttempt,
                ReconcileNode, CommitReconciled, CheckAbsent, SettleAbsent,
                ReconcileCancelledNode
  <2>2. RecoverSafe'
    BY <1>1, <1>3, RecoverEffect
  <2>3. ASSUME NEW m \in Nodes, Contract[m] = "non_replayable"
        PROVE  NonReplayableOK(m)'
    <3>1. m \notin rec.cur
      BY <1>1, <2>3 DEF RecoverSafe
    <3>2. effect'[m] = effect[m]
      BY <1>1, <1>3, <3>1, RecoverEffect
    <3>3. ~Opens(m)
      BY <1>1, <1>3, <2>3, <3>1, RecoverRows
    <3> QED
      BY <2>1, <2>3, <3>2, <3>3, CalmReplay DEF ReplayInv
  <2> QED
    BY <2>2, <2>3
<1>4. CASE \/ \E l \in Loops : LoopStep(l)
           \/ \E o \in Ops : RequestOp(o)
           \/ OpStep
           \/ \E n \in Nodes : ExpireLease(n)
           \/ Crash
  <2>1. UNCHANGED effect /\ (UNCHANGED rec \/ rec' = NoRec)
    BY <1>4 DEF LoopStep, Step, StepDone, TryCompleteRun, RequestOp, OpStep, CancelRun,
                AbandonRun, CancelInflightRun, ExpireLease, Crash, procVars, histVars
  <2>2. RecoverSafe'
    BY <1>1, <2>1 DEF RecoverSafe, NoRec
  <2>3. ASSUME NEW l \in Loops, NEW m \in Nodes
        PROVE  \/ work'[l][m].pc = work[l][m].pc
               \/ work'[l][m].pc \in {"idle", "listed"}
    BY <1>1, <1>4, CalmWorkers
  <2>4. ASSUME NEW m \in Nodes, Contract[m] = "non_replayable"
        PROVE  NonReplayableOK(m)'
    <3>1. ~Opens(m)
      BY <1>1, <1>4, OtherRows DEF Quiet
    <3>2. NonReplayableOK(m)
      BY <2>4 DEF ReplayInv
    <3> QED
      BY <2>1, <2>3, <3>1, <3>2, CalmReplay
  <2> QED
    BY <2>2, <2>4
<1> QED
  BY <1>2, <1>3, <1>4 DEF Next

\* ReplayInv is inductive.
LEMMA ReplayInvInit == Init => ReplayInv
<1> SUFFICES ASSUME Init PROVE ReplayInv
  OBVIOUS
<1>1. InflightInv
  BY TypeInvInit, InflightInit DEF InflightInv
<1>2. RecoverSafe
  BY DEF Init, NoRec, RecoverSafe
<1>3. \A n \in Nodes : NonReplayableOK(n)
  BY IdleType DEF Init, NonReplayableOK, Claimed, NoEffectYet
<1> QED
  BY <1>1, <1>2, <1>3 DEF ReplayInv

\* ReplayInv is inductive.
LEMMA ReplayInvStep == ReplayInv /\ [Next]_vars => ReplayInv'
<1>1. ASSUME ReplayInv, Next
      PROVE  ReplayInv'
  <2>1. InflightInv'
    BY <1>1, TypeInvStep, InflightStep DEF ReplayInv, InflightInv
  <2> QED
    BY <1>1, <2>1, ReplayStep DEF ReplayInv
<1>2. ASSUME ReplayInv, UNCHANGED vars
      PROVE  ReplayInv'
  <2>1. InflightInv'
    BY <1>2, TypeInvStep
    DEF ReplayInv, InflightInv, InflightExact, LoopInv, StepOwnsWorkers, RecoverOwnsTicker, vars
  <2> QED
    BY <1>2, <2>1 DEF ReplayInv, RecoverSafe, NonReplayableOK, vars
<1> QED
  BY <1>1, <1>2

\* A non-replayable node is never executed again once an earlier execution may
\* have had its effect: not by a retry, not by Recover after a crash or with a
\* live worker, not by a second step loop with a stale list.
THEOREM EngineNonReplayableOnce == Spec => NonReplayableOnce
<1> DEFINE Once == \A n \in Nodes :
       Contract[n] = "non_replayable" /\ Starts(n) => effect[n] = "clear"
<1>1. ReplayInv /\ [Next]_vars => [Once]_vars
  <2>1. ASSUME ReplayInv, Next, NEW n \in Nodes, Contract[n] = "non_replayable", Starts(n)
        PROVE  effect[n] = "clear"
    <3>1. TypeInv
      BY <2>1 DEF ReplayInv, InflightInv
    <3>2. PICK l \in Loops : work'[l][n].pc = "exec" /\ work[l][n].pc # "exec"
      BY <2>1 DEF Starts, Executing
    <3>3. CASE \E k \in Loops, m \in Nodes : WorkerStep(k, m) \/ Abort(k, m)
      <4>1. PICK k \in Loops, m \in Nodes : WorkerStep(k, m) \/ Abort(k, m)
        BY <3>3
      <4>2. Move(k, m)
        BY <3>1, <4>1, WorkerStepMove
      <4>3. k = l /\ m = n
        BY <3>1, <3>2, <4>2 DEF Move, Becomes, TypeInv, TypeOK
      <4>4. work[l][n].pc = "claimed"
        BY <2>1, <3>1, <3>2, <4>1, <4>3, WorkerProgress DEF Progress
      <4> QED
        BY <2>1, <4>4 DEF ReplayInv, NonReplayableOK, NoEffectYet
    <3>4. CASE ~\E k \in Loops, m \in Nodes : WorkerStep(k, m) \/ Abort(k, m)
      <4>1. FALSE
        BY <2>1, <3>1, <3>2, <3>4, CalmWorkers DEF Next
      <4> QED
        BY <4>1
    <3> QED
      BY <3>3, <3>4
  <2> QED
    BY <2>1
<1> QED
  BY <1>1, ReplayInvInit, ReplayInvStep, PTL DEF Spec, NonReplayableOnce

-----------------------------------------------------------------------------
(***************************************************************************)
(* Routing fails closed, where routing alone decides: with a dependency    *)
(* edge into a route target the target may be left pending (run            *)
(* engine_route).                                                          *)
(***************************************************************************)
RoutedAlone == \A e \in RouteEdges, m \in Nodes : <<m, e.to>> \notin Release

\* All routes to m come from one node and none of them is taken.
Untaken(m) ==
  \E e \in RouteEdges :
    e.to = m /\ \A f \in RouteEdges : f.to = m => f.from = e.from /\ f \notin traversed

\* Such a node has not begun and nobody works on it, and it is settled once
\* the node that chooses has succeeded.
UntakenOK(m) ==
  /\ row[m].status \in {"absent", "skipped", "cancelled"}
  /\ \A l \in Loops : work[l][m].pc = "idle"
  /\ m \notin rec.todo \cup rec.cur
  /\ \A e \in RouteEdges :
       e.to = m /\ row[e.from].status = "succeeded" => row[m].status \in {"skipped", "cancelled"}

RouteInv == TypeInv /\ \A m \in Nodes : Untaken(m) => UntakenOK(m)

\* A transaction of node n: it commits n's success, or it changes n's row only
\* and does not make it succeeded.
Commits(n) == \E a \in Attempts : \E route, known : CommitNodeSuccess(n, a, route, known)

OwnRow(n) ==
  /\ UNCHANGED traversed
  /\ \A m \in Nodes : m # n => row'[m] = row[m]
  /\ row'[n].status = "succeeded" => row[n].status = "succeeded"

\* One event of n other than node_finished.
LEMMA EventOwnRow ==
  ASSUME TypeOK, NEW n \in Nodes, NEW new, Append(n, new) \/ AppendTransition(n, new),
         UNCHANGED traversed, new.status = "succeeded" => row[n].status = "succeeded"
  PROVE  OwnRow(n)
  BY AppendRow, TransitionRow DEF OwnRow

\* No row changes.
LEMMA SameOwnRow ==
  ASSUME UNCHANGED <<row, traversed>>, NEW n
  PROVE  OwnRow(n)
  BY DEF OwnRow

\* Only node_finished makes a node succeeded.
LEMMA Unfinished ==
  ASSUME NEW r \in Row, NEW a \in Attempts
  PROVE  /\ OnNodeStarted(r, 1, FALSE).status # "succeeded"
         /\ OnNodeStarted(r, a, TRUE).status # "succeeded"
         /\ OnNodeTerminal(r, "failed", a, FALSE).status # "succeeded"
         /\ OnNodeTerminal(r, "uncertain", a, FALSE).status # "succeeded"
         /\ \A keyed \in BOOLEAN :
              OnNodeTerminal(EnsureRunNode(r), "failed", a, keyed).status # "succeeded"
         /\ OnNodeCancelled(r, a).status = "succeeded" => r.status = "succeeded"
         /\ OnNodeAttemptFailed(r, a).status = "succeeded" => r.status = "succeeded"
<1>1. 1 \in Attempts /\ a \in 0 .. AttemptBound
  BY AttemptBoundAssumption DEF Attempts
<1>2. OnNodeStarted(r, 1, FALSE).status = "running" /\ OnNodeStarted(r, a, TRUE).status = "running"
  BY <1>1, StartedType
<1>3. /\ OnNodeTerminal(r, "failed", a, FALSE).status
           = IF r.status \in Cancelling THEN r.status ELSE "failed"
      /\ OnNodeTerminal(r, "uncertain", a, FALSE).status
           = IF r.status \in Cancelling THEN r.status ELSE "uncertain"
  BY TerminalFields
<1>4. EnsureRunNode(r) \in Row
  BY EnsureType
<1>5. \A keyed \in BOOLEAN :
        OnNodeTerminal(EnsureRunNode(r), "failed", a, keyed).status
          = IF EnsureRunNode(r).status \in Cancelling THEN EnsureRunNode(r).status ELSE "failed"
  BY <1>4, TerminalType
<1>6. OnNodeCancelled(r, a).status = IF r.status \in Terminal THEN r.status ELSE "cancelled"
  BY <1>1, CancelledType
<1>7. OnNodeAttemptFailed(r, a).status = IF r.status = "running" THEN "eligible" ELSE r.status
  BY AttemptFailedType
<1> QED
  BY <1>2, <1>3, <1>5, <1>6, <1>7 DEF Cancelling

\* The events of a requeue, a wait and a reconciliation.
LEMMA Unsettled ==
  ASSUME NEW r \in Row, NEW a \in 0 .. AttemptBound
  PROVE  /\ OnNodeRequeued(r, a, FALSE).status # "succeeded"
         /\ OnNodeRequeued(r, a, TRUE).status # "succeeded"
         /\ OnNodeWaiting(r).status # "succeeded"
         /\ OnNodeReconciling(r).status # "succeeded"
         /\ OnNodeCancelled(r, a).status = "succeeded" => r.status = "succeeded"
  BY RequeuedFields, WaitingType, ReconcilingType, CancelledType DEF Cancelling

\* The transactions of a worker.
LEMMA WorkerOwnRow ==
  ASSUME TypeInv, NEW l \in Loops, NEW n \in Nodes, WorkerStep(l, n) \/ Abort(l, n)
  PROVE  OwnRow(n) \/ Commits(n)
<1>1. TypeOK /\ row[n] \in Row
  BY DEF TypeInv, TypeOK
<1>2. work[l][n].pc # "idle"
  BY WorkerStepMove DEF Move
<1>3. work[l][n].att \in Attempts /\ work[l][n].att \in 0 .. AttemptBound
  BY <1>2 DEF TypeInv, AttOK, Attempts
<1>4. CASE \/ TrackInflight(l, n) \/ Dispatch(l, n) \/ ExecuteOk(l, n)
           \/ ExecuteError(l, n) \/ ExecuteCancelled(l, n) \/ ExecuteTimeout(l, n)
           \/ ExecuteUncertain(l, n) \/ CheckResult(l, n) \/ Abort(l, n)
  BY <1>4, SameOwnRow
  DEF TrackInflight, Dispatch, ExecuteOk, ExecuteError, ExecuteCancelled,
      ExecuteTimeout, ExecuteUncertain, CheckResult, Abort, dbVars
<1>5. CASE ClaimNonExecutable(l, n)
  <2>1. UNCHANGED traversed /\ (UNCHANGED row \/ Append(n, OnNodeStarted(row[n], 1, FALSE)))
    BY <1>5 DEF ClaimNonExecutable
  <2> QED
    BY <1>1, <1>3, <2>1, EventOwnRow, SameOwnRow, Unfinished
<1>6. CASE ClaimAttempt(l, n)
  <2>1. /\ UNCHANGED traversed
        /\ UNCHANGED row \/ Append(n, OnNodeStarted(row[n], work[l][n].att, TRUE))
    BY <1>6 DEF ClaimAttempt
  <2> QED
    BY <1>1, <1>3, <2>1, EventOwnRow, SameOwnRow, Unfinished
<1>7. CASE FinishRouter(l, n) \/ CommitResult(l, n)
  <2>1. \/ \E route, known : CommitNodeSuccess(n, work[l][n].att, route, known)
        \/ UNCHANGED traversed /\ Append(n, OnNodeCancelled(row[n], work[l][n].att))
    BY <1>7 DEF FinishRouter, CommitResult
  <2> QED
    BY <1>1, <1>3, <2>1, EventOwnRow, Unfinished DEF Commits
<1>8. CASE RejectNode(l, n)
  <2>1. PICK keyed \in BOOLEAN :
          Append(n, OnNodeTerminal(EnsureRunNode(row[n]), "failed", work[l][n].att, keyed))
    BY <1>8 DEF RejectNode
  <2>2. UNCHANGED traversed
    BY <1>8 DEF RejectNode
  <2> QED
    BY <1>1, <1>3, <2>1, <2>2, EventOwnRow, Unfinished
<1>9. CASE UncertainNode(l, n)
  <2>1. /\ UNCHANGED traversed
        /\ Append(n, OnNodeTerminal(row[n], "uncertain", work[l][n].att, FALSE))
    BY <1>9 DEF UncertainNode
  <2> QED
    BY <1>1, <1>3, <2>1, EventOwnRow, Unfinished
<1>10. CASE CancelledNode(l, n)
  BY <1>1, <1>3, <1>10, EventOwnRow, Unfinished DEF CancelledNode
<1>11. CASE RecordAttemptFailure(l, n)
  <2>1. /\ UNCHANGED traversed
        /\ \/ Append(n, OnNodeTerminal(row[n], "failed", work[l][n].att, FALSE))
           \/ Append(n, OnNodeAttemptFailed(row[n], work[l][n].att))
    BY <1>11 DEF RecordAttemptFailure
  <2> QED
    BY <1>1, <1>3, <2>1, EventOwnRow, Unfinished
<1>12. CASE RequeueNode(l, n)
  BY <1>1, <1>3, <1>12, EventOwnRow, Unsettled DEF RequeueNode
<1> QED
  BY <1>4, <1>5, <1>6, <1>7, <1>8, <1>9, <1>10, <1>11, <1>12 DEF WorkerStep

\* The transactions of Recover.
RecoverAt(n) ==
  \/ RecoverNode(n) \/ ResumeIdempotentAttempt(n) \/ ReconcileNode(n) \/ CommitReconciled(n)
  \/ CheckAbsent(n) \/ SettleAbsent(n) \/ ReconcileCancelledNode(n)

\* Each of them is about the candidate, or a node still on the list.
LEMMA RecoverOwnRow ==
  ASSUME TypeInv, NEW n \in Nodes, RecoverAt(n)
  PROVE  /\ OwnRow(n) \/ Commits(n)
         /\ n \in rec.todo \cup rec.cur
         /\ rec'.todo \subseteq rec.todo /\ rec'.cur \subseteq {n}
         /\ UNCHANGED work
<1>1. TypeOK /\ row[n] \in Row /\ row[n].latest \in 0 .. AttemptBound
      /\ rec.att \in 0 .. AttemptBound
  BY DEF TypeInv, TypeOK, Row
<1>2. /\ n \in rec.todo \cup rec.cur
      /\ UNCHANGED work
      /\ NextCandidate(n) \/ EndRecover \/ \E phase, a : InPhase(n, phase, a)
  BY DEF RecoverAt, RecoverNode, ResumeIdempotentAttempt, ReconcileNode,
         CommitReconciled, CheckAbsent, SettleAbsent, ReconcileCancelledNode
<1>3. rec'.todo \subseteq rec.todo /\ rec'.cur \subseteq {n}
  <2>1. CASE EndRecover
    BY <2>1 DEF EndRecover, NoRec
  <2>2. CASE NextCandidate(n) /\ ~EndRecover
    <3>1. rec' = [rec EXCEPT !.todo = rec.todo \ {n}, !.cur = {}, !.phase = "none"]
      BY <2>2 DEF NextCandidate
    <3> QED
      BY <3>1 DEF TypeInv, TypeOK
  <2>3. ASSUME NEW phase, NEW a, InPhase(n, phase, a)
        PROVE  rec'.todo \subseteq rec.todo /\ rec'.cur \subseteq {n}
    <3>1. rec' = [rec EXCEPT !.cur = {n}, !.phase = phase, !.att = a]
      BY <2>3 DEF InPhase
    <3> QED
      BY <3>1 DEF TypeInv, TypeOK
  <2> QED
    BY <1>2, <2>1, <2>2, <2>3 DEF NextCandidate
<1>4. ASSUME RecoverNode(n)
      PROVE  OwnRow(n) \/ Commits(n)
  <2>1. /\ UNCHANGED traversed
        /\ \/ UNCHANGED row
           \/ row[n].latest > 0 /\ Append(n, OnNodeCancelled(row[n], row[n].latest))
           \/ AppendTransition(n, OnNodeWaiting(row[n]))
           \/ AppendTransition(n, OnNodeRequeued(row[n], 0, FALSE))
           \/ Append(n, OnNodeReconciling(row[n]))
    BY <1>4 DEF RecoverNode
  <2>2. 0 \in 0 .. AttemptBound
    BY AttemptBoundAssumption
  <2> QED
    BY <1>1, <2>1, <2>2, EventOwnRow, SameOwnRow, Unsettled
<1>5. ASSUME ResumeIdempotentAttempt(n)
      PROVE  OwnRow(n) \/ Commits(n)
  BY <1>1, <1>5, EventOwnRow, Unsettled DEF ResumeIdempotentAttempt
<1>6. ASSUME ReconcileNode(n) \/ ReconcileCancelledNode(n)
      PROVE  OwnRow(n) \/ Commits(n)
  <2>1. /\ UNCHANGED traversed
        /\ \/ UNCHANGED row
           \/ AppendTransition(n, OnNodeWaiting(row[n]))
           \/ \E a \in Attempts : Append(n, OnNodeTerminal(row[n], "failed", a, FALSE))
    <3>1. row[n].latest > 0 => row[n].latest \in Attempts
      BY <1>1, AttemptBoundAssumption DEF Attempts
    <3>2. rec.phase = "queryCancelled" => rec.att \in Attempts
      BY DEF TypeInv, RecOK
    <3> QED
      BY <1>6, <3>1, <3>2 DEF ReconcileNode, ReconcileCancelledNode
  <2> QED
    BY <1>1, <2>1, EventOwnRow, SameOwnRow, Unsettled, Unfinished
<1>7. ASSUME CommitReconciled(n)
      PROVE  OwnRow(n) \/ Commits(n)
  BY <1>7 DEF CommitReconciled, Commits, TypeInv, RecOK
<1>8. ASSUME CheckAbsent(n)
      PROVE  OwnRow(n) \/ Commits(n)
  BY <1>8, SameOwnRow DEF CheckAbsent, dbVars
<1>9. ASSUME SettleAbsent(n)
      PROVE  OwnRow(n) \/ Commits(n)
  <2>1. /\ UNCHANGED traversed
        /\ \/ Append(n, OnNodeCancelled(row[n], rec.att))
           \/ AppendTransition(n, OnNodeRequeued(row[n], rec.att, FALSE))
    BY <1>9 DEF SettleAbsent
  <2> QED
    BY <1>1, <2>1, EventOwnRow, Unsettled
<1> QED
  BY <1>2, <1>3, <1>4, <1>5, <1>6, <1>7, <1>8, <1>9 DEF RecoverAt

\* What commitNodeSuccess of n does to a node without dependencies.
LEMMA CommitTarget ==
  ASSUME RoutedAlone, TypeOK, NEW n \in Nodes, Commits(n),
         NEW m \in Nodes, m # n, NEW e \in RouteEdges, e.to = m,
         row[m].status \in {"absent", "skipped", "cancelled"}
  PROVE  /\ traversed \subseteq traversed'
         /\ row'[m].status \in {"absent", "skipped", "cancelled"}
              \/ \E f \in RouteEdges : f.to = m /\ f \in traversed'
         /\ row[m].status \in {"skipped", "cancelled"} => row'[m].status = row[m].status
         /\ \A s \in Nodes : s # n => row'[s].status # "succeeded" \/ row[s].status = "succeeded"
         /\ \/ row'[n].status = "succeeded" => row[n].status = "succeeded"
            \/ /\ \A f \in RouteEdges : f.to = m => f.from = n /\ f \notin traversed'
               /\ e.from = n
               => row'[m].status \in {"skipped", "cancelled"}
<1>0. PICK a \in Attempts : \E route, known : CommitNodeSuccess(n, a, route, known)
  BY DEF Commits
<1>1. PICK route, known : CommitNodeSuccess(n, a, route, known)
  BY <1>0
<1>2. row \in [Nodes -> Row] /\ row[n] \in Row /\ row[m] \in Row
  BY DEF TypeOK
<1>3. \A s \in Nodes : CommitEffect(n, s)
  BY <1>1, CommitType
<1>4. \A s \in Nodes : s # n => row'[s].status # "succeeded" \/ row[s].status = "succeeded"
  BY <1>3 DEF CommitEffect
<1>5. row[m].status \in {"skipped", "cancelled"} => row'[m].status = row[m].status
  BY <1>3 DEF CommitEffect
<1>6. CASE row[n].status \in {"running", "reconciling"}
  <2> DEFINE done  == [row EXCEPT ![n] = OnNodeTerminal(row[n], "succeeded", a, FALSE)]
             targets == Unselected(n, route, known)
             chosen == Selected(n, route, known)
             skips == WithSkips(done, targets)
  <2>1. row' = WithDecisions(skips, n, chosen) /\ traversed' = traversed \cup chosen
    BY <1>1, <1>6 DEF CommitNodeSuccess, Finished
  <2>2. done[m] = row[m]
    BY <1>2
  <2>3. skips[m] = IF m \in targets /\ row[m].status = "absent"
                   THEN OnNodeSkipped(EnsureRunNode(row[m])) ELSE row[m]
    BY <2>2 DEF WithSkips
  <2>4. row'[m] = skips[m] \/ \E f \in chosen : f.to = m
    BY <2>1 DEF WithDecisions, RoutedAlone
  <2>5. /\ EnsureRunNode(row[m]) \in Row
        /\ EnsureRunNode(row[m]).status =
             IF row[m].status = "absent" THEN "pending" ELSE row[m].status
    BY <1>2, EnsureType
  <2>6. OnNodeSkipped(EnsureRunNode(row[m])).status =
          IF EnsureRunNode(row[m]).status \in Cancelling
          THEN EnsureRunNode(row[m]).status ELSE "skipped"
    BY <2>5, SkippedType
  <2>7. skips[m].status = IF m \in targets /\ row[m].status = "absent"
                          THEN "skipped" ELSE row[m].status
    BY <2>3, <2>5, <2>6 DEF Cancelling
  <2>8. chosen \subseteq RouteEdges
    BY DEF Selected
  <2>9. (\A f \in chosen : f.to # m) /\ (\A f \in RouteEdges : f.to = m => f.from = n)
          /\ e.from = n => m \in targets
    BY DEF Unselected
  <2> HIDE DEF skips, targets, chosen
  <2> QED
    BY <1>4, <1>5, <2>1, <2>4, <2>7, <2>8, <2>9
<1>7. CASE row[n].status = "cancel_requested"
  <2>1. UNCHANGED traversed /\ row' = [row EXCEPT ![n] = OnNodeCancelled(row[n], a)]
    BY <1>1, <1>7 DEF CommitNodeSuccess
  <2>2. row'[n].status # "succeeded"
    BY <1>3, <1>7 DEF CommitEffect
  <2> QED
    BY <1>2, <1>4, <1>5, <2>1, <2>2
<1>8. CASE row[n].status \notin {"running", "reconciling", "cancel_requested"}
  BY <1>1, <1>4, <1>8 DEF CommitNodeSuccess
<1> QED
  BY <1>6, <1>7, <1>8

\* What a step of the other actors does: no success, no route, no worker for a
\* node that is not eligible, no candidate that is not to be recovered.
OtherStep ==
  \/ \E l \in Loops : LoopStep(l)
  \/ RecoverScan
  \/ \E o \in Ops : RequestOp(o)
  \/ OpStep
  \/ \E n \in Nodes : ExpireLease(n)
  \/ Crash

\* The rows and the edges after such a step.
LEMMA OtherTarget ==
  ASSUME TypeInv, OtherStep, NEW m \in Nodes
  PROVE  /\ UNCHANGED traversed
         /\ row'[m].status = "succeeded" => row[m].status = "succeeded"
         /\ row[m].status \in {"absent", "skipped", "cancelled"}
              => row'[m].status \in {row[m].status, "cancelled"}
         /\ row[m].status = "skipped" => row'[m].status = "skipped"
<1>1. row[m] \in Row /\ row \in [Nodes -> Row]
  BY DEF TypeInv, TypeOK
<1>2. CASE CancelRun
  <2>1. UNCHANGED traversed /\ (UNCHANGED row \/ row'[m] = CancelNode(row[m]))
    BY <1>2 DEF CancelRun
  <2>2. CancelNode(row[m]).status =
          IF row[m].status \in {"running", "uncertain", "reconciling"} THEN "cancel_requested"
          ELSE IF row[m].status \in Terminal \cup {"cancel_requested"} THEN row[m].status
          ELSE "cancelled"
    BY <1>1, CancelNodeFields
  <2> QED
    BY <2>1, <2>2 DEF Terminal
<1>3. ASSUME NEW n \in Nodes, ExpireLease(n)
      PROVE  UNCHANGED traversed /\ row'[m].status = row[m].status
  <2>1. UNCHANGED traversed /\ row' = [row EXCEPT ![n] = [row[n] EXCEPT !.lease = "expired"]]
    BY <1>3 DEF ExpireLease
  <2> QED
    BY <1>1, <2>1 DEF Row
<1>4. CASE ~CancelRun /\ ~\E n \in Nodes : ExpireLease(n)
  <2>1. ASSUME NEW l \in Loops, LoopStep(l)
        PROVE  UNCHANGED <<traversed, row>>
    BY <2>1 DEF LoopStep, Step, StepDone, TryCompleteRun, dbVars
  <2>2. RecoverScan \/ Crash \/ (\E o \in Ops : RequestOp(o))
        => UNCHANGED <<traversed, row>>
    BY DEF RecoverScan, Crash, RequestOp, dbVars
  <2>3. AbandonRun \/ CancelInflightRun => UNCHANGED <<traversed, row>>
    BY DEF AbandonRun, CancelInflightRun, dbVars
  <2> QED
    BY <1>4, <2>1, <2>2, <2>3 DEF OtherStep, OpStep
<1> QED
  BY <1>2, <1>3, <1>4

\* A Step lists eligible nodes only.
LEMMA StepLists ==
  ASSUME TypeInv, NEW k \in Loops, Step(k), work' # work,
         NEW l \in Loops, NEW m \in Nodes, m \notin Eligible
  PROVE  work'[l][m] = work[l][m] \/ work'[l][m] = Idle
<1>1. work' = [work EXCEPT ![k] =
         [n \in Nodes |-> IF n \in Eligible
                          THEN [Idle EXCEPT !.pc = "listed", !.att = row[n].count + 1]
                          ELSE Idle]]
  BY DEF Step
<1> QED
  BY <1>1 DEF TypeInv, TypeOK

\* The workers and the list of Recover after such a step.
LEMMA OtherIdle ==
  ASSUME TypeInv, OtherStep, NEW m \in Nodes, \A l \in Loops : work[l][m].pc = "idle",
         m \notin rec.todo \cup rec.cur,
         m \notin Eligible, m \notin RecoverList
  PROVE  /\ \A l \in Loops : work'[l][m].pc = "idle"
         /\ m \notin rec'.todo \cup rec'.cur
<1>1. ASSUME NEW l \in Loops
      PROVE  work'[l][m].pc = "idle"
  <2>1. \/ work'[l][m].pc = work[l][m].pc
        \/ work'[l][m].pc \in {"idle", "listed"}
    BY CalmWorkers DEF OtherStep, RecoverStep
  <2>2. ASSUME NEW k \in Loops, Step(k), work' # work
        PROVE  work'[l][m].pc = "idle"
    BY <2>2, StepLists, IdleType
  <2>3. CASE work' = work \/ ~\E k \in Loops : Step(k)
    <3>1. \/ UNCHANGED work
          \/ CancelInflightRun
          \/ Crash
      BY <2>3
      DEF OtherStep, LoopStep, StepDone, TryCompleteRun, RecoverScan, RequestOp, OpStep,
          CancelRun, AbandonRun, ExpireLease, procVars
    <3>2. CASE CancelInflightRun
      <4>1. work[l][m] \in Worker
        BY DEF TypeInv, TypeOK
      <4>2. work'[l][m] = IF work[l][m].pc \in Tracked
                          THEN [work[l][m] EXCEPT !.sig = TRUE] ELSE work[l][m]
        BY <3>2 DEF CancelInflightRun
      <4> QED
        BY <4>1, <4>2 DEF Worker
    <3>3. CASE Crash
      BY <3>3, IdleType DEF Crash
    <3> QED
      BY <3>1, <3>2, <3>3
  <2> QED
    BY <2>2, <2>3
<1>2. m \notin rec'.todo \cup rec'.cur
  <2>1. CASE RecoverScan
    <3>1. rec'.todo = RecoverList /\ rec'.cur = {}
      BY <2>1 DEF RecoverScan, NoRec
    <3> QED
      BY <3>1
  <2>2. CASE ~RecoverScan
    <3>1. ASSUME NEW l \in Loops, LoopStep(l)
          PROVE  UNCHANGED rec
      BY <3>1 DEF LoopStep, Step, StepDone, TryCompleteRun
    <3>2. (\E o \in Ops : RequestOp(o)) \/ OpStep => UNCHANGED rec
      BY DEF RequestOp, OpStep, CancelRun, AbandonRun, CancelInflightRun
    <3>3. \A n \in Nodes : ExpireLease(n) => UNCHANGED rec
      BY DEF ExpireLease, procVars
    <3>4. Crash => rec' = NoRec
      BY DEF Crash
    <3> QED
      BY <2>2, <3>1, <3>2, <3>3, <3>4 DEF OtherStep, NoRec
  <2> QED
    BY <2>1, <2>2
<1> QED
  BY <1>1, <1>2

\* The transactions of a worker or of Recover keep what is known of a node
\* whose only routes are untaken.
LEMMA TransactionUntaken ==
  ASSUME RoutedAlone, TypeOK, NEW n \in Nodes, OwnRow(n) \/ Commits(n),
         NEW m \in Nodes, m # n, Untaken(m) => UntakenOK(m), Untaken(m)',
         \A l \in Loops : work'[l][m].pc = work[l][m].pc,
         rec'.todo \cup rec'.cur \subseteq rec.todo \cup rec.cur \cup {n}
  PROVE  UntakenOK(m)'
<1>1. PICK e \in RouteEdges :
        e.to = m /\ \A f \in RouteEdges : f.to = m => f.from = e.from /\ f \notin traversed'
  BY DEF Untaken
<1>2. CASE OwnRow(n)
  <2>1. Untaken(m)
    BY <1>2, <1>1 DEF Untaken, OwnRow
  <2>2. UntakenOK(m)
    BY <2>1
  <2>3. \A s \in Nodes : row'[s].status = "succeeded" => row[s].status = "succeeded"
    BY <1>2 DEF OwnRow
  <2>4. \A f \in RouteEdges : f.from \in Nodes
    BY EngineAssumption
  <2>5. row'[m] = row[m]
    BY <1>2 DEF OwnRow
  <2> QED
    BY <2>2, <2>3, <2>4, <2>5 DEF UntakenOK
<1>3. CASE Commits(n) /\ ~OwnRow(n)
  <2>1. traversed \subseteq traversed'
    BY <1>3 DEF Commits, CommitNodeSuccess
  <2>2. Untaken(m)
    BY <1>1, <2>1 DEF Untaken
  <2>3. UntakenOK(m)
    BY <2>2
  <2>4. row[m].status \in {"absent", "skipped", "cancelled"}
    BY <2>3 DEF UntakenOK
  <2>5. /\ row'[m].status \in {"absent", "skipped", "cancelled"}
        /\ row[m].status \in {"skipped", "cancelled"} => row'[m].status = row[m].status
        /\ \A s \in Nodes : s # n => row'[s].status # "succeeded" \/ row[s].status = "succeeded"
        /\ \/ row'[n].status = "succeeded" => row[n].status = "succeeded"
           \/ e.from = n => row'[m].status \in {"skipped", "cancelled"}
    BY <1>1, <1>3, <2>4, CommitTarget
  <2>6. \A f \in RouteEdges : f.to = m => f.from = e.from /\ f.from \in Nodes
    BY <1>1, EngineAssumption
  <2>7. ASSUME NEW f \in RouteEdges, f.to = m, row'[f.from].status = "succeeded"
        PROVE  row'[m].status \in {"skipped", "cancelled"}
    <3>1. CASE row[f.from].status = "succeeded"
      BY <2>3, <2>5, <2>7, <3>1 DEF UntakenOK
    <3>2. CASE row[f.from].status # "succeeded"
      BY <2>5, <2>6, <2>7, <3>2
    <3> QED
      BY <3>1, <3>2
  <2> QED
    BY <2>3, <2>5, <2>7 DEF UntakenOK
<1> QED
  BY <1>2, <1>3

\* Every step keeps it.
LEMMA RouteInvStep ==
  ASSUME RoutedAlone, RouteInv, [Next]_vars
  PROVE  RouteInv'
<1>1. TypeInv /\ TypeInv' /\ TypeOK
  BY TypeInvStep DEF RouteInv, TypeInv
<1>2. ASSUME NEW m \in Nodes, Untaken(m)'
      PROVE  UntakenOK(m)'
  <2>1. Untaken(m) => UntakenOK(m)
    BY DEF RouteInv
  <2>2. ASSUME NEW l \in Loops, NEW n \in Nodes, WorkerStep(l, n) \/ Abort(l, n)
        PROVE  UntakenOK(m)'
    <3>1. OwnRow(n) \/ Commits(n)
      BY <1>1, <2>2, WorkerOwnRow
    <3>2. Move(l, n)
      BY <1>1, <2>2, WorkerStepMove
    <3>3. UNCHANGED rec /\ work[l][n].pc # "idle"
          /\ (m # n => \A k \in Loops : work'[k][m] = work[k][m])
      BY <1>1, <3>2 DEF Move, Becomes, TypeOK
    <3>4. traversed \subseteq traversed'
      BY <3>1 DEF OwnRow, Commits, CommitNodeSuccess
    <3>5. Untaken(m)
      BY <1>2, <3>4 DEF Untaken
    <3>6. m # n
      BY <2>1, <3>3, <3>5 DEF UntakenOK
    <3> QED
      BY <1>1, <1>2, <2>1, <3>1, <3>3, <3>6, TransactionUntaken
  <2>3. ASSUME NEW n \in Nodes, RecoverAt(n)
        PROVE  UntakenOK(m)'
    <3>1. /\ OwnRow(n) \/ Commits(n)
          /\ n \in rec.todo \cup rec.cur
          /\ rec'.todo \subseteq rec.todo /\ rec'.cur \subseteq {n}
          /\ UNCHANGED work
      BY <1>1, <2>3, RecoverOwnRow
    <3>2. traversed \subseteq traversed'
      BY <3>1 DEF OwnRow, Commits, CommitNodeSuccess
    <3>3. Untaken(m)
      BY <1>2, <3>2 DEF Untaken
    <3>4. m # n
      BY <2>1, <3>1, <3>3 DEF UntakenOK
    <3>5. rec'.todo \cup rec'.cur \subseteq rec.todo \cup rec.cur \cup {n}
      BY <3>1
    <3> QED
      BY <1>1, <1>2, <2>1, <3>1, <3>4, <3>5, TransactionUntaken
  <2>4. CASE OtherStep
    <3>1. UNCHANGED traversed
      BY <1>1, <2>4, OtherTarget
    <3>2. Untaken(m) /\ UntakenOK(m)
      BY <1>2, <2>1, <3>1 DEF Untaken
    <3>3. m \notin Eligible
      BY <3>2 DEF Untaken, UntakenOK, Eligible, Ready
    <3>4. m \notin RecoverList
      BY <3>2 DEF UntakenOK, RecoverList
    <3>5. (\A l \in Loops : work'[l][m].pc = "idle") /\ m \notin rec'.todo \cup rec'.cur
      BY <1>1, <2>4, <3>2, <3>3, <3>4, OtherIdle DEF UntakenOK
    <3>6. /\ \A s \in Nodes : row'[s].status = "succeeded" => row[s].status = "succeeded"
          /\ row'[m].status \in {"absent", "skipped", "cancelled"}
          /\ row[m].status \in {"skipped", "cancelled"} => row'[m].status \in {"skipped", "cancelled"}
      BY <1>1, <2>4, <3>2, OtherTarget DEF UntakenOK
    <3>7. \A f \in RouteEdges : f.from \in Nodes
      BY EngineAssumption
    <3> QED
      BY <3>2, <3>5, <3>6, <3>7 DEF UntakenOK
  <2>5. CASE UNCHANGED vars
    BY <1>2, <2>1, <2>5 DEF vars, Untaken, UntakenOK
  <2> QED
    BY <2>2, <2>3, <2>4, <2>5 DEF Next, RecoverStep, RecoverAt, OtherStep
<1> QED
  BY <1>1, <1>2 DEF RouteInv

\* Routing fails closed: once a node has succeeded without selecting any of
\* its routes to a target that no other node routes to, the target is skipped
\* or cancelled, for every graph in which dependency edges and routes have no
\* common target, every interleaving of loops, recovery and cancellation.
THEOREM EngineUnselectedIsSkipped ==
  ASSUME RoutedAlone
  PROVE  Spec => []UnselectedIsSkipped
<1>1. Init => RouteInv
  <2> SUFFICES ASSUME Init PROVE RouteInv
    OBVIOUS
  <2>1. TypeInv
    BY TypeInvInit
  <2>2. ASSUME NEW m \in Nodes PROVE UntakenOK(m)
    <3>1. NoRow.status = "absent"
      BY DEF NoRow
    <3>2. \A f \in RouteEdges : f.from \in Nodes
      BY EngineAssumption
    <3> QED
      BY <3>1, <3>2, IdleType DEF Init, NoRec, UntakenOK
  <2> QED
    BY <2>1, <2>2 DEF RouteInv
<1>2. RouteInv => UnselectedIsSkipped
  <2> SUFFICES ASSUME RouteInv, NEW e \in RouteEdges, row[e.from].status = "succeeded",
                      \A f \in RouteEdges : f.to = e.to => f.from = e.from /\ f \notin traversed
               PROVE  row[e.to].status \in {"skipped", "cancelled"}
    BY DEF UnselectedIsSkipped
  <2>1. e.to \in Nodes
    BY EngineAssumption
  <2>2. Untaken(e.to)
    BY DEF Untaken
  <2> QED
    BY <2>1, <2>2 DEF RouteInv, UntakenOK
<1> QED
  BY <1>1, <1>2, RouteInvStep, PTL DEF Spec

=============================================================================
