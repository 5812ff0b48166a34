---------------------------- MODULE ServicesProofs ----------------------------
(***************************************************************************)
(* Theorems about four components around the engine, each for every value  *)
(* of its constants: the schedules (Schedule), the proposals of the        *)
(* improvement service (Proposals), the webhook deliveries (Delivery) and  *)
(* the HTTP executor (HttpEffect); and, with the theorems of               *)
(* DataDirProofs and CycleProofs, about all of them side by side.          *)
(***************************************************************************)
EXTENDS Services, DataDirProofs, CycleProofs, SequenceTheorems

-----------------------------------------------------------------------------
(***************************************************************************)
(* Schedules.  Every tick of a schedule is accounted for once: proved for  *)
(* any expression, number of serve processes and horizon.                  *)
(***************************************************************************)
\* A set of minutes that is not empty has a first one.
LEMMA FirstMinute ==
  ASSUME NEW S, S \subseteq Nat, S # {}
  PROVE  \E m \in S : \A k \in S : m <= k
<1>. DEFINE R == OpToRel(<, Nat)
<1>1. IsWellFoundedOn(R, Nat)
  BY NatLessThanWellFounded
<1>2. \A x, y \in Nat : y < x => <<y, x>> \in R
  BY DEF OpToRel
<1>. HIDE DEF R
<1>3. PICK m \in S : \A k \in S : ~ (<<k, m>> \in R)
  BY <1>1, WFMin
<1>4. \A k \in S : ~ (k < m)
  BY <1>2, <1>3
<1>. QED  BY <1>3, <1>4

\* Minutes are numbers, and the expression matches one after the horizon.
LEMMA Numbers ==
  /\ Horizon \in Nat
  /\ \A m \in CronMinutes : m \in Nat /\ m >= 1
  /\ \E m \in CronMinutes : m > Horizon
  BY ScheduleAssumption

\* CronSchedule.Next returns the first match after a minute of the model.
LEMMA NextTick ==
  ASSUME NEW t \in 0 .. Horizon
  PROVE  /\ CronNext(t) \in CronMinutes \cap Minutes
         /\ CronNext(t) > t
         /\ \A k \in CronMinutes : k > t => CronNext(t) <= k
<1>1. ASSUME NEW u \in 0 .. Horizon
      PROVE  /\ CronNext(u) \in CronMinutes /\ CronNext(u) > u
             /\ \A k \in CronMinutes : k > u => CronNext(u) <= k
  <2>. DEFINE S == {m \in CronMinutes : m > u}
  <2>1. S \subseteq Nat /\ S # {}
    BY Numbers
  <2>2. PICK m \in S : \A k \in S : m <= k
    BY <2>1, FirstMinute
  <2>3. \E n \in CronMinutes : n > u /\ \A k \in CronMinutes : k > u => n <= k
    BY <2>2
  <2>. QED  BY <2>3 DEF CronNext
<1>2. Minutes = 0 .. CronNext(Horizon)
  BY DEF Minutes, CronNext
<1>3. Horizon \in 0 .. Horizon /\ CronMinutes \subseteq Nat
  BY Numbers
<1>4. CronNext(Horizon) \in CronMinutes /\ CronNext(Horizon) > Horizon
  BY <1>1, <1>3
<1>5. CronNext(t) <= CronNext(Horizon)
  BY <1>1, <1>4, Numbers
<1>6. CronNext(t) \in CronMinutes /\ CronNext(t) > t
      /\ \A k \in CronMinutes : k > t => CronNext(t) <= k
  BY <1>1
<1>7. CronNext(t) \in Minutes
  BY <1>2, <1>4, <1>5, <1>6, Numbers
<1>. QED  BY <1>6, <1>7

\* Who fires a tick listed it when it was due, and the row has not gone back.
FiringInv(p) ==
  firing[p] # NotFiring =>
    /\ firing[p].tick \in CronMinutes
    /\ firing[p].tick <= firing[p].now
    /\ firing[p].tick <= row.next

ScheduleInv ==
  /\ ScheduleTypeOK
  /\ row.next \in CronMinutes
  /\ \A p \in Servers : FiringInv(p)
  /\ TicksAccounted

\* The clock, the operator and a list change no tick.
LEMMA QuietInv ==
  ASSUME ScheduleInv,
         \/ MinutePasses \/ PauseOrResume \/ RemoveSchedule
         \/ \E p \in Servers : ListDue(p) \/ StopFiring(p)
  PROVE  ScheduleInv'
<1>. USE DEF ScheduleInv
<1>1. CASE MinutePasses
  BY <1>1, Numbers DEF MinutePasses, ScheduleTypeOK, FiringInv, TicksAccounted
<1>2. CASE PauseOrResume \/ RemoveSchedule
  <2>1. row' \in [exists : BOOLEAN, enabled : BOOLEAN, next : Minutes] /\ row'.next = row.next
        /\ (row'.exists => row.exists)
    BY <1>2 DEF PauseOrResume, RemoveSchedule, ScheduleTypeOK
  <2>2. UNCHANGED <<clock, firing, runsOf, skipsOf>>
    BY <1>2 DEF PauseOrResume, RemoveSchedule
  <2>. QED  BY <2>1, <2>2 DEF ScheduleTypeOK, FiringInv, TicksAccounted
<1>3. ASSUME NEW p \in Servers, ListDue(p) PROVE ScheduleInv'
  <2>. DEFINE x == [tick |-> row.next, now |-> clock]
  <2>1. x \in [tick : Minutes, now : 0 .. Horizon] /\ x.tick = row.next /\ x.now = clock
    BY DEF ScheduleTypeOK
  <2>2. firing' = [firing EXCEPT ![p] = x] /\ UNCHANGED <<clock, row, runsOf, skipsOf>>
    BY <1>3 DEF ListDue
  <2>3. row.next <= clock
    BY <1>3 DEF ListDue
  <2>. HIDE DEF x
  <2>4. ScheduleTypeOK'
    BY <2>1, <2>2 DEF ScheduleTypeOK
  <2>5. ASSUME NEW q \in Servers PROVE FiringInv(q)'
    <3>1. firing'[q] = IF q = p THEN x ELSE firing[q]
      BY <2>2 DEF ScheduleTypeOK
    <3>2. row.next <= row.next
      BY Numbers
    <3>. QED  BY <2>1, <2>2, <2>3, <3>1, <3>2 DEF FiringInv
  <2>6. TicksAccounted'
    BY <2>2 DEF TicksAccounted
  <2>. QED  BY <2>2, <2>4, <2>5, <2>6
<1>4. ASSUME NEW p \in Servers, StopFiring(p) PROVE ScheduleInv'
  <2>1. NotFiring \in [tick : Minutes, now : 0 .. Horizon]
    BY NextTick, Numbers DEF NotFiring, Minutes
  <2>2. ScheduleTypeOK'
    BY <1>4, <2>1 DEF ScheduleTypeOK, StopFiring
  <2>3. ASSUME NEW q \in Servers PROVE FiringInv(q)'
    BY <1>4 DEF ScheduleTypeOK, FiringInv, StopFiring
  <2>4. TicksAccounted'
    BY <1>4 DEF TicksAccounted, StopFiring
  <2>. QED  BY <1>4, <2>2, <2>3, <2>4 DEF StopFiring
<1>. QED  BY <1>1, <1>2, <1>3, <1>4

\* The row after a tick is fired or skipped.
LEMMA AdvanceRow ==
  ASSUME ScheduleInv, NEW tick, NEW now \in 0 .. Horizon, tick <= now, tick \in Nat,
         Advance(tick, CronNext(now))
  PROVE  /\ row' \in [exists : BOOLEAN, enabled : BOOLEAN, next : Minutes]
         /\ row'.next \in CronMinutes
         /\ row'.exists = row.exists
         /\ row'.next = IF Untouched(tick) THEN CronNext(now) ELSE row.next
         /\ row.next <= row'.next
<1>1. CronNext(now) \in CronMinutes \cap Minutes /\ CronNext(now) > now
  BY NextTick
<1>2. row \in [exists : BOOLEAN, enabled : BOOLEAN, next : Minutes] /\ row.next \in CronMinutes
  BY DEF ScheduleInv, ScheduleTypeOK
<1>3. CASE Untouched(tick)
  <2>1. row' = [row EXCEPT !.next = CronNext(now)] /\ row.next = tick
    BY <1>3 DEF Advance, Untouched
  <2>2. row'.exists = row.exists /\ row'.next = CronNext(now)
    BY <1>2, <2>1
  <2>3. row' \in [exists : BOOLEAN, enabled : BOOLEAN, next : Minutes]
    BY <1>1, <1>2, <2>1
  <2>. QED  BY <1>1, <1>3, <2>1, <2>2, <2>3, Numbers
<1>4. CASE ~Untouched(tick)
  BY <1>2, <1>4, Numbers DEF Advance
<1>. QED  BY <1>3, <1>4

\* Who fired or skipped is done; the others are where they were.
LEMMA OthersFire ==
  ASSUME ScheduleInv, NEW p \in Servers,
         firing' = [firing EXCEPT ![p] = NotFiring],
         row'.next \in Nat, row.next <= row'.next
  PROVE  /\ firing' \in [Servers -> [tick : Minutes, now : 0 .. Horizon]]
         /\ \A q \in Servers : FiringInv(q)'
<1>1. NotFiring \in [tick : Minutes, now : 0 .. Horizon]
  BY NextTick, Numbers DEF NotFiring, Minutes
<1>2. row.next \in Nat
  BY Numbers DEF ScheduleInv
<1>3. ASSUME NEW q \in Servers PROVE FiringInv(q)'
  <2>1. firing'[q] = IF q = p THEN NotFiring ELSE firing[q]
    BY DEF ScheduleInv, ScheduleTypeOK
  <2>2. FiringInv(q)
    BY DEF ScheduleInv
  <2>. QED  BY <1>2, <2>1, <2>2, Numbers DEF FiringInv
<1>. QED  BY <1>1, <1>3 DEF ScheduleInv, ScheduleTypeOK

\* What a firer holds.
LEMMA FirerHolds ==
  ASSUME ScheduleInv, NEW p \in Servers, firing[p] # NotFiring
  PROVE  /\ firing[p].tick \in CronMinutes \cap Minutes /\ firing[p].tick \in Nat
         /\ firing[p].tick \in 0 .. Horizon
         /\ firing[p].now \in 0 .. Horizon
         /\ firing[p].tick <= firing[p].now
         /\ firing[p].tick <= row.next
  BY Numbers DEF ScheduleInv, ScheduleTypeOK, FiringInv

\* A tick is fired: its key is new, so no run of it exists; between it and the
\* next there is no other.
LEMMA FireInv ==
  ASSUME ScheduleInv, NEW p \in Servers, FireTick(p)
  PROVE  ScheduleInv'
<1>1. PICK tick : tick = firing[p].tick
  OBVIOUS
<1>2. /\ firing[p] # NotFiring /\ CronNext(tick) > firing[p].now
      /\ firing' = [firing EXCEPT ![p] = NotFiring]
      /\ UNCHANGED <<clock, skipsOf>>
  BY <1>1 DEF FireTick
<1>3. /\ tick \in CronMinutes \cap Minutes /\ tick \in Nat /\ tick \in 0 .. Horizon
      /\ tick <= row.next
  BY <1>1, <1>2, FirerHolds
<1>4. /\ CronNext(tick) \in CronMinutes /\ CronNext(tick) > tick
      /\ \A k \in CronMinutes : k > tick => CronNext(tick) <= k
  BY <1>3, NextTick
<1>5. CASE runsOf[tick] = 0
  <2>1. runsOf' = [runsOf EXCEPT ![tick] = 1] /\ Advance(tick, CronNext(tick))
    BY <1>1, <1>5 DEF FireTick
  <2>2. /\ row' \in [exists : BOOLEAN, enabled : BOOLEAN, next : Minutes]
        /\ row'.next \in CronMinutes /\ row'.exists = row.exists
        /\ row'.next = IF Untouched(tick) THEN CronNext(tick) ELSE row.next
        /\ row.next <= row'.next
    BY <1>3, <2>1, AdvanceRow
  <2>3. firing' \in [Servers -> [tick : Minutes, now : 0 .. Horizon]]
        /\ \A q \in Servers : FiringInv(q)'
    BY <1>2, <2>2, OthersFire, Numbers
  <2>4. runsOf' \in [Minutes -> Nat]
    BY <2>1 DEF ScheduleInv, ScheduleTypeOK
  <2>5. ScheduleTypeOK'
    BY <1>2, <2>2, <2>3, <2>4 DEF ScheduleInv, ScheduleTypeOK
  <2>6. TicksAccounted'
    <3>1. SUFFICES ASSUME NEW m \in CronMinutes \cap Minutes
                   PROVE  /\ runsOf'[m] <= 1 /\ skipsOf[m] <= 1
                          /\ m < row'.next => runsOf'[m] + skipsOf[m] >= 1
                          /\ m >= row'.next => skipsOf[m] = 0 /\ (row.exists => runsOf'[m] = 0)
      BY <1>2, <2>2 DEF TicksAccounted
    <3>2. /\ runsOf[m] \in Nat /\ skipsOf[m] \in Nat /\ row.next \in Nat
          /\ runsOf'[m] = IF m = tick THEN 1 ELSE runsOf[m]
          /\ m \in Nat
      BY <2>1, Numbers DEF ScheduleInv, ScheduleTypeOK
    <3>3. /\ runsOf[m] <= 1 /\ skipsOf[m] <= 1
          /\ m < row.next => runsOf[m] + skipsOf[m] >= 1
          /\ m >= row.next => skipsOf[m] = 0 /\ (row.exists => runsOf[m] = 0)
      BY DEF ScheduleInv, TicksAccounted
    <3>4. PICK to \in Nat : to = CronNext(tick) /\ to > tick
      BY <1>4, Numbers
    <3>5. m > tick => m >= to
      BY <1>4, <3>4, Numbers
    <3>6. CASE Untouched(tick)
      <4>1. row'.next = to /\ row.next = tick /\ row.exists
        BY <2>2, <3>4, <3>6 DEF Untouched
      <4>2. CASE m = tick
        BY <1>3, <3>2, <3>3, <3>4, <4>1, <4>2
      <4>3. CASE m # tick
        BY <1>3, <3>2, <3>3, <3>4, <3>5, <4>1, <4>3
      <4>. QED  BY <4>2, <4>3
    <3>7. CASE ~Untouched(tick)
      <4>1. row'.next = row.next /\ (tick < row.next \/ ~row.exists)
        BY <1>3, <2>2, <3>2, <3>7 DEF Untouched
      <4>2. CASE m = tick
        BY <1>3, <3>2, <3>3, <4>1, <4>2
      <4>3. CASE m # tick
        BY <3>2, <3>3, <4>1, <4>3
      <4>. QED  BY <4>2, <4>3
    <3>. QED  BY <3>6, <3>7
  <2>. QED  BY <2>2, <2>3, <2>5, <2>6 DEF ScheduleInv
<1>6. CASE runsOf[tick] # 0
  <2>1. UNCHANGED <<runsOf, row>>
    BY <1>1, <1>6 DEF FireTick
  <2>2. row.next \in Nat /\ row.next <= row'.next
    BY <2>1, Numbers DEF ScheduleInv
  <2>3. firing' \in [Servers -> [tick : Minutes, now : 0 .. Horizon]]
        /\ \A q \in Servers : FiringInv(q)'
    BY <1>2, <2>1, <2>2, OthersFire
  <2>. QED  BY <1>2, <2>1, <2>3 DEF ScheduleInv, ScheduleTypeOK, TicksAccounted
<1>. QED  BY <1>5, <1>6

\* Ticks are skipped by the update that moves the row past all of them.
LEMMA SkipInv ==
  ASSUME ScheduleInv, NEW p \in Servers, SkipTicks(p)
  PROVE  ScheduleInv'
<1>1. PICK tick, now : tick = firing[p].tick /\ now = firing[p].now
  OBVIOUS
<1>. DEFINE missed == {m \in CronMinutes : tick <= m /\ m <= now}
<1>2. /\ firing[p] # NotFiring /\ Advance(tick, CronNext(now))
      /\ skipsOf' = IF Untouched(tick)
                    THEN [m \in Minutes |-> skipsOf[m] + (IF m \in missed THEN 1 ELSE 0)]
                    ELSE skipsOf
      /\ firing' = [firing EXCEPT ![p] = NotFiring]
      /\ UNCHANGED <<clock, runsOf>>
  BY <1>1 DEF SkipTicks
<1>3. tick \in Nat /\ now \in 0 .. Horizon /\ tick <= now
  BY <1>1, <1>2, FirerHolds
<1>4. PICK to \in Nat :
        /\ to = CronNext(now) /\ to > now
        /\ \A k \in CronMinutes : k > now => k >= to
  BY <1>3, NextTick, Numbers
<1>5. /\ row' \in [exists : BOOLEAN, enabled : BOOLEAN, next : Minutes]
      /\ row'.next \in CronMinutes /\ row'.exists = row.exists
      /\ row'.next = IF Untouched(tick) THEN CronNext(now) ELSE row.next
      /\ row.next <= row'.next
  BY <1>2, <1>3, AdvanceRow
<1>6. firing' \in [Servers -> [tick : Minutes, now : 0 .. Horizon]]
      /\ \A q \in Servers : FiringInv(q)'
  BY <1>2, <1>5, OthersFire, Numbers
<1>7. skipsOf' \in [Minutes -> Nat]
  <2>1. \A m \in Minutes : skipsOf[m] + (IF m \in missed THEN 1 ELSE 0) \in Nat
    BY DEF ScheduleInv, ScheduleTypeOK
  <2>. QED  BY <1>2, <2>1 DEF ScheduleInv, ScheduleTypeOK
<1>8. ScheduleTypeOK'
  BY <1>2, <1>5, <1>6, <1>7 DEF ScheduleInv, ScheduleTypeOK
<1>9. TicksAccounted'
  <2>1. SUFFICES ASSUME NEW m \in CronMinutes \cap Minutes
                 PROVE  /\ runsOf[m] <= 1 /\ skipsOf'[m] <= 1
                        /\ m < row'.next => runsOf[m] + skipsOf'[m] >= 1
                        /\ m >= row'.next => skipsOf'[m] = 0 /\ (row.exists => runsOf[m] = 0)
    BY <1>2, <1>5 DEF TicksAccounted
  <2>2. /\ runsOf[m] \in Nat /\ skipsOf[m] \in Nat /\ row.next \in Nat /\ m \in Nat
    BY Numbers DEF ScheduleInv, ScheduleTypeOK
  <2>3. /\ runsOf[m] <= 1 /\ skipsOf[m] <= 1
        /\ m < row.next => runsOf[m] + skipsOf[m] >= 1
        /\ m >= row.next => skipsOf[m] = 0 /\ (row.exists => runsOf[m] = 0)
    BY DEF ScheduleInv, TicksAccounted
  <2>4. CASE Untouched(tick)
    <3>1. row'.next = to /\ row.next = tick /\ row.exists
      BY <1>4, <1>5, <2>4 DEF Untouched
    <3>2. skipsOf'[m] = skipsOf[m] + (IF m \in missed THEN 1 ELSE 0)
      BY <1>2, <2>4
    <3>3. m \in missed <=> tick <= m /\ m <= now
      OBVIOUS
    <3>4. m > now => m >= to
      BY <1>4
    <3>5. CASE tick <= m /\ m <= now
      BY <1>3, <1>4, <2>2, <2>3, <3>1, <3>2, <3>3, <3>5
    <3>6. CASE ~(tick <= m /\ m <= now)
      <4>1. skipsOf'[m] = skipsOf[m]
        BY <2>2, <3>2, <3>3, <3>6
      <4>. QED  BY <1>3, <1>4, <2>2, <2>3, <3>1, <3>4, <3>6, <4>1
    <3>. QED  BY <3>5, <3>6
  <2>5. CASE ~Untouched(tick)
    BY <1>2, <1>5, <2>3, <2>5
  <2>. QED  BY <2>4, <2>5
<1>. QED  BY <1>5, <1>6, <1>8, <1>9 DEF ScheduleInv

\* The invariant holds initially and is kept by every step.
LEMMA ScheduleInductive ==
  /\ ScheduleInit => ScheduleInv
  /\ ScheduleInv /\ [ScheduleNext]_schedVars => ScheduleInv'
<1>1. ASSUME ScheduleInit PROVE ScheduleInv
  <2>1. 0 \in 0 .. Horizon /\ 0 \in Minutes
    <3>1. 0 \in 0 .. Horizon /\ Horizon \in 0 .. Horizon
      BY Numbers
    <3>2. CronNext(Horizon) \in CronMinutes /\ Minutes = 0 .. CronNext(Horizon)
      BY <3>1, NextTick DEF Minutes, CronNext
    <3>. QED  BY <3>1, <3>2, Numbers
  <2>2. CronNext(0) \in CronMinutes \cap Minutes
        /\ \A k \in CronMinutes : k > 0 => CronNext(0) <= k
    BY <2>1, NextTick
  <2>3. ScheduleTypeOK
    BY <1>1, <2>1, <2>2 DEF ScheduleInit, AddedRow, ScheduleTypeOK, NotFiring
  <2>4. \A p \in Servers : FiringInv(p)
    BY <1>1 DEF ScheduleInit, FiringInv
  <2>5. TicksAccounted
    <3>1. row.next = CronNext(0)
      BY <1>1 DEF ScheduleInit, AddedRow
    <3>2. \A m \in CronMinutes \cap Minutes : ~(m < row.next)
      BY <2>2, <3>1, Numbers
    <3>. QED  BY <1>1, <3>2 DEF ScheduleInit, AddedRow, TicksAccounted
  <2>. QED  BY <1>1, <2>2, <2>3, <2>4, <2>5 DEF ScheduleInit, AddedRow, ScheduleInv
<1>2. ASSUME ScheduleInv, [ScheduleNext]_schedVars PROVE ScheduleInv'
  <2>1. CASE UNCHANGED schedVars
    BY <1>2, <2>1 DEF schedVars, ScheduleInv, ScheduleTypeOK, FiringInv, TicksAccounted
  <2>. QED  BY <1>2, <2>1, QuietInv, FireInv, SkipInv DEF ScheduleNext
<1>. QED  BY <1>1, <1>2

\* Every variable keeps its type.
THEOREM ScheduleTyped == ScheduleSpec => []ScheduleTypeOK
<1>1. ScheduleInv => ScheduleTypeOK
  BY DEF ScheduleInv
<1>. QED  BY <1>1, ScheduleInductive, PTL DEF ScheduleSpec

\* No tick is lost and none starts two runs or is counted twice, however many
\* processes fire the schedule and whatever an operator does to it.
THEOREM TicksAreAccounted == ScheduleSpec => []TicksAccounted
<1>1. ScheduleInv => TicksAccounted
  BY DEF ScheduleInv
<1>. QED  BY <1>1, ScheduleInductive, PTL DEF ScheduleSpec

-----------------------------------------------------------------------------
(***************************************************************************)
(* Proposals.  They keep what they rest on, and their decisions: proved for *)
(* any number of proposals and runs.                                       *)
(***************************************************************************)
\* A proposal as the type invariant describes it.
Proposal == [status : Decided \cup {"none", "draft", "proposed"},
             approval : SUBSET PastRuns, cites : SUBSET PastRuns]

\* What one row rests on.
Backed(x, p) ==
  /\ x.status = "approved" =>
       \E r \in approvals \cap Granted : x.approval = {r} /\ Version[r] = Version[p]
  /\ x.cites \subseteq metrics \cap anchors

\* A metric is recorded for an anchor, and the anchor goes with it.
BackedInv ==
  /\ ProposalsTypeOK
  /\ metrics \subseteq anchors
  /\ \A p \in Proposals : Backed(proposal[p], p)

\* The approvals, metrics and runs of the store keep their types.
RunsTyped ==
  /\ approvals \subseteq PastRuns /\ expired \subseteq PastRuns
  /\ metrics \subseteq PastRuns /\ anchors \subseteq PastRuns
  /\ ended \subseteq PastRuns /\ candidates \subseteq PastRuns

\* The type invariant in its parts.
LEMMA TypeParts ==
  ProposalsTypeOK <=>
    proposal \in [Proposals -> Proposal] /\ submitting \subseteq Proposals /\ RunsTyped
  BY DEF ProposalsTypeOK, Proposal, RunsTyped

\* One proposal changes; what it rests on does not.
LEMMA OneProposal ==
  ASSUME BackedInv, NEW p \in Proposals, NEW x \in Proposal,
         proposal' = [proposal EXCEPT ![p] = x],
         submitting' \subseteq Proposals,
         UNCHANGED Runs0,
         Backed(x, p)
  PROVE  BackedInv'
<1>1. proposal \in [Proposals -> Proposal] /\ RunsTyped /\ \A q \in Proposals : Backed(proposal[q], q)
  BY TypeParts DEF BackedInv
<1>2. proposal' \in [Proposals -> Proposal]
  BY <1>1
<1>3. ASSUME NEW q \in Proposals PROVE Backed(proposal[q], q)'
  <2>1. proposal'[q] = IF q = p THEN x ELSE proposal[q]
    BY <1>1
  <2>2. Backed(proposal'[q], q)
    BY <1>1, <2>1
  <2>. QED  BY <2>2 DEF Backed, Runs0
<1>4. RunsTyped'
  BY <1>1 DEF RunsTyped, Runs0
<1>5. ProposalsTypeOK'
  BY <1>2, <1>4 DEF ProposalsTypeOK, Proposal, RunsTyped
<1>. QED  BY <1>3, <1>5 DEF BackedInv, Runs0

\* An undecided proposal that takes a status other than approved.
LEMMA StatusInv ==
  ASSUME BackedInv, NEW p \in Proposals,
         NEW s \in {"draft", "proposed", "rejected", "superseded"},
         proposal' = [proposal EXCEPT ![p].status = s],
         submitting' \subseteq Proposals, UNCHANGED Runs0
  PROVE  BackedInv'
<1>1. proposal[p] \in Proposal /\ Backed(proposal[p], p)
  BY TypeParts DEF BackedInv
<1>2. PICK x \in Proposal :
        /\ x.status = s /\ x.cites = proposal[p].cites
        /\ proposal' = [proposal EXCEPT ![p] = x]
  <2>. DEFINE y == [proposal[p] EXCEPT !.status = s]
  <2>1. y \in Proposal /\ y.status = s /\ y.cites = proposal[p].cites
    BY <1>1 DEF Proposal, Decided
  <2>2. proposal' = [proposal EXCEPT ![p] = y]
    OBVIOUS
  <2>. QED  BY <2>1, <2>2
<1>3. Backed(x, p)
  BY <1>1, <1>2 DEF Backed
<1>. QED  BY <1>2, <1>3, OneProposal

\* The operations on the status, but for the approval.
LEMMA MoveInv ==
  ASSUME BackedInv, NEW p \in Proposals, NEW q \in Proposals,
         \/ CreateProposal(p) \/ SubmitRead(p) \/ RejectProposal(p) \/ SupersedeProposal(p, q)
  PROVE  BackedInv'
<1>1. submitting \subseteq Proposals
  BY TypeParts DEF BackedInv
<1>2. CASE CreateProposal(p)
  BY <1>1, <1>2, StatusInv DEF CreateProposal
<1>3. CASE SubmitRead(p)
  <2>1. CASE proposal[p].status = "draft"
    BY <1>1, <1>3, <2>1, StatusInv DEF SubmitRead
  <2>2. CASE proposal[p].status # "draft"
    BY <1>1, <1>3, <2>2 DEF SubmitRead, BackedInv, Backed, ProposalsTypeOK, Runs0
  <2>. QED  BY <2>1, <2>2
<1>4. CASE RejectProposal(p)
  BY <1>1, <1>4, StatusInv DEF RejectProposal
<1>5. CASE SupersedeProposal(p, q)
  BY <1>1, <1>5, StatusInv DEF SupersedeProposal
<1>. QED  BY <1>2, <1>3, <1>4, <1>5

\* The approval is there when it is cited.
LEMMA ApproveInv ==
  ASSUME BackedInv, NEW p \in Proposals, NEW r \in PastRuns, ApproveProposal(p, r)
  PROVE  BackedInv'
<1>1. proposal[p] \in Proposal /\ Backed(proposal[p], p) /\ submitting \subseteq Proposals
  BY TypeParts DEF BackedInv
<1>2. PICK x \in Proposal :
        /\ x.approval = {r} /\ x.cites = proposal[p].cites
        /\ proposal' = [proposal EXCEPT ![p] = x]
  <2>. DEFINE y == [proposal[p] EXCEPT !.status = "approved", !.approval = {r}]
  <2>1. y \in Proposal /\ y.approval = {r} /\ y.cites = proposal[p].cites
    BY <1>1 DEF Proposal, Decided
  <2>2. proposal' = [proposal EXCEPT ![p] = y]
    BY TypeParts DEF ApproveProposal, BackedInv
  <2>. QED  BY <2>1, <2>2
<1>3. Backed(x, p)
  BY <1>1, <1>2 DEF Backed, ApproveProposal
<1>. QED  BY <1>1, <1>2, <1>3, OneProposal DEF ApproveProposal

\* So is the metric; its anchor is what recorded it.
LEMMA AssociateInv ==
  ASSUME BackedInv, NEW p \in Proposals, NEW r \in PastRuns, AssociateMetric(p, r)
  PROVE  BackedInv'
<1>1. proposal[p] \in Proposal /\ Backed(proposal[p], p) /\ submitting \subseteq Proposals
  BY TypeParts DEF BackedInv
<1>2. PICK x \in Proposal :
        /\ x.status = proposal[p].status /\ x.approval = proposal[p].approval
        /\ x.cites = proposal[p].cites \cup {r}
        /\ proposal' = [proposal EXCEPT ![p] = x]
  <2>. DEFINE y == [proposal[p] EXCEPT !.cites = proposal[p].cites \cup {r}]
  <2>1. /\ y \in Proposal /\ y.status = proposal[p].status /\ y.approval = proposal[p].approval
        /\ y.cites = proposal[p].cites \cup {r}
    BY <1>1 DEF Proposal
  <2>2. proposal' = [proposal EXCEPT ![p] = y]
    BY DEF AssociateMetric
  <2>. QED  BY <2>1, <2>2
<1>3. Backed(x, p)
  BY <1>1, <1>2 DEF Backed, BackedInv, AssociateMetric
<1>. QED  BY <1>1, <1>2, <1>3, OneProposal DEF AssociateMetric

\* Garbage collection keeps what is cited: the foreign keys refuse a cited
\* approval, and cited metrics stay with their anchors.
LEMMA DeleteInv ==
  ASSUME BackedInv, DeleteCandidates
  PROVE  BackedInv'
<1>1. proposal \in [Proposals -> Proposal] /\ submitting \subseteq Proposals /\ RunsTyped
  BY TypeParts DEF BackedInv
<1>2. RunsTyped'
  BY <1>1 DEF RunsTyped, DeleteCandidates
<1>3. ProposalsTypeOK'
  <2>1. proposal' = proposal /\ submitting' = submitting
    BY DEF DeleteCandidates
  <2>. QED  BY <1>1, <1>2, <2>1 DEF ProposalsTypeOK, RunsTyped, Proposal
<1>4. ASSUME NEW p \in Proposals PROVE Backed(proposal[p], p)'
  <2>1. Backed(proposal[p], p) /\ proposal' = proposal
    BY DEF BackedInv, DeleteCandidates
  <2>2. proposal[p].cites \subseteq CitedMetrics /\ proposal[p].approval \subseteq CitedApprovals
    BY DEF CitedMetrics, CitedApprovals
  <2>3. CASE Dangling
    BY <2>1, <2>3 DEF Backed, DeleteCandidates
  <2>4. CASE ~Dangling
    <3>1. proposal[p].cites \subseteq metrics' \cap anchors'
      BY <2>1, <2>2, <2>4 DEF Backed, DeleteCandidates
    <3>2. \A r : r \in approvals /\ proposal[p].approval = {r} => r \in approvals'
      BY <2>2, <2>4 DEF Dangling, DeleteCandidates
    <3>. QED  BY <2>1, <3>1, <3>2 DEF Backed
  <2>. QED  BY <2>3, <2>4
<1>5. metrics' \subseteq anchors'
  BY DEF BackedInv, DeleteCandidates
<1>. QED  BY <1>3, <1>4, <1>5 DEF BackedInv

\* What happens to the store around the proposals.
LEMMA AroundInv ==
  ASSUME BackedInv,
         \/ \E p \in Proposals : ReadDraft(p)
         \/ \E r \in PastRuns : RecordMetric(r) \/ ApprovalExpires(r)
         \/ \E old \in SUBSET PastRuns : ListCandidates(old)
  PROVE  BackedInv'
<1>1. proposal' = proposal /\ approvals' = approvals /\ anchors' = anchors /\ metrics \subseteq metrics'
  BY DEF ReadDraft, RecordMetric, ApprovalExpires, ListCandidates, Runs0
<1>2. metrics' \subseteq anchors'
  BY DEF BackedInv, ReadDraft, RecordMetric, ApprovalExpires, ListCandidates, Runs0
<1>3. ProposalsTypeOK'
  BY DEF BackedInv, ProposalsTypeOK, ReadDraft, RecordMetric, ApprovalExpires, ListCandidates, Runs0
<1>4. ASSUME NEW p \in Proposals PROVE Backed(proposal[p], p)'
  BY <1>1 DEF BackedInv, Backed
<1>. QED  BY <1>2, <1>3, <1>4 DEF BackedInv

\* The invariant holds initially and is kept by every step.
LEMMA BackedInductive ==
  /\ ProposalsInit => BackedInv
  /\ BackedInv /\ [ProposalsNext]_propVars => BackedInv'
<1>1. ASSUME ProposalsInit PROVE BackedInv
  <2>1. ProposalsTypeOK
    BY <1>1 DEF ProposalsInit, ProposalsTypeOK, NoProposal
  <2>2. \A p \in Proposals : proposal[p].status = "none" /\ proposal[p].cites = {}
    BY <1>1 DEF ProposalsInit, NoProposal
  <2>. QED  BY <1>1, <2>1, <2>2 DEF BackedInv, Backed, ProposalsInit
<1>2. ASSUME BackedInv, [ProposalsNext]_propVars PROVE BackedInv'
  <2>1. CASE UNCHANGED propVars
    BY <1>2, <2>1 DEF propVars, BackedInv, ProposalsTypeOK, Backed
  <2>2. CASE \E p, q \in Proposals :
               CreateProposal(p) \/ SubmitRead(p) \/ RejectProposal(p) \/ SupersedeProposal(p, q)
    BY <1>2, <2>2, MoveInv
  <2>3. CASE \E p \in Proposals, r \in PastRuns : ApproveProposal(p, r) \/ AssociateMetric(p, r)
    BY <1>2, <2>3, ApproveInv, AssociateInv
  <2>. QED  BY <1>2, <2>1, <2>2, <2>3, DeleteInv, AroundInv DEF ProposalsNext
<1>. QED  BY <1>1, <1>2

\* Every variable keeps its type.
THEOREM ProposalsTyped == ProposalsSpec => []ProposalsTypeOK
<1>1. BackedInv => ProposalsTypeOK
  BY DEF BackedInv
<1>. QED  BY <1>1, BackedInductive, PTL DEF ProposalsSpec

\* What a proposal cites outlives the collection of the runs it comes from.
THEOREM ProposalsAreBacked == ProposalsSpec => []ProposalIsBacked
<1>1. BackedInv => ProposalIsBacked
  BY DEF BackedInv, Backed, ProposalIsBacked
<1>. QED  BY <1>1, BackedInductive, PTL DEF ProposalsSpec

\* A decided proposal keeps its decision, whatever read it before.
THEOREM DecisionsAreFinal == ProposalsSpec => DecisionIsFinal
<1>. DEFINE Final(p) == proposal[p].status \in Decided =>
              /\ proposal'[p].status = proposal[p].status
              /\ proposal'[p].approval = proposal[p].approval
<1>1. ASSUME BackedInv, [ProposalsNext]_propVars PROVE [\A p \in Proposals : Final(p)]_propVars
  <2>1. SUFFICES ASSUME ProposalsNext, NEW p \in Proposals PROVE Final(p)
    BY <1>1
  <2>2. proposal \in [Proposals -> Proposal]
    BY <1>1, TypeParts DEF BackedInv
  <2>3. ASSUME NEW q \in Proposals, CreateProposal(q) \/ SubmitRead(q) \/ RejectProposal(q)
        PROVE  Final(p)
    BY <2>2, <2>3 DEF CreateProposal, SubmitRead, RejectProposal, Proposal, Decided
  <2>4. ASSUME NEW q \in Proposals, NEW by \in Proposals, SupersedeProposal(q, by)
        PROVE  Final(p)
    BY <2>2, <2>4 DEF SupersedeProposal, Proposal, Decided
  <2>5. ASSUME NEW q \in Proposals, NEW r \in PastRuns, ApproveProposal(q, r) \/ AssociateMetric(q, r)
        PROVE  Final(p)
    BY <2>2, <2>5 DEF ApproveProposal, AssociateMetric, Proposal, Decided
  <2>6. ASSUME UNCHANGED proposal PROVE Final(p)
    BY <2>6
  <2>7. CASE \/ \E q \in Proposals : ReadDraft(q)
             \/ \E r \in PastRuns : RecordMetric(r) \/ ApprovalExpires(r)
             \/ \E old \in SUBSET PastRuns : ListCandidates(old)
             \/ DeleteCandidates
    BY <2>6, <2>7 DEF ReadDraft, RecordMetric, ApprovalExpires, ListCandidates, DeleteCandidates
  <2>. QED  BY <2>1, <2>3, <2>4, <2>5, <2>7 DEF ProposalsNext
<1>2. ProposalsSpec => []BackedInv
  BY BackedInductive, PTL DEF ProposalsSpec
<1>. QED  BY <1>1, <1>2, PTL DEF ProposalsSpec, DecisionIsFinal

-----------------------------------------------------------------------------
(***************************************************************************)
(* Deliveries.  A delivery that is turned away as a replay has been handled: *)
(* proved for any number of deliveries, handlers, retries and restarts.    *)
(***************************************************************************)
\* What a delivery that is turned away must have left behind.  It lasts: a
\* completed wait stays completed and a recorded event recorded.
Handled(d) == wait = "completed" /\ EventOf[d] \in consumed

\* A request that may still record its delivery has an answer that counts
\* only if the delivery was handled.
HandlerInv(h) ==
  /\ \A d, e \in handler[h].of : d = e
  /\ handler[h].pc \in {"unseen", "begun", "sending"} => handler[h].tries < MaxRetries
  /\ handler[h].pc = "done" => Accepted(handler[h].answer)
  /\ handler[h].pc \in {"returned", "done"} /\ Accepted(handler[h].answer) =>
       \A d \in handler[h].of : Handled(d)

DeliveryInv ==
  /\ DeliveryTypeOK
  /\ ReplayWasHandled
  /\ \A h \in Handlers : HandlerInv(h)

\* A request as the type invariant describes it.
Handler == [of : SUBSET Deliveries,
            pc : {"idle", "unseen", "begun", "sending", "returned", "done"},
            tries : 0 .. MaxRetries, answer : Codes \cup {"none", "error"}]

\* The type invariant, with the requests as records.
LEMMA HandlerTyped ==
  /\ DeliveryTypeOK => handler \in [Handlers -> Handler]
  /\ NoHandler \in Handler
  BY DeliveryAssumption DEF DeliveryTypeOK, Handler, NoHandler

\* Steps that only add to what is handled, and change one request.
LEMMA OneHandler ==
  ASSUME DeliveryInv, NEW h \in Handlers, NEW x \in Handler,
         handler' = [handler EXCEPT ![h] = x],
         wait = "completed" => wait' = "completed",
         consumed \subseteq consumed',
         \A d, e \in x.of : d = e,
         x.pc \in {"unseen", "begun", "sending"} => x.tries < MaxRetries,
         x.pc = "done" => Accepted(x.answer),
         x.pc \in {"returned", "done"} /\ Accepted(x.answer) => \A d \in x.of : Handled(d)'
  PROVE  (\A k \in Handlers : HandlerInv(k)') /\ handler' \in [Handlers -> Handler]
<1>1. handler \in [Handlers -> Handler]
  BY HandlerTyped DEF DeliveryInv
<1>2. \A d : Handled(d) => Handled(d)'
  BY DEF Handled
<1>3. SUFFICES ASSUME NEW k \in Handlers PROVE HandlerInv(k)'
  BY <1>1
<1>4. CASE k = h
  <2>1. handler'[k] = x
    BY <1>1, <1>4
  <2>. QED  BY <2>1 DEF HandlerInv, Accepted
<1>5. CASE k # h
  <2>1. handler'[k] = handler[k]
    BY <1>1, <1>5
  <2>2. HandlerInv(k)
    BY DEF DeliveryInv
  <2>. QED  BY <1>2, <2>1, <2>2 DEF HandlerInv, Accepted
<1>. QED  BY <1>4, <1>5

\* The type of a request, read field by field.
LEMMA HandlerIsTyped ==
  ASSUME handler' \in [Handlers -> Handler],
         wait' \in {"pending", "orphaned", "completed", "expired", "cancelled"},
         consumed' \subseteq {EventOf[d] : d \in Deliveries},
         inFlight' \subseteq Deliveries, completed' \subseteq Deliveries, seen' \subseteq Deliveries,
         restarts' \in 0 .. MaxRestarts
  PROVE  DeliveryTypeOK'
  BY DEF DeliveryTypeOK, Handler

\* A delivery arrives.
LEMMA ReceiveInv ==
  ASSUME DeliveryInv, NEW h \in Handlers, NEW d \in Deliveries, Receive(h, d)
  PROVE  DeliveryInv'
<1>1. PICK x \in Handler :
        /\ x.pc = "unseen" /\ x.tries = 0 /\ x.of = {d}
        /\ handler' = [handler EXCEPT ![h] = x]
  <2>. DEFINE y == [of |-> {d}, pc |-> "unseen", tries |-> 0, answer |-> "none"]
  <2>1. y \in Handler /\ y.pc = "unseen" /\ y.tries = 0 /\ y.of = {d}
    BY DeliveryAssumption DEF Handler
  <2>. QED  BY <2>1 DEF Receive
<1>2. (\A k \in Handlers : HandlerInv(k)') /\ handler' \in [Handlers -> Handler]
  <2>1. x.tries < MaxRetries /\ \A e, f \in x.of : e = f
    BY <1>1, DeliveryAssumption
  <2>2. wait' = wait /\ consumed' = consumed
    BY DEF Receive, Tables
  <2>. QED  BY <1>1, <2>1, <2>2, OneHandler
<1>3. DeliveryTypeOK'
  BY <1>2, HandlerIsTyped DEF DeliveryInv, DeliveryTypeOK, Receive, Tables
<1>4. ReplayWasHandled'
  BY DEF DeliveryInv, ReplayWasHandled, Receive, Tables
<1>. QED  BY <1>2, <1>3, <1>4 DEF DeliveryInv

\* The tracker lets it through or turns it away.
LEMMA BeginInv ==
  ASSUME DeliveryInv, NEW h \in Handlers, Begin(h)
  PROVE  DeliveryInv'
<1>1. handler[h] \in Handler
  BY HandlerTyped DEF DeliveryInv
<1>2. PICK x \in Handler :
        handler' = [handler EXCEPT ![h] = x] /\ x.of \subseteq handler[h].of
        /\ (x.pc = "idle" \/ (x.pc = "begun" /\ x.tries < MaxRetries))
  <2>1. [handler[h] EXCEPT !.pc = "begun"] \in Handler
    BY <1>1 DEF Handler
  <2>2. handler' = [handler EXCEPT ![h] = NoHandler]
        \/ handler' = [handler EXCEPT ![h] = [handler[h] EXCEPT !.pc = "begun"]]
    BY <1>1 DEF Begin
  <2>3. NoHandler.pc = "idle" /\ [handler[h] EXCEPT !.pc = "begun"].pc = "begun"
        /\ [handler[h] EXCEPT !.pc = "begun"].tries = handler[h].tries
        /\ [handler[h] EXCEPT !.pc = "begun"].of = handler[h].of /\ NoHandler.of = {}
    BY <1>1 DEF NoHandler, Handler
  <2>4. handler[h].tries < MaxRetries
    BY DEF DeliveryInv, HandlerInv, Begin
  <2>. QED  BY <2>1, <2>2, <2>3, <2>4, HandlerTyped
<1>3. (\A k \in Handlers : HandlerInv(k)') /\ handler' \in [Handlers -> Handler]
  <2>1. \A d, e \in x.of : d = e
    BY <1>2 DEF DeliveryInv, HandlerInv
  <2>. QED  BY <1>2, <2>1, OneHandler DEF Begin, Tables
<1>4. inFlight' \subseteq Deliveries
  BY <1>1 DEF DeliveryInv, DeliveryTypeOK, Begin, Handler
<1>5. DeliveryTypeOK'
  BY <1>3, <1>4, HandlerIsTyped DEF DeliveryInv, DeliveryTypeOK, Begin, Tables
<1>6. ReplayWasHandled'
  BY DEF DeliveryInv, ReplayWasHandled, Begin, Tables
<1>. QED  BY <1>3, <1>5, <1>6 DEF DeliveryInv

\* The event is normalised, or the delivery is an error.
LEMMA NormalizeInv ==
  ASSUME DeliveryInv, NEW h \in Handlers, Normalize(h)
  PROVE  DeliveryInv'
<1>1. handler[h] \in Handler
  BY HandlerTyped DEF DeliveryInv
<1>2. PICK x \in Handler :
        /\ handler' = [handler EXCEPT ![h] = x] /\ x.of = handler[h].of
        /\ \/ x.pc = "sending" /\ x.tries = handler[h].tries
           \/ x.pc = "returned" /\ x.answer = "error"
  <2>1. CASE handler' = [handler EXCEPT ![h].pc = "sending"]
    <3>. DEFINE y == [handler[h] EXCEPT !.pc = "sending"]
    <3>1. y \in Handler /\ y.of = handler[h].of /\ y.pc = "sending" /\ y.tries = handler[h].tries
      BY <1>1 DEF Handler
    <3>2. handler' = [handler EXCEPT ![h] = y]
      BY <2>1
    <3>. QED  BY <3>1, <3>2
  <2>2. CASE handler' = [handler EXCEPT ![h].pc = "returned", ![h].answer = "error"]
    <3>. DEFINE y == [handler[h] EXCEPT !.pc = "returned", !.answer = "error"]
    <3>1. y \in Handler /\ y.of = handler[h].of /\ y.pc = "returned" /\ y.answer = "error"
      BY <1>1 DEF Handler
    <3>2. handler' = [handler EXCEPT ![h] = y]
      BY <2>2, HandlerTyped DEF DeliveryInv
    <3>. QED  BY <3>1, <3>2
  <2>. QED  BY <2>1, <2>2 DEF Normalize
<1>3. (\A k \in Handlers : HandlerInv(k)') /\ handler' \in [Handlers -> Handler]
  <2>1. ~Accepted("error")
    BY DEF Accepted
  <2>2. x.tries < MaxRetries \/ x.pc = "returned"
    BY <1>2 DEF DeliveryInv, HandlerInv, Normalize
  <2>3. \A d, e \in x.of : d = e
    BY <1>2 DEF DeliveryInv, HandlerInv
  <2>. QED  BY <1>2, <2>1, <2>2, <2>3, OneHandler DEF Normalize, Tables
<1>4. DeliveryTypeOK'
  BY <1>3, HandlerIsTyped DEF DeliveryInv, DeliveryTypeOK, Normalize, Tables
<1>5. ReplayWasHandled'
  BY DEF DeliveryInv, ReplayWasHandled, Normalize, Tables
<1>. QED  BY <1>3, <1>4, <1>5 DEF DeliveryInv

\* An attempt comes back to its request.
LEMMA AttemptReturns ==
  ASSUME DeliveryInv, NEW h \in Handlers, NEW answer \in Codes \cup {"error"},
         handler[h].pc = "sending", Attempted(h, answer),
         wait = "completed" => wait' = "completed",
         consumed \subseteq consumed',
         Accepted(answer) => \A d \in handler[h].of : Handled(d)'
  PROVE  (\A k \in Handlers : HandlerInv(k)') /\ handler' \in [Handlers -> Handler]
<1>1. handler \in [Handlers -> Handler] /\ handler[h].tries < MaxRetries
  BY HandlerTyped DEF DeliveryInv, HandlerInv
<1>2. PICK tries \in 0 .. MaxRetries : tries = handler[h].tries + 1
  BY <1>1, DeliveryAssumption DEF Handler
<1>3. PICK to \in {"sending", "returned"} :
        /\ to = "sending" => tries < MaxRetries
        /\ handler' = [handler EXCEPT ![h].tries = tries, ![h].answer = answer, ![h].pc = to]
  BY <1>2 DEF Attempted
<1>4. PICK x \in Handler :
        /\ handler' = [handler EXCEPT ![h] = x]
        /\ x.of = handler[h].of /\ x.pc = to /\ x.tries = tries /\ x.answer = answer
  <2>. DEFINE y == [handler[h] EXCEPT !.tries = tries, !.answer = answer, !.pc = to]
  <2>1. y \in Handler /\ y.of = handler[h].of /\ y.pc = to /\ y.tries = tries /\ y.answer = answer
    BY <1>1 DEF Handler
  <2>2. handler' = [handler EXCEPT ![h] = y]
    BY <1>1, <1>3
  <2>. QED  BY <2>1, <2>2
<1>5. x.pc = "sending" => x.tries < MaxRetries
  BY <1>3, <1>4
<1>6. \A d, e \in x.of : d = e
  BY <1>4 DEF DeliveryInv, HandlerInv
<1>. QED  BY <1>3, <1>4, <1>5, <1>6, OneHandler

\* The endpoint's transaction: what it records lasts, and an answer that
\* counts says that the event is recorded and the wait completed.
LEMMA CompletionRecords ==
  ASSUME DeliveryInv, NEW d \in Deliveries, NEW matches, NEW code \in Codes,
         Completion(EventOf[d], matches, code)
  PROVE  /\ wait = "completed" => wait' = "completed"
         /\ wait' \in {"pending", "orphaned", "completed", "expired", "cancelled"}
         /\ consumed \subseteq consumed'
         /\ consumed' \subseteq {EventOf[e] : e \in Deliveries}
         /\ Accepted(code) => Handled(d)'
  BY DEF DeliveryInv, DeliveryTypeOK, Completion, Accepted, Handled, Codes

\* An attempt is answered, or its answer is lost.
LEMMA CompleteInv ==
  ASSUME DeliveryInv, NEW h \in Handlers, Complete(h)
  PROVE  DeliveryInv'
<1>1. handler[h] \in Handler
  BY HandlerTyped DEF DeliveryInv
<1>2. PICK d \in handler[h].of, code \in Codes, answer \in Codes \cup {"error"} :
        /\ Completion(EventOf[d], d \in Matching, code)
        /\ answer \in {code, "error"}
        /\ Attempted(h, answer)
  BY DEF Complete
<1>3. d \in Deliveries
  BY <1>1 DEF Handler
<1>4. Accepted(answer) => \A e \in handler[h].of : Handled(e)'
  <2>1. \A e \in handler[h].of : e = d
    BY DEF DeliveryInv, HandlerInv
  <2>. QED  BY <1>2, <1>3, <2>1, CompletionRecords DEF Accepted
<1>5. (\A k \in Handlers : HandlerInv(k)') /\ handler' \in [Handlers -> Handler]
  BY <1>2, <1>3, <1>4, CompletionRecords, AttemptReturns DEF Complete
<1>6. DeliveryTypeOK'
  BY <1>2, <1>3, <1>5, CompletionRecords, HandlerIsTyped DEF DeliveryInv, DeliveryTypeOK, Complete
<1>7. ReplayWasHandled'
  BY <1>2, <1>3, CompletionRecords DEF DeliveryInv, ReplayWasHandled, Complete
<1>. QED  BY <1>5, <1>6, <1>7 DEF DeliveryInv

\* An attempt fails before the endpoint's transaction.
LEMMA FailAttemptInv ==
  ASSUME DeliveryInv, NEW h \in Handlers, FailAttempt(h)
  PROVE  DeliveryInv'
<1>1. ~Accepted("error")
  BY DEF Accepted
<1>2. (\A k \in Handlers : HandlerInv(k)') /\ handler' \in [Handlers -> Handler]
  BY <1>1, AttemptReturns DEF FailAttempt, Tables
<1>3. DeliveryTypeOK'
  BY <1>2, HandlerIsTyped DEF DeliveryInv, DeliveryTypeOK, FailAttempt, Tables
<1>4. ReplayWasHandled'
  BY DEF DeliveryInv, ReplayWasHandled, FailAttempt, Tables
<1>. QED  BY <1>2, <1>3, <1>4 DEF DeliveryInv

\* The tracker keeps a delivery whose answer counts: it was handled.
LEMMA AnsweredInv ==
  ASSUME DeliveryInv, NEW h \in Handlers, Done(h)
  PROVE  DeliveryInv'
<1>1. handler[h] \in Handler /\ HandlerInv(h)
  BY HandlerTyped DEF DeliveryInv
<1>2. PICK x \in Handler :
        /\ handler' = [handler EXCEPT ![h] = x]
        /\ x.of \subseteq handler[h].of
        /\ \/ x.pc = "idle"
           \/ x.pc = "done" /\ Accepted(x.answer) /\ x.answer = handler[h].answer
  <2>1. CASE Accepted(handler[h].answer)
    <3>. DEFINE y == [handler[h] EXCEPT !.pc = "done"]
    <3>1. y \in Handler /\ y.of = handler[h].of /\ y.pc = "done" /\ y.answer = handler[h].answer
      BY <1>1 DEF Handler
    <3>2. handler' = [handler EXCEPT ![h] = y]
      BY <2>1, HandlerTyped DEF Done, DeliveryInv
    <3>. QED  BY <2>1, <3>1, <3>2
  <2>2. CASE ~Accepted(handler[h].answer)
    <3>1. handler' = [handler EXCEPT ![h] = NoHandler]
      BY <2>2, HandlerTyped DEF Done, DeliveryInv
    <3>2. NoHandler.of = {} /\ NoHandler.pc = "idle"
      BY DEF NoHandler
    <3>. QED  BY <3>1, <3>2, HandlerTyped
  <2>. QED  BY <2>1, <2>2
<1>3. Accepted(handler[h].answer) => \A d \in handler[h].of : Handled(d)
  BY <1>1 DEF HandlerInv, Done
<1>4. (\A k \in Handlers : HandlerInv(k)') /\ handler' \in [Handlers -> Handler]
  <2>1. \A d, e \in x.of : d = e
    BY <1>1, <1>2 DEF HandlerInv
  <2>2. \A d : Handled(d) => Handled(d)'
    BY DEF Handled, Done, Tables
  <2>3. x.pc \in {"returned", "done"} /\ Accepted(x.answer) => \A d \in x.of : Handled(d)'
    BY <1>2, <1>3, <2>2
  <2>. QED  BY <1>2, <2>1, <2>3, OneHandler DEF Done, Tables
<1>5. completed' \subseteq Deliveries /\ inFlight' \subseteq Deliveries
  BY <1>1 DEF DeliveryInv, DeliveryTypeOK, Done, Handler
<1>6. DeliveryTypeOK'
  BY <1>4, <1>5, HandlerIsTyped DEF DeliveryInv, DeliveryTypeOK, Done, Tables
<1>7. ReplayWasHandled'
  BY <1>3 DEF DeliveryInv, ReplayWasHandled, Handled, Done, Tables
<1>. QED  BY <1>4, <1>6, <1>7 DEF DeliveryInv

\* So does the store.
LEMMA RecordInv ==
  ASSUME DeliveryInv, NEW h \in Handlers, Record(h)
  PROVE  DeliveryInv'
<1>1. handler[h] \in Handler /\ HandlerInv(h)
  BY HandlerTyped DEF DeliveryInv
<1>2. (\A k \in Handlers : HandlerInv(k)') /\ handler' \in [Handlers -> Handler]
  <2>1. /\ NoHandler \in Handler /\ NoHandler.pc = "idle"
        /\ \A d, e \in NoHandler.of : d = e
    BY HandlerTyped DEF NoHandler
  <2>. QED  BY <2>1, OneHandler DEF Record
<1>3. \A d \in handler[h].of : Handled(d)
  BY <1>1 DEF HandlerInv, Record
<1>4. seen' \subseteq Deliveries
  BY <1>1 DEF DeliveryInv, DeliveryTypeOK, Record, Handler
<1>5. DeliveryTypeOK'
  BY <1>2, <1>4, HandlerIsTyped DEF DeliveryInv, DeliveryTypeOK, Record
<1>6. ReplayWasHandled'
  BY <1>3 DEF DeliveryInv, ReplayWasHandled, Handled, Record
<1>. QED  BY <1>2, <1>5, <1>6 DEF DeliveryInv

\* The tracker forgets, the adapter restarts, the wait ends otherwise: nothing
\* that was handled is undone.
LEMMA OtherInv ==
  ASSUME DeliveryInv, RestartAdapter \/ EndWait \/ \E d \in Deliveries : Forget(d)
  PROVE  DeliveryInv'
<1>1. CASE RestartAdapter
  <2>1. handler' = [h \in Handlers |-> NoHandler]
    BY <1>1 DEF RestartAdapter
  <2>2. NoHandler.pc = "idle" /\ NoHandler.of = {} /\ NoHandler \in Handler
    BY HandlerTyped DEF NoHandler
  <2>3. handler' \in [Handlers -> Handler] /\ \A h \in Handlers : handler'[h] = NoHandler
    BY <2>1, <2>2
  <2>4. \A h \in Handlers : HandlerInv(h)'
    BY <2>2, <2>3 DEF HandlerInv
  <2>5. restarts' \in 0 .. MaxRestarts
    BY <1>1, DeliveryAssumption DEF DeliveryInv, DeliveryTypeOK, RestartAdapter
  <2>6. DeliveryTypeOK'
    BY <1>1, <2>3, <2>5, HandlerIsTyped DEF DeliveryInv, DeliveryTypeOK, RestartAdapter
  <2>7. ReplayWasHandled'
    BY <1>1 DEF DeliveryInv, ReplayWasHandled, RestartAdapter
  <2>. QED  BY <2>4, <2>6, <2>7 DEF DeliveryInv
<1>2. CASE EndWait
  <2>1. \A h \in Handlers : HandlerInv(h)'
    BY <1>2 DEF DeliveryInv, HandlerInv, Handled, Accepted, EndWait
  <2>2. DeliveryTypeOK' /\ ReplayWasHandled'
    BY <1>2 DEF DeliveryInv, DeliveryTypeOK, ReplayWasHandled, EndWait
  <2>. QED  BY <2>1, <2>2 DEF DeliveryInv
<1>3. CASE \E d \in Deliveries : Forget(d)
  <2>1. \A h \in Handlers : HandlerInv(h)'
    BY <1>3 DEF DeliveryInv, HandlerInv, Handled, Accepted, Forget
  <2>2. DeliveryTypeOK' /\ ReplayWasHandled'
    BY <1>3 DEF DeliveryInv, DeliveryTypeOK, ReplayWasHandled, Forget
  <2>. QED  BY <2>1, <2>2 DEF DeliveryInv
<1>. QED  BY <1>1, <1>2, <1>3

\* The invariant holds initially and is kept by every step.
LEMMA DeliveryInductive ==
  /\ DeliveryInit => DeliveryInv
  /\ DeliveryInv /\ [DeliveryNext]_delVars => DeliveryInv'
<1>1. ASSUME DeliveryInit PROVE DeliveryInv
  <2>1. DeliveryTypeOK
    BY <1>1, DeliveryAssumption DEF DeliveryInit, DeliveryTypeOK, NoHandler
  <2>2. \A h \in Handlers : handler[h].pc = "idle" /\ handler[h].of = {}
    BY <1>1 DEF DeliveryInit, NoHandler
  <2>. QED  BY <1>1, <2>1, <2>2 DEF DeliveryInit, DeliveryInv, HandlerInv, ReplayWasHandled
<1>2. ASSUME DeliveryInv, [DeliveryNext]_delVars PROVE DeliveryInv'
  <2>1. CASE UNCHANGED delVars
    BY <1>2, <2>1 DEF delVars, DeliveryInv, DeliveryTypeOK, ReplayWasHandled, HandlerInv,
                      Handled, Accepted
  <2>2. CASE \E h \in Handlers, d \in Deliveries : Receive(h, d)
    BY <1>2, <2>2, ReceiveInv
  <2>3. ASSUME NEW h \in Handlers,
               \/ Begin(h) \/ Normalize(h) \/ Complete(h)
               \/ FailAttempt(h) \/ Done(h) \/ Record(h)
        PROVE  DeliveryInv'
    BY <1>2, <2>3, BeginInv, NormalizeInv, CompleteInv, FailAttemptInv, AnsweredInv, RecordInv
  <2>. QED  BY <1>2, <2>1, <2>2, <2>3, OtherInv DEF DeliveryNext
<1>. QED  BY <1>1, <1>2

\* Every variable of the delivery path keeps its type.
THEOREM DeliveryTyped == DeliverySpec => []DeliveryTypeOK
<1>1. DeliveryInv => DeliveryTypeOK
  BY DEF DeliveryInv
<1>. QED  BY <1>1, DeliveryInductive, PTL DEF DeliverySpec

\* A delivery is turned away as a replay only if its event is recorded and the
\* wait completed, whatever attempts fail, answers are lost, the tracker
\* forgets or the adapter restarts.
THEOREM ReplaysAreHandled == DeliverySpec => []ReplayWasHandled
<1>1. DeliveryInv => ReplayWasHandled
  BY DEF DeliveryInv
<1>. QED  BY <1>1, DeliveryInductive, PTL DEF DeliverySpec

-----------------------------------------------------------------------------
(***************************************************************************)
(* The HTTP executor.  Receipts are true and nothing guarded is repeated:  *)
(* proved for any numbers of attempts, effects and crashes.                *)
(***************************************************************************)
Effect == [attempt : Nat, status : EffectStatus, redirected : BOOLEAN]

Rows == 1 .. Len(effects)

\* The type invariant without the bounds that only keep TLC's runs finite.
Typed ==
  /\ contract \in {"pure", "idempotent", "reconcilable", "non_replayable"}
  /\ attempt \in Nat
  /\ effects \in Seq(Effect)
  /\ performed \subseteq Rows /\ wire \subseteq Rows

Guarded == {"reconcilable", "non_replayable"}

\* An effect that does not stand in the way of another request: known not to
\* have happened or, where the target can be asked, known either way.
Settled(i) ==
  effects[i].status \in IF contract = "non_replayable" THEN {"rejected"}
                        ELSE {"rejected", "confirmed"}

\* The node may be claimed, or what Execute does next leads there.
MayRepeat ==
  \/ node = "eligible"
  \/ pc = "claimed"
  \/ pc = "receipted" /\ result = "refused"
  \/ pc \in {"returned", "late"} /\ result = "failure"

\* A guarded node sends a request only when all earlier effects are settled,
\* and the effect that is not belongs to the attempt recovery will look at.
SettledInv ==
  contract \in Guarded =>
    /\ \A i \in Rows : i # Current => Settled(i)
    /\ MayRepeat => \A i \in Rows : Settled(i)
    /\ \A i \in Rows : ~Settled(i) => effects[i].attempt = attempt

\* Where Execute and reconcileNode are.
PlaceInv ==
  /\ node = "eligible" => pc = "idle"
  /\ pc \in {"intended", "sent", "redirected", "answered", "receipted"} =>
       Current \in Rows /\ effects[Current].attempt = attempt
  /\ pc \in {"reconciling", "confirmed", "absent"} => contract = "reconcilable"
  /\ pc = "confirmed" => performed # {}
  /\ pc = "intended" => effects[Current].status = "pending" /\ Current \notin performed \cup wire
  /\ pc = "redirected" => AlreadyPerformed(Current) /\ effects[Current].redirected
  /\ pc = "receipted" => result \in {"ok", "refused"}
  /\ pc = "answered" /\ result = "ok" => AlreadyPerformed(Current)
  /\ pc = "answered" /\ result \in {"refused", "failure"} =>
       effects[Current].redirected \/ Current \notin performed \cup wire

\* A receipt says what happened, and will not be overtaken by its request.
ReceiptInv(i) ==
  /\ effects[i].status = "confirmed" =>
       IF contract = "reconcilable" THEN performed # {} ELSE AlreadyPerformed(i)
  /\ effects[i].status = "rejected" /\ contract # "reconcilable" =>
       effects[i].redirected \/ i \notin performed \cup wire

\* One request at most is performed or can be, where that matters.
OnceInv ==
  /\ contract = "idempotent" => \A i, j \in performed : i = j
  /\ contract = "non_replayable" /\ ~Redirected =>
       \A i \in performed \cup wire : i = Current

HttpInv ==
  /\ Typed
  /\ SettledInv
  /\ PlaceInv
  /\ \A i \in Rows : ReceiptInv(i)
  /\ OnceInv

-----------------------------------------------------------------------------
(***************************************************************************)
(* The effect rows after an update.                                        *)
(***************************************************************************)
\* One row changes.
LEMMA ChangedRow ==
  ASSUME Typed, NEW k \in Rows, NEW x \in Effect, effects' = [effects EXCEPT ![k] = x]
  PROVE  /\ effects' \in Seq(Effect) /\ Len(effects') = Len(effects)
         /\ \A i \in Rows : effects'[i] = IF i = k THEN x ELSE effects[i]
<1>1. effects \in Seq(Effect)
  BY DEF Typed
<1>. QED  BY <1>1, ExceptSeq DEF Rows

\* A row is added.
LEMMA NewEffectRow ==
  ASSUME Typed, NEW x \in Effect, effects' = Append(effects, x)
  PROVE  /\ effects' \in Seq(Effect) /\ Len(effects') = Len(effects) + 1
         /\ \A i \in Rows : effects'[i] = effects[i]
         /\ effects'[Len(effects) + 1] = x
         /\ Rows' = Rows \cup {Len(effects) + 1} /\ Len(effects) + 1 \notin Rows
<1>1. effects \in Seq(Effect) /\ Len(effects) \in Nat
  BY DEF Typed
<1>. QED  BY <1>1, AppendProperties DEF Rows

\* The status of the last row changes.
LEMMA StatusChanged ==
  ASSUME Typed, Current \in Rows, NEW s \in EffectStatus,
         effects' = [effects EXCEPT ![Current].status = s]
  PROVE  /\ effects' \in Seq(Effect) /\ Len(effects') = Len(effects)
         /\ \A i \in Rows :
              /\ effects'[i].status = IF i = Current THEN s ELSE effects[i].status
              /\ effects'[i].attempt = effects[i].attempt
              /\ effects'[i].redirected = effects[i].redirected
<1>1. effects \in Seq(Effect) /\ effects[Current] \in Effect
  BY DEF Typed, Rows
<1>2. PICK x \in Effect :
        /\ x.status = s /\ x.attempt = effects[Current].attempt
        /\ x.redirected = effects[Current].redirected
        /\ effects' = [effects EXCEPT ![Current] = x]
  <2>. DEFINE y == [effects[Current] EXCEPT !.status = s]
  <2>1. /\ y \in Effect /\ y.status = s /\ y.attempt = effects[Current].attempt
        /\ y.redirected = effects[Current].redirected
    BY <1>1 DEF Effect
  <2>2. effects' = [effects EXCEPT ![Current] = y]
    OBVIOUS
  <2>. QED  BY <2>1, <2>2
<1>3. /\ effects' \in Seq(Effect) /\ Len(effects') = Len(effects)
      /\ \A i \in Rows : effects'[i] = IF i = Current THEN x ELSE effects[i]
  BY <1>2, ChangedRow
<1>. QED  BY <1>2, <1>3

\* Keys depend on the contract, and what was performed stays performed.
LEMMA PerformedStays ==
  ASSUME contract' = contract, performed \subseteq performed', NEW i, AlreadyPerformed(i)
  PROVE  AlreadyPerformed(i)'
  BY DEF AlreadyPerformed, OperationHeader

-----------------------------------------------------------------------------
(***************************************************************************)
(* Steps by what they touch.                                               *)
(***************************************************************************)
\* Nothing of the effects changes.
LEMMA HttpQuietInv ==
  ASSUME HttpInv, UNCHANGED <<contract, effects, performed, wire>>, attempt' \in Nat,
         contract \in Guarded /\ (MayRepeat' \/ attempt' # attempt) => \A i \in Rows : Settled(i),
         PlaceInv'
  PROVE  HttpInv'
<1>1. Typed'
  BY DEF HttpInv, Typed, Rows
<1>2. SettledInv'
  BY DEF HttpInv, SettledInv, Settled, Rows, Current
<1>3. \A i \in Rows' : ReceiptInv(i)'
  BY DEF HttpInv, ReceiptInv, Rows, AlreadyPerformed, OperationHeader
<1>4. OnceInv'
  BY DEF HttpInv, OnceInv, Redirected, Current
<1>. QED  BY <1>1, <1>2, <1>3, <1>4 DEF HttpInv

\* The places in which nothing is known about the current effect.
LEMMA PlainPlace ==
  ASSUME pc' \in {"idle", "claimed", "returned", "late", "marked"},
         node' = "eligible" => pc' = "idle"
  PROVE  PlaceInv'
  BY DEF PlaceInv

\* The status of effects changes, and nothing about requests.
LEMMA EffectInv ==
  ASSUME HttpInv, UNCHANGED <<contract, performed, wire>>, attempt' \in Nat,
         effects' \in Seq(Effect), Len(effects') = Len(effects),
         \A i \in Rows : /\ effects'[i].attempt = effects[i].attempt
                         /\ effects'[i].redirected = effects[i].redirected,
         contract \in Guarded =>
           \A i \in Rows : /\ i # Current => Settled(i)'
                           /\ MayRepeat' => Settled(i)'
                           /\ ~Settled(i)' => effects[i].attempt = attempt',
         \A i \in Rows : ReceiptInv(i)',
         PlaceInv'
  PROVE  HttpInv'
<1>1. Rows' = Rows /\ Current' = Current
  BY DEF Rows, Current
<1>2. Typed'
  BY <1>1 DEF HttpInv, Typed
<1>3. SettledInv'
  BY <1>1 DEF SettledInv
<1>4. OnceInv'
  <2>1. Redirected' <=> Redirected
    BY <1>1 DEF Redirected, Rows
  <2>. QED  BY <1>1, <2>1 DEF HttpInv, OnceInv
<1>. QED  BY <1>1, <1>2, <1>3, <1>4 DEF HttpInv

\* Requests are served or refused; effects keep their status.
LEMMA RemoteInv ==
  ASSUME HttpInv, UNCHANGED <<contract, node, attempt>>,
         effects' \in Seq(Effect), Len(effects') = Len(effects),
         \A i \in Rows : /\ effects'[i].attempt = effects[i].attempt
                         /\ effects'[i].status = effects[i].status
                         /\ effects[i].redirected => effects'[i].redirected,
         performed \subseteq performed',
         performed' \cup wire' \subseteq performed \cup wire,
         contract = "idempotent" => \A i, j \in performed' : i = j,
         MayRepeat' => MayRepeat,
         PlaceInv'
  PROVE  HttpInv'
<1>1. Rows' = Rows /\ Current' = Current
  BY DEF Rows, Current
<1>2. Typed'
  BY <1>1 DEF HttpInv, Typed
<1>3. SettledInv'
  BY <1>1 DEF HttpInv, SettledInv, Settled
<1>4. ASSUME NEW i \in Rows PROVE ReceiptInv(i)'
  <2>1. ReceiptInv(i)
    BY DEF HttpInv
  <2>2. AlreadyPerformed(i) => AlreadyPerformed(i)'
    BY PerformedStays
  <2>. QED  BY <2>1, <2>2 DEF ReceiptInv
<1>5. OnceInv'
  <2>1. Redirected => Redirected'
    BY <1>1 DEF Redirected, Rows
  <2>. QED  BY <1>1, <2>1 DEF HttpInv, OnceInv
<1>. QED  BY <1>1, <1>2, <1>3, <1>4, <1>5 DEF HttpInv

-----------------------------------------------------------------------------
(***************************************************************************)
(* Execute.                                                                *)
(***************************************************************************)
\* Facts about the control every step needs.
LEMMA Control ==
  ASSUME HttpInv
  PROVE  /\ pc # "idle" => node # "eligible"
         /\ attempt \in Nat /\ effects \in Seq(Effect)
         /\ contract \in Guarded /\ MayRepeat => \A i \in Rows : Settled(i)
  BY DEF HttpInv, PlaceInv, Typed, SettledInv

\* A claim, a refusal, and an answer that sends nothing.
LEMMA BeforeSendInv ==
  ASSUME HttpInv, ClaimHttp \/ RefuseRequest \/ PreSendError
  PROVE  HttpInv'
<1>1. UNCHANGED <<contract, effects, performed, wire, attempt>>
  BY DEF ClaimHttp, RefuseRequest, PreSendError, Rest
<1>2. MayRepeat' => MayRepeat
  BY Control DEF ClaimHttp, RefuseRequest, PreSendError, MayRepeat, Go, Yield, Classify, Finish
<1>3. PlaceInv'
  <2>1. CASE ClaimHttp \/ RefuseRequest
    <3>1. pc' \in {"idle", "claimed", "returned"} /\ node' # "eligible"
      BY <2>1, Control DEF ClaimHttp, RefuseRequest, Go, Yield, Finish
    <3>. QED  BY <3>1, PlainPlace
  <2>2. CASE PreSendError
    <3>1. pc = "intended" /\ pc' = "answered" /\ result' = "failure" /\ node' = node
      BY <2>2 DEF PreSendError, Classify
    <3>2. Current \in Rows /\ effects[Current].attempt = attempt /\ Current \notin performed \cup wire
      BY <3>1 DEF HttpInv, PlaceInv
    <3>. QED  BY <1>1, <3>1, <3>2, Control DEF PlaceInv, Current, Rows
  <2>. QED  BY <2>1, <2>2
<1>. QED  BY <1>1, <1>2, <1>3, Control, HttpQuietInv

\* The intent: everything before it is settled, nothing of it has been sent.
LEMMA IntentInv ==
  ASSUME HttpInv, RecordIntent
  PROVE  HttpInv'
<1>. DEFINE x == [attempt |-> attempt, status |-> "pending", redirected |-> FALSE]
<1>1. /\ pc = "claimed" /\ pc' = "intended" /\ result' = result
      /\ effects' = Append(effects, x)
      /\ UNCHANGED <<contract, node, attempt, performed, wire>>
  BY DEF RecordIntent, Go, Rest
<1>2. Typed /\ node # "eligible" /\ (contract \in Guarded => \A i \in Rows : Settled(i))
  BY <1>1, Control DEF HttpInv, MayRepeat
<1>3. x \in Effect /\ x.status = "pending" /\ x.attempt = attempt /\ x.redirected = FALSE
  BY <1>2 DEF Effect, EffectStatus, Typed
<1>. HIDE DEF x
<1>4. PICK n : n = Len(effects) + 1
  OBVIOUS
<1>5. /\ effects' \in Seq(Effect) /\ Len(effects') = n
      /\ \A i \in Rows : effects'[i] = effects[i]
      /\ effects'[n] = x
      /\ Rows' = Rows \cup {n} /\ n \notin Rows /\ Current' = n
  BY <1>1, <1>2, <1>3, <1>4, NewEffectRow DEF Current
<1>6. Typed'
  BY <1>1, <1>2, <1>5 DEF Typed
<1>7. SettledInv'
  <2>1. ASSUME contract \in Guarded, NEW i \in Rows PROVE Settled(i)'
    BY <1>1, <1>2, <1>5, <2>1 DEF Settled
  <2>2. ~MayRepeat'
    BY <1>1, <1>2 DEF MayRepeat
  <2>. QED  BY <1>1, <1>3, <1>5, <2>1, <2>2 DEF SettledInv
<1>8. PlaceInv'
  <2>1. n \notin performed \cup wire
    BY <1>2, <1>5 DEF Typed
  <2>. QED  BY <1>1, <1>2, <1>3, <1>5, <2>1 DEF PlaceInv
<1>9. ASSUME NEW i \in Rows' PROVE ReceiptInv(i)'
  <2>1. CASE i = n
    BY <1>3, <1>5, <2>1 DEF ReceiptInv
  <2>2. CASE i \in Rows
    <3>1. ReceiptInv(i) /\ effects'[i] = effects[i]
      BY <1>5, <2>2 DEF HttpInv
    <3>2. AlreadyPerformed(i) => AlreadyPerformed(i)'
      BY <1>1, PerformedStays
    <3>. QED  BY <1>1, <3>1, <3>2 DEF ReceiptInv
  <2>. QED  BY <1>5, <2>1, <2>2
<1>10. OnceInv'
  <2>1. ASSUME contract = "non_replayable", ~Redirected' PROVE performed \cup wire = {}
    <3>1. \A i \in Rows : ~effects[i].redirected
      BY <1>5, <2>1 DEF Redirected, Rows
    <3>2. \A i \in Rows : effects[i].status = "rejected"
      BY <1>2, <2>1 DEF Settled, Guarded
    <3>3. \A i \in Rows : i \notin performed \cup wire
      BY <2>1, <3>1, <3>2 DEF HttpInv, ReceiptInv
    <3>. QED  BY <1>2, <3>3 DEF Typed
  <2>. QED  BY <1>1, <2>1 DEF HttpInv, OnceInv
<1>. QED  BY <1>6, <1>7, <1>8, <1>9, <1>10 DEF HttpInv

\* The request goes out; its effect is pending.
LEMMA SendInv ==
  ASSUME HttpInv, Send
  PROVE  HttpInv'
<1>1. /\ pc = "intended" /\ pc' = "sent" /\ wire' = wire \cup {Current}
      /\ UNCHANGED <<contract, node, attempt, effects, performed, result>>
  BY DEF Send, Go, Rest
<1>2. /\ Current \in Rows /\ effects[Current].attempt = attempt
      /\ effects[Current].status = "pending" /\ node # "eligible"
  BY <1>1, Control DEF HttpInv, PlaceInv
<1>3. Rows' = Rows /\ Current' = Current
  BY <1>1 DEF Rows, Current
<1>4. Typed'
  BY <1>1, <1>2, <1>3 DEF HttpInv, Typed
<1>5. SettledInv'
  BY <1>1, <1>2, <1>3 DEF HttpInv, SettledInv, Settled, MayRepeat
<1>6. PlaceInv'
  BY <1>1, <1>2, <1>3 DEF PlaceInv
<1>7. ASSUME NEW i \in Rows PROVE ReceiptInv(i)'
  <2>1. ReceiptInv(i) /\ (AlreadyPerformed(i) => AlreadyPerformed(i)')
    BY <1>1, PerformedStays DEF HttpInv
  <2>. QED  BY <1>1, <1>2, <2>1 DEF ReceiptInv
<1>8. OnceInv'
  <2>1. Redirected' <=> Redirected
    BY <1>1 DEF Redirected
  <2>. QED  BY <1>1, <1>3, <2>1 DEF HttpInv, OnceInv
<1>. QED  BY <1>3, <1>4, <1>5, <1>6, <1>7, <1>8 DEF HttpInv

-----------------------------------------------------------------------------
(***************************************************************************)
(* The remote system.                                                      *)
(***************************************************************************)
\* Performing a request: one with the same key is performed once.
LEMMA PerformOnce ==
  ASSUME HttpInv, NEW i \in wire, Perform(i), contract' = contract
  PROVE  /\ performed \subseteq performed' /\ performed' \subseteq performed \cup {i}
         /\ contract = "idempotent" => \A j, k \in performed' : j = k
         /\ AlreadyPerformed(i)'
<1>1. CASE AlreadyPerformed(i)
  BY <1>1, PerformedStays DEF Perform, HttpInv, OnceInv
<1>2. CASE ~AlreadyPerformed(i)
  <2>1. performed' = performed \cup {i}
    BY <1>2 DEF Perform
  <2>2. contract = "idempotent" => performed = {}
    BY <1>2 DEF AlreadyPerformed, OperationHeader
  <2>3. AlreadyPerformed(i)'
    BY <2>1 DEF AlreadyPerformed
  <2>. QED  BY <2>1, <2>2, <2>3
<1>. QED  BY <1>1, <1>2

\* A request is performed, perhaps long after its client gave up.
LEMMA RemotePerformsInv ==
  ASSUME HttpInv, NEW i \in wire, RemotePerforms(i)
  PROVE  HttpInv'
<1>1. /\ wire' = wire \ {i} /\ Perform(i) /\ Answer(i, "answered", "ok")
      /\ UNCHANGED <<contract, node, attempt, effects>>
  BY DEF RemotePerforms, Rest
<1>2. /\ performed \subseteq performed' /\ performed' \subseteq performed \cup {i}
      /\ contract = "idempotent" => \A j, k \in performed' : j = k
      /\ AlreadyPerformed(i)'
  BY <1>1, PerformOnce
<1>3. Rows' = Rows /\ Current' = Current
  BY <1>1 DEF Rows, Current
<1>4. PlaceInv'
  <2>2. CASE Waiting(i)
    <3>1. pc' = "answered" /\ result' = "ok" /\ i = Current /\ pc = "sent"
      BY <1>1, <2>2 DEF Answer, Waiting
    <3>2. AlreadyPerformed(Current)'
      BY <1>2, <1>3, <3>1 DEF AlreadyPerformed, OperationHeader
    <3>. QED  BY <1>1, <1>3, <3>1, <3>2 DEF HttpInv, PlaceInv
  <2>3. CASE ~Waiting(i)
    <3>1. pc' = pc /\ result' = result
      BY <1>1, <2>3 DEF Answer
    <3>2. AlreadyPerformed(Current) => AlreadyPerformed(Current)'
      BY <1>1, <1>2, <1>3 DEF AlreadyPerformed, OperationHeader
    <3>3. performed' \cup wire' \subseteq performed \cup wire
      BY <1>1, <1>2
    <3>. QED  BY <1>1, <1>2, <1>3, <3>1, <3>2, <3>3 DEF HttpInv, PlaceInv
  <2>. QED  BY <2>2, <2>3
<1>5. MayRepeat' => MayRepeat
  BY <1>1 DEF MayRepeat, Answer
<1>. QED  BY <1>1, <1>2, <1>4, <1>5, Control, RemoteInv

\* It is refused: it was not performed.
LEMMA RemoteRefusesInv ==
  ASSUME HttpInv, NEW i \in wire, RemoteRefuses(i)
  PROVE  HttpInv'
<1>1. /\ wire' = wire \ {i} /\ Answer(i, "answered", "refused") /\ ~AlreadyPerformed(i)
      /\ UNCHANGED <<contract, node, attempt, effects, performed>>
  BY DEF RemoteRefuses, Rest
<1>2. Rows' = Rows /\ Current' = Current
  BY <1>1 DEF Rows, Current
<1>3. PlaceInv'
  <2>1. CASE Waiting(i)
    <3>1. pc' = "answered" /\ result' = "refused" /\ i = Current /\ pc = "sent"
      BY <1>1, <2>1 DEF Answer, Waiting
    <3>2. i \notin performed
      BY <1>1 DEF AlreadyPerformed
    <3>. QED  BY <1>1, <1>2, <3>1, <3>2 DEF HttpInv, PlaceInv
  <2>2. CASE ~Waiting(i)
    <3>1. pc' = pc /\ result' = result
      BY <1>1, <2>2 DEF Answer
    <3>2. AlreadyPerformed(Current) => AlreadyPerformed(Current)'
      BY <1>1, <1>2 DEF AlreadyPerformed, OperationHeader
    <3>. QED  BY <1>1, <1>2, <3>1, <3>2 DEF HttpInv, PlaceInv
  <2>. QED  BY <2>1, <2>2
<1>4. MayRepeat' => MayRepeat
  BY <1>1 DEF MayRepeat, Answer
<1>5. contract = "idempotent" => \A j, k \in performed : j = k
  BY DEF HttpInv, OnceInv
<1>. QED  BY <1>1, <1>3, <1>4, <1>5, Control, RemoteInv

\* It is performed and the client is sent elsewhere.
LEMMA RemoteRedirectsInv ==
  ASSUME HttpInv, NEW i \in wire, RemoteRedirects(i)
  PROVE  HttpInv'
<1>1. /\ wire' = wire \ {i} /\ Perform(i) /\ i = Current /\ pc = "sent"
      /\ effects' = [effects EXCEPT ![i].redirected = TRUE]
      /\ pc' = "redirected" /\ result' = result
      /\ UNCHANGED <<contract, node, attempt>>
  BY DEF RemoteRedirects, Waiting, Go, Rest
<1>2. /\ performed \subseteq performed' /\ performed' \subseteq performed \cup {i}
      /\ contract = "idempotent" => \A j, k \in performed' : j = k
      /\ AlreadyPerformed(i)'
  BY <1>1, PerformOnce
<1>3. Typed /\ i \in Rows /\ effects[i] \in Effect /\ effects[i].attempt = attempt
  BY <1>1 DEF HttpInv, PlaceInv, Typed, Rows
<1>4. PICK x \in Effect :
        /\ x.status = effects[i].status /\ x.attempt = effects[i].attempt /\ x.redirected
        /\ effects' = [effects EXCEPT ![i] = x]
  <2>. DEFINE y == [effects[i] EXCEPT !.redirected = TRUE]
  <2>1. y \in Effect /\ y.status = effects[i].status /\ y.attempt = effects[i].attempt
        /\ y.redirected
    BY <1>3 DEF Effect
  <2>2. effects' = [effects EXCEPT ![i] = y]
    BY <1>1
  <2>. QED  BY <2>1, <2>2
<1>5. /\ effects' \in Seq(Effect) /\ Len(effects') = Len(effects)
      /\ \A k \in Rows : effects'[k] = IF k = i THEN x ELSE effects[k]
  BY <1>3, <1>4, ChangedRow
<1>6. \A k \in Rows : /\ effects'[k].attempt = effects[k].attempt
                      /\ effects'[k].status = effects[k].status
                      /\ effects[k].redirected => effects'[k].redirected
  BY <1>4, <1>5
<1>7. PlaceInv'
  <2>1. Rows' = Rows /\ Current' = Current
    BY <1>5 DEF Rows, Current
  <2>2. effects'[Current].redirected /\ effects'[Current].attempt = attempt
    BY <1>1, <1>3, <1>4, <1>5
  <2>3. AlreadyPerformed(Current)'
    BY <1>1, <1>2, <2>1 DEF AlreadyPerformed, OperationHeader
  <2>4. node' # "eligible"
    BY <1>1, Control
  <2>. QED  BY <1>1, <1>3, <2>1, <2>2, <2>3, <2>4 DEF PlaceInv
<1>8. MayRepeat' => MayRepeat
  BY <1>1 DEF MayRepeat
<1>9. performed' \cup wire' \subseteq performed \cup wire
  BY <1>1, <1>2
<1>. QED  BY <1>1, <1>2, <1>5, <1>6, <1>7, <1>8, <1>9, RemoteInv

-----------------------------------------------------------------------------
(***************************************************************************)
(* The answer and its receipt.                                             *)
(***************************************************************************)
\* What dispatch makes of the request.
LEMMA ClassifyInv ==
  ASSUME HttpInv, FollowRedirect \/ GiveUp \/ TornBody
  PROVE  HttpInv'
<1>1. /\ pc \in {"sent", "redirected", "answered"} /\ pc' = "answered"
      /\ UNCHANGED <<contract, effects, performed, wire, attempt, node>>
  BY DEF FollowRedirect, GiveUp, TornBody, Classify, Rest
<1>2. result' \in {"ok", "refused", "failure"} => pc = "redirected"
  BY DEF FollowRedirect, GiveUp, TornBody, Classify, LostAnswer
<1>3. node # "eligible" /\ Current \in Rows /\ effects[Current].attempt = attempt
  BY <1>1, Control DEF HttpInv, PlaceInv
<1>4. ~MayRepeat'
  BY <1>1, <1>3 DEF MayRepeat
<1>5. PlaceInv'
  <2>1. Rows' = Rows /\ Current' = Current /\ (AlreadyPerformed(Current)' <=> AlreadyPerformed(Current))
    BY <1>1 DEF Rows, Current, AlreadyPerformed, OperationHeader
  <2>. QED  BY <1>1, <1>2, <1>3, <2>1 DEF HttpInv, PlaceInv
<1>. QED  BY <1>1, <1>4, <1>5, Control, HttpQuietInv

\* The receipt says what the answer was; without it the outcome is uncertain.
LEMMA RecordReceiptInv ==
  ASSUME HttpInv, RecordReceipt
  PROVE  HttpInv'
<1>1. /\ pc = "answered" /\ node # "eligible"
      /\ UNCHANGED <<contract, performed, wire, attempt, node>>
      /\ Current \in Rows /\ effects[Current].attempt = attempt
  BY Control DEF RecordReceipt, Rest, HttpInv, PlaceInv
<1>2. CASE Yield("uncertain") /\ UNCHANGED effects
  <2>1. pc' = "returned" /\ ~MayRepeat'
    BY <1>1, <1>2 DEF Yield, MayRepeat
  <2>2. PlaceInv'
    BY <1>1, <2>1, PlainPlace
  <2>. QED  BY <1>1, <1>2, <2>1, <2>2, Control, HttpQuietInv
<1>3. CASE /\ effects' = [effects EXCEPT ![Current].status = ReceiptOf(result)]
           /\ IF result \in {"ok", "refused"} THEN Go("receipted") ELSE Yield(result)
  <2>1. PICK s \in EffectStatus :
          /\ s = ReceiptOf(result)
          /\ s = "confirmed" => result = "ok"
          /\ s = "rejected" <=> result \in {"refused", "failure"}
          /\ s # "pending"
    BY DEF ReceiptOf, EffectStatus
  <2>2. /\ effects' \in Seq(Effect) /\ Len(effects') = Len(effects)
        /\ \A i \in Rows :
              /\ effects'[i].status = IF i = Current THEN s ELSE effects[i].status
              /\ effects'[i].attempt = effects[i].attempt
              /\ effects'[i].redirected = effects[i].redirected
    BY <1>1, <1>3, <2>1, StatusChanged DEF HttpInv
  <2>3. /\ pc' \in {"receipted", "returned"} /\ result' = result
        /\ pc' = "receipted" => result \in {"ok", "refused"}
    BY <1>3 DEF Go, Yield
  <2>4. contract \in Guarded =>
           \A i \in Rows : /\ i # Current => Settled(i)'
                           /\ MayRepeat' => Settled(i)'
                           /\ ~Settled(i)' => effects[i].attempt = attempt'
    <3>1. SUFFICES ASSUME contract \in Guarded, NEW i \in Rows
                   PROVE  /\ i # Current => Settled(i)'
                          /\ MayRepeat' => Settled(i)'
                          /\ ~Settled(i)' => effects[i].attempt = attempt'
      OBVIOUS
    <3>2. CASE i # Current
      BY <1>1, <2>2, <3>1, <3>2 DEF HttpInv, SettledInv, Settled
    <3>3. CASE i = Current
      <4>1. MayRepeat' => result \in {"refused", "failure"}
        BY <1>1, <2>3 DEF MayRepeat
      <4>2. s = "rejected" => Settled(i)'
        BY <2>2, <3>3 DEF Settled
      <4>. QED  BY <1>1, <2>1, <3>3, <4>1, <4>2
    <3>. QED  BY <3>2, <3>3
  <2>5. ASSUME NEW i \in Rows PROVE ReceiptInv(i)'
    <3>1. ReceiptInv(i) /\ (AlreadyPerformed(i) => AlreadyPerformed(i)')
      BY <1>1, PerformedStays DEF HttpInv
    <3>2. CASE i # Current
      BY <1>1, <2>2, <3>1, <3>2 DEF ReceiptInv
    <3>3. CASE i = Current
      <4>1. result = "ok" => AlreadyPerformed(i) /\ performed # {}
        BY <1>1, <3>3 DEF HttpInv, PlaceInv, AlreadyPerformed
      <4>2. result \in {"refused", "failure"} => effects[i].redirected \/ i \notin performed \cup wire
        BY <1>1, <3>3 DEF HttpInv, PlaceInv
      <4>. QED  BY <1>1, <2>1, <2>2, <3>1, <3>3, <4>1, <4>2 DEF ReceiptInv
    <3>. QED  BY <3>2, <3>3
  <2>6. PlaceInv'
    <3>1. Rows' = Rows /\ Current' = Current
      BY <2>2 DEF Rows, Current
    <3>. QED  BY <1>1, <2>2, <2>3, <3>1 DEF PlaceInv
  <2>. QED  BY <1>1, <2>2, <2>4, <2>5, <2>6, Control, EffectInv
<1>. QED  BY <1>2, <1>3 DEF RecordReceipt

-----------------------------------------------------------------------------
(***************************************************************************)
(* The controller, a cancellation, a crash.                                *)
(***************************************************************************)
\* What Execute returns, and what the controller makes of it: only a refusal
\* the receipt rules out, or what was a failure already, is a failure.
LEMMA ReturnInv ==
  ASSUME HttpInv, PublishResponse \/ TimedOut \/ LoseLease
  PROVE  HttpInv'
<1>1. UNCHANGED <<contract, effects, performed, wire, attempt, node>> /\ node # "eligible"
  BY Control DEF PublishResponse, TimedOut, LoseLease, Rest
<1>2. pc' \in {"returned", "late"}
  BY DEF PublishResponse, TimedOut, LoseLease, Yield
<1>3. MayRepeat' => MayRepeat
  BY <1>1 DEF PublishResponse, TimedOut, LoseLease, Yield, MayRepeat, HttpInv, PlaceInv
<1>4. PlaceInv'
  BY <1>1, <1>2, PlainPlace
<1>. QED  BY <1>1, <1>3, <1>4, Control, HttpQuietInv

\* Outcomes that end the node or park it.
LEMMA OutcomeInv ==
  ASSUME HttpInv,
         \/ CommitSuccess \/ CommitCancelled \/ CancelledTimeout
         \/ NodeUncertain \/ RecoverWaiting
  PROVE  HttpInv'
<1>1. UNCHANGED <<contract, effects, performed, wire, attempt>>
  BY DEF CommitSuccess, CommitCancelled, CancelledTimeout, NodeUncertain, RecoverWaiting, Rest
<1>2. pc' = "idle" /\ node' # "eligible"
  <2>2. CASE CommitSuccess \/ CommitCancelled \/ CancelledTimeout \/ NodeUncertain
    BY <2>2 DEF CommitSuccess, CommitCancelled, CancelledTimeout, NodeUncertain, Finish
  <2>3. CASE RecoverWaiting
    BY <2>3 DEF RecoverWaiting, Recoverable, Finish
  <2>. QED  BY <2>2, <2>3
<1>3. ~MayRepeat'
  BY <1>2 DEF MayRepeat
<1>4. PlaceInv'
  BY <1>2, PlainPlace
<1>. QED  BY <1>1, <1>3, <1>4, Control, HttpQuietInv

\* A failure is retried only if the receipt, or the refusal, rules it out.
LEMMA RecordFailureInv ==
  ASSUME HttpInv, RecordFailure
  PROVE  HttpInv'
<1>1. /\ UNCHANGED <<contract, effects, performed, wire>>
      /\ pc \in {"returned", "late"} /\ pc' = "idle" /\ result' = "none"
      /\ attempt' = attempt \/ attempt' = attempt + 1
  BY DEF RecordFailure, Finish, Rest
<1>2. contract \in Guarded => result = "failure"
  BY DEF RecordFailure, Unsafe, Guarded
<1>3. contract \in Guarded => \A i \in Rows : Settled(i)
  BY <1>1, <1>2, Control DEF MayRepeat
<1>4. PlaceInv'
  BY <1>1, PlainPlace
<1>. QED  BY <1>1, <1>3, <1>4, Control, HttpQuietInv

\* Pending effects of the attempt become unknown: neither is settled.
LEMMA MarkPendingUnknownInv ==
  ASSUME HttpInv, MarkPendingUnknown
  PROVE  HttpInv'
<1>. DEFINE marked(i) == IF effects[i].attempt = attempt /\ effects[i].status = "pending"
                         THEN [effects[i] EXCEPT !.status = "unknown"] ELSE effects[i]
<1>1. /\ pc \in {"returned", "late"} /\ pc' = "marked" /\ node' = node
      /\ effects' = [i \in Rows |-> marked(i)]
      /\ UNCHANGED <<contract, attempt, performed, wire>>
  BY DEF MarkPendingUnknown, Go, Rest, Rows
<1>2. effects \in Seq(Effect) /\ Len(effects) \in Nat /\ node # "eligible"
  BY <1>1, Control
<1>3. ASSUME NEW i \in Rows
      PROVE  /\ marked(i) \in Effect /\ marked(i).attempt = effects[i].attempt
             /\ marked(i).redirected = effects[i].redirected
             /\ \/ marked(i).status = effects[i].status
                \/ marked(i).status = "unknown" /\ effects[i].status = "pending"
  <2>1. effects[i] \in Effect
    BY <1>2 DEF Rows
  <2>. QED  BY <2>1 DEF Effect, EffectStatus
<1>4. effects' \in Seq(Effect) /\ Len(effects') = Len(effects)
      /\ \A i \in Rows : effects'[i] = marked(i)
  BY <1>1, <1>2, <1>3 DEF Rows
<1>. HIDE DEF marked
<1>5. \A i \in Rows :
        /\ effects'[i].attempt = effects[i].attempt
        /\ effects'[i].redirected = effects[i].redirected
        /\ effects'[i].status \in {"confirmed", "rejected"} \/ effects[i].status \in {"confirmed", "rejected"}
             => effects'[i].status = effects[i].status
  BY <1>3, <1>4
<1>6. contract \in Guarded =>
           \A i \in Rows : /\ i # Current => Settled(i)'
                           /\ MayRepeat' => Settled(i)'
                           /\ ~Settled(i)' => effects[i].attempt = attempt'
  <2>1. ~MayRepeat'
    BY <1>1, <1>2 DEF MayRepeat
  <2>2. \A i \in Rows : Settled(i) => Settled(i)'
    BY <1>1, <1>5 DEF Settled
  <2>. QED  BY <1>1, <2>1, <2>2 DEF HttpInv, SettledInv
<1>7. ASSUME NEW i \in Rows PROVE ReceiptInv(i)'
  <2>1. ReceiptInv(i) /\ (AlreadyPerformed(i) => AlreadyPerformed(i)')
    BY <1>1, PerformedStays DEF HttpInv
  <2>. QED  BY <1>1, <1>5, <2>1 DEF ReceiptInv
<1>8. PlaceInv'
  BY <1>1, <1>2, PlainPlace
<1>. QED  BY <1>1, <1>4, <1>5, <1>6, <1>7, <1>8, Control, EffectInv

\* A cancellation moves the node only.
LEMMA CancelHttpInv ==
  ASSUME HttpInv, CancelHttp
  PROVE  HttpInv'
<1>1. UNCHANGED <<contract, effects, performed, wire, attempt, pc, result>> /\ node' # "eligible"
  BY DEF CancelHttp, Rest
<1>2. MayRepeat' => MayRepeat
  BY <1>1 DEF MayRepeat
<1>3. PlaceInv'
  BY <1>1 DEF HttpInv, PlaceInv, Rows, Current, AlreadyPerformed, OperationHeader
<1>. QED  BY <1>1, <1>2, <1>3, Control, HttpQuietInv

\* Whoever dies or takes over starts from idle.
LEMMA IdleInv ==
  ASSUME HttpInv, CrashHttp \/ RecoverRepeatable
  PROVE  HttpInv'
<1>1. UNCHANGED <<contract, effects, performed, wire>> /\ pc' = "idle" /\ attempt' \in Nat
  BY Control DEF CrashHttp, RecoverRepeatable, Finish, Rest
<1>2. contract \in Guarded /\ (MayRepeat' \/ attempt' # attempt) => MayRepeat
  BY <1>1 DEF CrashHttp, RecoverRepeatable, Repeatable, Guarded, MayRepeat
<1>3. PlaceInv'
  BY <1>1, PlainPlace
<1>. QED  BY <1>1, <1>2, <1>3, Control, HttpQuietInv

-----------------------------------------------------------------------------
(***************************************************************************)
(* Reconciliation.                                                         *)
(***************************************************************************)
\* Asking the target, before its answer is recorded.
LEMMA AskInv ==
  ASSUME HttpInv, RecoverCancelled \/ StartReconcile \/ AskTarget
  PROVE  HttpInv'
<1>1. UNCHANGED <<contract, effects, performed, wire, attempt>>
  BY DEF RecoverCancelled, StartReconcile, AskTarget, Rest
<1>2. /\ node' # "eligible"
      /\ \/ pc' = "idle"
         \/ /\ contract = "reconcilable"
            /\ pc' \in {"reconciling", "confirmed", "absent"}
            /\ pc' = "confirmed" => performed # {}
  <2>1. CASE RecoverCancelled
    BY <2>1 DEF RecoverCancelled, Finish, Go
  <2>2. CASE StartReconcile
    BY <2>2 DEF StartReconcile, Go
  <2>3. CASE AskTarget
    <3>1. contract = "reconcilable" /\ node # "eligible"
      BY <2>3, Control DEF AskTarget, HttpInv, PlaceInv
    <3>. QED  BY <2>3, <3>1 DEF AskTarget, Finish
  <2>. QED  BY <2>1, <2>2, <2>3
<1>3. ~MayRepeat'
  BY <1>2 DEF MayRepeat
<1>4. PlaceInv'
  BY <1>1, <1>2 DEF PlaceInv
<1>. QED  BY <1>1, <1>3, <1>4, Control, HttpQuietInv

\* What the target says settles every effect: those of earlier attempts are,
\* and the last one of this attempt takes the answer.
LEMMA ReconciledSettles ==
  ASSUME HttpInv, contract = "reconcilable", NEW s \in {"confirmed", "rejected"},
         effects' = Reconciled(s), contract' = contract
  PROVE  /\ effects' \in Seq(Effect) /\ Len(effects') = Len(effects)
         /\ \A i \in Rows : /\ effects'[i].attempt = effects[i].attempt
                            /\ effects'[i].redirected = effects[i].redirected
                            /\ effects'[i].status \in {s, effects[i].status}
                            /\ Settled(i)'
<1>1. Typed /\ Len(effects) \in Nat
  BY DEF HttpInv, Typed
<1>2. \A i \in Rows : /\ i # Current => Settled(i)
                      /\ ~Settled(i) => effects[i].attempt = attempt
  BY DEF HttpInv, SettledInv, Guarded
<1>3. CASE \E i \in 1 .. Current : effects[i].attempt = attempt
  <2>1. Current \in Rows /\ effects' = [effects EXCEPT ![Current].status = s]
    BY <1>1, <1>3 DEF Reconciled, Rows, Current
  <2>2. /\ effects' \in Seq(Effect) /\ Len(effects') = Len(effects)
        /\ \A i \in Rows :
              /\ effects'[i].status = IF i = Current THEN s ELSE effects[i].status
              /\ effects'[i].attempt = effects[i].attempt
              /\ effects'[i].redirected = effects[i].redirected
    BY <1>1, <2>1, StatusChanged DEF EffectStatus
  <2>. QED  BY <1>2, <2>2 DEF Settled
<1>4. CASE ~\E i \in 1 .. Current : effects[i].attempt = attempt
  <2>1. effects' = effects
    BY <1>4 DEF Reconciled
  <2>2. \A i \in Rows : Settled(i)
    BY <1>2, <1>4 DEF Rows, Current
  <2>. QED  BY <1>1, <2>1, <2>2 DEF Typed, Settled
<1>. QED  BY <1>3, <1>4

\* The answer is recorded with the node's event.
LEMMA SettleInv ==
  ASSUME HttpInv, SettleConfirmed \/ SettleAbsent
  PROVE  HttpInv'
<1>1. /\ UNCHANGED <<contract, performed, wire>> /\ attempt' \in Nat /\ pc' = "idle"
      /\ contract = "reconcilable"
  BY Control DEF SettleConfirmed, SettleAbsent, Finish, Rest, HttpInv, PlaceInv
<1>2. PlaceInv'
  BY <1>1, PlainPlace
<1>3. CASE UNCHANGED effects /\ node' = "cancelled" /\ attempt' = attempt
  <2>1. ~MayRepeat'
    BY <1>1, <1>3 DEF MayRepeat
  <2>. QED  BY <1>1, <1>2, <1>3, <2>1, HttpQuietInv
<1>4. ASSUME NEW s \in {"confirmed", "rejected"}, effects' = Reconciled(s),
             s = "confirmed" => performed # {}
      PROVE  HttpInv'
  <2>1. /\ effects' \in Seq(Effect) /\ Len(effects') = Len(effects)
        /\ \A i \in Rows : /\ effects'[i].attempt = effects[i].attempt
                           /\ effects'[i].redirected = effects[i].redirected
                           /\ effects'[i].status \in {s, effects[i].status}
                           /\ Settled(i)'
    BY <1>1, <1>4, ReconciledSettles
  <2>2. ASSUME NEW i \in Rows PROVE ReceiptInv(i)'
    <3>1. ReceiptInv(i)
      BY DEF HttpInv
    <3>. QED  BY <1>1, <1>4, <2>1, <3>1 DEF ReceiptInv
  <2>. QED  BY <1>1, <1>2, <2>1, <2>2, EffectInv
<1>5. CASE SettleConfirmed
  <2>1. effects' = Reconciled("confirmed") /\ performed # {}
    BY <1>5 DEF SettleConfirmed, HttpInv, PlaceInv
  <2>. QED  BY <1>4, <2>1
<1>6. CASE SettleAbsent
  <2>1. \/ UNCHANGED effects /\ node' = "cancelled" /\ attempt' = attempt
        \/ effects' = Reconciled("rejected")
    BY <1>6 DEF SettleAbsent, Finish
  <2>. QED  BY <1>3, <1>4, <2>1
<1>. QED  BY <1>5, <1>6

-----------------------------------------------------------------------------
\* The invariant holds initially and is kept by every step.
LEMMA HttpInductive ==
  /\ HttpInit => HttpInv
  /\ HttpInv /\ [HttpNext]_httpVars => HttpInv'
<1>1. ASSUME HttpInit PROVE HttpInv
  <2>1. effects = <<>> /\ pc = "idle" /\ performed = {} /\ wire = {} /\ attempt = 1
        /\ contract \in HttpContracts
    BY <1>1 DEF HttpInit, HttpStart
  <2>2. Rows = {} /\ Typed
    BY <2>1, HttpAssumption DEF Rows, Typed
  <2>3. PlaceInv
    BY <2>1 DEF PlaceInv
  <2>4. SettledInv /\ OnceInv
    BY <2>1, <2>2 DEF SettledInv, OnceInv
  <2>. QED  BY <2>2, <2>3, <2>4 DEF HttpInv
<1>2. ASSUME HttpInv, [HttpNext]_httpVars PROVE HttpInv'
  <2>1. CASE UNCHANGED httpVars
    BY <1>2, <2>1 DEF httpVars, HttpInv, Typed, Rows, SettledInv, Settled, MayRepeat, PlaceInv,
                      ReceiptInv, OnceInv, Redirected, Current, AlreadyPerformed, OperationHeader
  <2>2. CASE HttpNext
    <3>1. CASE ClaimHttp \/ RefuseRequest \/ RecordIntent \/ PreSendError \/ Send
      BY <1>2, <3>1, BeforeSendInv, IntentInv, SendInv
    <3>2. CASE \E i \in wire : RemotePerforms(i) \/ RemoteRefuses(i) \/ RemoteRedirects(i)
      BY <1>2, <3>2, RemotePerformsInv, RemoteRefusesInv, RemoteRedirectsInv
    <3>3. CASE FollowRedirect \/ GiveUp \/ TornBody \/ RecordReceipt
      BY <1>2, <3>3, ClassifyInv, RecordReceiptInv
    <3>4. CASE \/ PublishResponse \/ TimedOut \/ LoseLease
               \/ CommitSuccess \/ CommitCancelled \/ CancelledTimeout
               \/ NodeUncertain \/ RecoverWaiting
      BY <1>2, <3>4, ReturnInv, OutcomeInv
    <3>5. CASE RecordFailure \/ MarkPendingUnknown \/ CancelHttp \/ CrashHttp \/ RecoverRepeatable
      BY <1>2, <3>5, RecordFailureInv, MarkPendingUnknownInv, CancelHttpInv, IdleInv
    <3>6. CASE \/ RecoverCancelled \/ StartReconcile \/ AskTarget
               \/ SettleConfirmed \/ SettleAbsent
      BY <1>2, <3>6, AskInv, SettleInv
    <3>. QED  BY <2>2, <3>1, <3>2, <3>3, <3>4, <3>5, <3>6 DEF HttpNext
  <2>. QED  BY <1>2, <2>1, <2>2
<1>. QED  BY <1>1, <1>2

\* Neither an idempotent nor a non-replayable request is performed twice,
\* whatever is lost, retried, cancelled, crashes or is recovered, unless the
\* remote system redirects.
THEOREM RequestsPerformedOnce == HttpSpec => []PerformedOnce
<1>1. ASSUME HttpInv PROVE PerformedOnce
  <2>1. SUFFICES ASSUME contract \in {"idempotent", "non_replayable"}, ~Redirected
                 PROVE  Cardinality(performed) <= 1
    BY DEF PerformedOnce
  <2>2. \A i, j \in performed : i = j
    BY <1>1, <2>1 DEF HttpInv, OnceInv
  <2>3. CASE performed = {}
    BY <2>3, FS_EmptySet
  <2>4. CASE performed # {}
    <3>1. PICK i : performed = {i}
      BY <2>2, <2>4
    <3>. QED  BY <3>1, FS_Singleton
  <2>. QED  BY <2>3, <2>4
<1>. QED  BY <1>1, HttpInductive, PTL DEF HttpSpec

\* A receipt that confirms an effect, or rules it out, is right.
THEOREM ReceiptsAreTrue == HttpSpec => []ReceiptIsTrue
<1>1. HttpInv => ReceiptIsTrue
  BY DEF HttpInv, ReceiptIsTrue, ReceiptInv, Rows
<1>. QED  BY <1>1, HttpInductive, PTL DEF HttpSpec

\* A guarded node sends nothing while an earlier outcome is open.
THEOREM EffectsSettledBeforeResend == HttpSpec => []SettledBeforeResend
<1>1. ASSUME HttpInv PROVE SettledBeforeResend
  <2>1. SUFFICES ASSUME contract \in Guarded, NEW i \in 1 .. Len(effects) - 1
                 PROVE  effects[i].status \in {"confirmed", "rejected"}
    BY DEF SettledBeforeResend, Guarded
  <2>2. Len(effects) \in Nat
    BY <1>1 DEF HttpInv, Typed
  <2>3. i \in Rows /\ i # Current
    BY <2>1, <2>2 DEF Rows, Current
  <2>. QED  BY <1>1, <2>1, <2>3 DEF HttpInv, SettledInv, Settled
<1>. QED  BY <1>1, HttpInductive, PTL DEF HttpSpec

-----------------------------------------------------------------------------
(***************************************************************************)
(* The numbers of the HTTP executor are bounded: an attempt beyond         *)
(* MaxAttempts is begun only by a recovery, and every recovery that begins *)
(* one has an effect row or a crash of its own to account for it.          *)
(***************************************************************************)
\* Recovery may begin an attempt for what is going on.
Owing ==
  \/ pc = "idle" /\ node \in {"running", "uncertain", "reconciling"}
  \/ pc \in {"intended", "sent", "redirected", "answered", "receipted", "marked"}
  \/ pc \in {"returned", "late"} /\ result # "failure"
  \/ pc \in {"reconciling", "absent"} /\ node # "cancel_requested"

Budgeted == MaxAttempts + Len(effects) + httpCrashes

AttemptInv == attempt <= Budgeted /\ (Owing => attempt < Budgeted)

\* What HttpTypeOK says of the variables that HttpInv does not mention.
PlaceTyped ==
  /\ contract \in HttpContracts
  /\ node \in NodeEnds \cup {"eligible", "running", "uncertain", "waiting", "reconciling",
                             "cancel_requested"}
  /\ pc \in {"idle", "claimed", "intended", "sent", "redirected", "answered", "receipted",
             "returned", "late", "marked", "reconciling", "confirmed", "absent"}
  /\ result \in Results
  /\ cancelled \in BOOLEAN
  /\ httpCrashes \in 0 .. MaxHttpCrashes

RowsInv == Len(effects) <= MaxEffects /\ (pc = "claimed" => Len(effects) < MaxEffects)

BoundInv == HttpInv /\ PlaceTyped /\ RowsInv /\ attempt >= 1 /\ AttemptInv

\* Only the intent adds an effect row.
LEMMA SameRows ==
  ASSUME HttpInv, HttpInv', DOMAIN effects' = DOMAIN effects
  PROVE  Len(effects') = Len(effects)
<1>1. effects \in Seq(Effect) /\ effects' \in Seq(Effect)
  BY DEF HttpInv, Typed
<1>. QED  BY <1>1, LenProperties

\* The steps that change a row keep the others.
LEMMA RowChanges ==
  ASSUME HttpInv, HttpInv',
         \/ \E i \in wire : RemoteRedirects(i)
         \/ RecordReceipt \/ MarkPendingUnknown \/ SettleConfirmed \/ SettleAbsent
  PROVE  Len(effects') = Len(effects)
<1>1. DOMAIN effects = 1 .. Len(effects)
  BY LenProperties DEF HttpInv, Typed
<1>2. DOMAIN effects' = DOMAIN effects
  BY <1>1 DEF RemoteRedirects, RecordReceipt, MarkPendingUnknown, SettleConfirmed, SettleAbsent,
              Reconciled
<1>. QED  BY <1>2, SameRows

\* A step that adds no row and begins no attempt.
LEMMA SameBudget ==
  ASSUME BoundInv, HttpInv', PlaceTyped', Len(effects') = Len(effects), pc' # "claimed",
         attempt' = attempt, httpCrashes' = httpCrashes, Owing' => Owing
  PROVE  BoundInv'
  BY DEF BoundInv, RowsInv, AttemptInv, Budgeted

\* Every step keeps the types of the control.
LEMMA PlaceStep ==
  ASSUME BoundInv, HttpNext
  PROVE  PlaceTyped'
<1>. USE HttpAssumption DEF BoundInv, PlaceTyped, Results, NodeEnds
<1>1. CASE ClaimHttp \/ RefuseRequest \/ RecordIntent \/ PreSendError \/ Send
  BY <1>1 DEF ClaimHttp, RefuseRequest, RecordIntent, PreSendError, Send, Go, Yield, Classify,
              Finish, Rest
<1>2. CASE \E i \in wire : RemotePerforms(i) \/ RemoteRefuses(i) \/ RemoteRedirects(i)
  BY <1>2 DEF RemotePerforms, RemoteRefuses, RemoteRedirects, Answer, Go, Rest
<1>3. CASE FollowRedirect \/ GiveUp \/ TornBody \/ RecordReceipt
  BY <1>3 DEF FollowRedirect, GiveUp, LostAnswer, TornBody, RecordReceipt,
              Classify, Go, Yield, Rest
<1>9. CASE PublishResponse \/ TimedOut \/ LoseLease
  BY <1>9 DEF PublishResponse, TimedOut, LoseLease, Yield, Rest
<1>4. CASE CommitSuccess \/ CommitCancelled \/ RecordFailure
  BY <1>4 DEF CommitSuccess, CommitCancelled, RecordFailure, Finish, Rest
<1>5. CASE MarkPendingUnknown \/ CancelledTimeout \/ NodeUncertain
  BY <1>5 DEF MarkPendingUnknown, CancelledTimeout, NodeUncertain, Finish, Go, Rest
<1>8. CASE CancelHttp \/ CrashHttp
  <2>1. cancelled' \in BOOLEAN
    BY <1>8, Zenon DEF CancelHttp, CrashHttp
  <2>2. CASE CancelHttp
    BY <2>1, <2>2 DEF CancelHttp, Rest
  <2>3. CASE CrashHttp
    BY <2>1, <2>3 DEF CrashHttp
  <2>. QED  BY <1>8, <2>2, <2>3
<1>6. CASE RecoverRepeatable \/ RecoverWaiting \/ RecoverCancelled \/ StartReconcile \/ AskTarget
  BY <1>6 DEF RecoverRepeatable, RecoverWaiting, RecoverCancelled, StartReconcile, AskTarget,
              Finish, Go, Rest
<1>7. CASE SettleConfirmed \/ SettleAbsent
  BY <1>7 DEF SettleConfirmed, SettleAbsent, Finish, Rest
<1>. QED  BY <1>1, <1>2, <1>3, <1>4, <1>5, <1>6, <1>7, <1>8, <1>9 DEF HttpNext

\* Every step stays within the bounds: one case per way the numbers change.
LEMMA BoundStep ==
  ASSUME BoundInv, HttpNext
  PROVE  BoundInv'
<1>1. HttpInv' /\ PlaceTyped'
  BY HttpInductive, PlaceStep DEF BoundInv
<1>2. /\ attempt \in Nat /\ Len(effects) \in Nat /\ httpCrashes \in Nat /\ MaxAttempts \in Nat
      /\ MaxEffects \in Nat /\ MaxHttpCrashes \in Nat
  BY HttpAssumption DEF BoundInv, HttpInv, Typed, PlaceTyped
<1>3. CASE ClaimHttp
  BY <1>1, <1>2, <1>3
  DEF ClaimHttp, Go, Rest, BoundInv, RowsInv, AttemptInv, Budgeted, Owing
<1>4. CASE RecordIntent
  <2>1. Len(effects') = Len(effects) + 1
    BY <1>4, AppendProperties DEF RecordIntent, BoundInv, HttpInv, Typed
  <2>. QED  BY <1>1, <1>2, <1>4, <2>1
            DEF RecordIntent, Go, Rest, BoundInv, RowsInv, AttemptInv, Budgeted
<1>5. CASE RefuseRequest \/ PreSendError \/ Send
  <2>1. Owing' => Owing
    BY <1>5 DEF RefuseRequest, PreSendError, Send, Go, Yield, Classify, Finish, Rest, Owing
  <2>. QED  BY <1>1, <1>5, <2>1, SameBudget
            DEF RefuseRequest, PreSendError, Send, Go, Yield, Classify, Finish, Rest
<1>6. CASE \E i \in wire : RemotePerforms(i) \/ RemoteRefuses(i) \/ RemoteRedirects(i)
  <2>1. Len(effects') = Len(effects)
    BY <1>1, <1>6, RowChanges DEF RemotePerforms, RemoteRefuses, BoundInv
  <2>2. (Owing' => Owing) /\ (pc' = pc \/ pc' # "claimed") /\ attempt' = attempt
        /\ httpCrashes' = httpCrashes
    BY <1>6 DEF RemotePerforms, RemoteRefuses, RemoteRedirects, Answer, Waiting, Go, Rest, Owing
  <2>3. CASE pc' # "claimed"
    BY <1>1, <2>1, <2>2, <2>3, SameBudget
  <2>4. CASE pc' = pc
    BY <1>1, <1>2, <2>1, <2>2, <2>4 DEF BoundInv, RowsInv, AttemptInv, Budgeted
  <2>. QED  BY <2>2, <2>3, <2>4
<1>7. CASE \/ FollowRedirect \/ GiveUp \/ TornBody \/ RecordReceipt \/ PublishResponse
           \/ TimedOut \/ LoseLease
  <2>1. Len(effects') = Len(effects)
    BY <1>1, <1>7, RowChanges
    DEF FollowRedirect, GiveUp, TornBody, PublishResponse, TimedOut, LoseLease, Rest, BoundInv
  <2>2. (Owing' => Owing) /\ pc' # "claimed" /\ attempt' = attempt /\ httpCrashes' = httpCrashes
    BY <1>7 DEF FollowRedirect, GiveUp, TornBody, RecordReceipt, PublishResponse, TimedOut,
                LoseLease, Classify, Go, Yield, Rest, Owing
  <2>. QED  BY <1>1, <2>1, <2>2, SameBudget
<1>8. CASE CommitSuccess \/ CommitCancelled \/ CancelledTimeout \/ NodeUncertain \/ RecoverWaiting
  <2>1. Owing' => Owing
    BY <1>8 DEF CommitSuccess, CommitCancelled, CancelledTimeout, NodeUncertain, RecoverWaiting,
                Finish, Owing
  <2>. QED  BY <1>1, <1>8, <2>1, SameBudget
            DEF CommitSuccess, CommitCancelled, CancelledTimeout, NodeUncertain, RecoverWaiting,
                Finish, Rest
<1>9. CASE RecordFailure
  <2>1. ~Owing' /\ pc' # "claimed" /\ Len(effects') = Len(effects) /\ httpCrashes' = httpCrashes
    BY <1>9 DEF RecordFailure, Finish, Rest, Owing
  <2>2. attempt' = attempt \/ (attempt < MaxAttempts /\ attempt' = attempt + 1)
    BY <1>2, <1>9 DEF RecordFailure
  <2>. QED  BY <1>1, <1>2, <2>1, <2>2 DEF BoundInv, RowsInv, AttemptInv, Budgeted
<1>10. CASE MarkPendingUnknown
  <2>1. Owing /\ pc' # "claimed"
    BY <1>10 DEF MarkPendingUnknown, Unsafe, Go, Owing
  <2>. QED  BY <1>1, <1>10, <2>1, RowChanges, SameBudget DEF MarkPendingUnknown, Rest, BoundInv
<1>11. CASE CancelHttp
  <2>1. Owing' => Owing
    BY <1>11 DEF CancelHttp, Owing, NodeEnds
  <2>. QED  BY <1>1, <1>2, <1>11, <2>1
            DEF CancelHttp, Rest, BoundInv, RowsInv, AttemptInv, Budgeted
<1>12. CASE CrashHttp
  BY <1>1, <1>2, <1>12 DEF CrashHttp, BoundInv, RowsInv, AttemptInv, Budgeted
<1>13. CASE RecoverRepeatable
  <2>1. Owing /\ ~Owing' /\ pc' # "claimed" /\ attempt' \in {attempt, attempt + 1}
    BY <1>13 DEF RecoverRepeatable, Recoverable, Finish, Owing
  <2>. QED  BY <1>1, <1>2, <1>13, <2>1
            DEF RecoverRepeatable, Rest, BoundInv, RowsInv, AttemptInv, Budgeted
<1>14. CASE RecoverCancelled \/ StartReconcile \/ AskTarget
  <2>1. (Owing' => Owing) /\ pc' # "claimed"
    BY <1>14 DEF RecoverCancelled, StartReconcile, AskTarget, Recoverable, Finish, Go, Owing
  <2>. QED  BY <1>1, <1>14, <2>1, SameBudget DEF RecoverCancelled, StartReconcile, AskTarget, Rest
<1>15. CASE SettleConfirmed
  <2>1. ~Owing' /\ pc' # "claimed"
    BY <1>15 DEF SettleConfirmed, Finish, Owing
  <2>. QED  BY <1>1, <1>15, <2>1, RowChanges, SameBudget DEF SettleConfirmed, Rest, BoundInv
<1>16. CASE SettleAbsent
  <2>1. ~Owing' /\ pc' # "claimed" /\ (attempt' = attempt \/ (Owing /\ attempt' = attempt + 1))
    BY <1>16 DEF SettleAbsent, Finish, Owing
  <2>2. Len(effects') = Len(effects) /\ httpCrashes' = httpCrashes
    BY <1>1, <1>16, RowChanges DEF SettleAbsent, Rest, BoundInv
  <2>. QED  BY <1>1, <1>2, <2>1, <2>2 DEF BoundInv, RowsInv, AttemptInv, Budgeted
<1>. QED  BY <1>3, <1>4, <1>5, <1>6, <1>7, <1>8, <1>9, <1>10, <1>11, <1>12, <1>13, <1>14, <1>15,
             <1>16 DEF HttpNext

\* The attempts of an HTTP node are bounded by its max_attempts and by what
\* went wrong: every variable of the executor keeps its type.
THEOREM HttpTyped == HttpSpec => []HttpTypeOK
<1>1. ASSUME HttpInit PROVE BoundInv
  <2>1. effects = <<>> /\ Len(effects) = 0 /\ attempt = 1 /\ httpCrashes = 0 /\ pc = "idle"
        /\ node = "eligible" /\ result = "none" /\ cancelled = FALSE
    BY <1>1 DEF HttpInit, HttpStart
  <2>2. cancelled \in BOOLEAN
    BY <1>1, Zenon DEF HttpInit, HttpStart
  <2>3. contract \in HttpContracts
    BY <1>1 DEF HttpInit, HttpStart
  <2>4. PlaceTyped
    BY <2>1, <2>2, <2>3, HttpAssumption DEF PlaceTyped, Results, NodeEnds
  <2>. QED  BY <1>1, <2>1, <2>4, HttpInductive, HttpAssumption
            DEF BoundInv, RowsInv, AttemptInv, Budgeted, Owing
<1>2. ASSUME BoundInv, [HttpNext]_httpVars PROVE BoundInv'
  <2>1. CASE UNCHANGED httpVars
    <3>1. HttpInv'
      BY <1>2, HttpInductive DEF BoundInv
    <3>. QED  BY <1>2, <2>1, <3>1
              DEF httpVars, BoundInv, PlaceTyped, RowsInv, AttemptInv, Budgeted, Owing
  <2>. QED  BY <1>2, <2>1, BoundStep
<1>3. ASSUME BoundInv PROVE HttpTypeOK
  <2>1. /\ attempt \in Nat /\ Len(effects) \in Nat /\ httpCrashes \in Nat
        /\ httpCrashes <= MaxHttpCrashes /\ Len(effects) <= MaxEffects
        /\ MaxAttempts \in Nat /\ MaxEffects \in Nat /\ MaxHttpCrashes \in Nat
    BY <1>3, HttpAssumption DEF BoundInv, HttpInv, Typed, PlaceTyped, RowsInv
  <2>2. attempt \in 1 .. MaxAttempts + MaxEffects + MaxHttpCrashes
    BY <1>3, <2>1 DEF BoundInv, AttemptInv, Budgeted
  <2>. QED  BY <1>3, <2>1, <2>2 DEF BoundInv, HttpInv, Typed, Effect, Rows, PlaceTyped, HttpTypeOK
<1>. QED  BY <1>1, <1>2, <1>3, PTL DEF HttpSpec

-----------------------------------------------------------------------------
(***************************************************************************)
(* The components side by side (Services).  A step of one is a stutter of  *)
(* the others, so a behaviour of all of them is a behaviour of each.       *)
(***************************************************************************)
\* Whichever component runs, each behaves as its own specification says.
LEMMA EachComponent ==
  ServicesSpec => /\ HttpSpec /\ DataDirSpec /\ ScheduleSpec
                  /\ ProposalsSpec /\ CycleSpec /\ DeliverySpec
<1>1. ASSUME ServicesInit
      PROVE  /\ HttpInit /\ DataDirInit /\ ScheduleInit
             /\ ProposalsInit /\ CycleInit /\ DeliveryInit
  <2>1. NoEdges \in Graphs
    BY ServicesAssumption DEF NoEdges, Graphs
  <2>2. DataDirInit
    BY <1>1 DEF ServicesInit, DataDirInit
  <2>. QED  BY <1>1, <2>1, <2>2, ServicesAssumption DEF ServicesInit, HttpInit, CycleInit
<1>2. ASSUME [ServicesNext]_servicesVars
      PROVE  /\ [HttpNext]_httpVars /\ [DataDirNext]_dirVars /\ [ScheduleNext]_schedVars
             /\ [ProposalsNext]_propVars /\ [CycleNext]_cycleVars /\ [DeliveryNext]_delVars
  BY <1>2 DEF ServicesNext, servicesVars, HttpOnly, DataDirOnly, ScheduleOnly, ProposalsOnly,
              CyclesOnly, DeliveryOnly
<1>. QED  BY <1>1, <1>2, PTL DEF ServicesSpec, HttpSpec, DataDirSpec, ScheduleSpec, ProposalsSpec,
                                 CycleSpec, DeliverySpec

KnownPart == part \in Parts

\* Every variable of every component keeps its type.
THEOREM ServicesTyped == ServicesSpec => []ServicesTypeOK
<1>1. ServicesInit => KnownPart
  BY DEF ServicesInit, KnownPart
<1>2. KnownPart /\ [ServicesNext]_servicesVars => KnownPart'
  BY DEF ServicesNext, servicesVars, KnownPart
<1>3. ServicesSpec => []KnownPart
  BY <1>1, <1>2, PTL DEF ServicesSpec
<1>4. /\ KnownPart
      /\ HttpTypeOK /\ DataDirTypeOK /\ ScheduleTypeOK
      /\ ProposalsTypeOK /\ CycleTypeOK /\ DeliveryTypeOK
      => ServicesTypeOK
  BY DEF ServicesTypeOK, KnownPart
<1>. QED  BY <1>3, <1>4, EachComponent, HttpTyped, DataDirTyped, ScheduleTyped, ProposalsTyped,
             CycleTyped, DeliveryTyped, PTL

\* What each component keeps it keeps beside the others: the properties that
\* the run of Services checks, for the specification it checks.
THEOREM ServicesKeep ==
  ServicesSpec =>
    /\ [](PerformedOnce /\ ReceiptIsTrue /\ SettledBeforeResend)
    /\ [](ImportIsAtomic /\ ArchiveComplete)
    /\ [](TicksAccounted /\ ProposalIsBacked)
    /\ [](ComponentsAreRight /\ UnboundedCyclesReported)
    /\ []ReplayWasHandled /\ DecisionIsFinal
  BY EachComponent, RequestsPerformedOnce, ReceiptsAreTrue, EffectsSettledBeforeResend,
     ImportsAreAtomic, ArchivesAreComplete, TicksAreAccounted, ProposalsAreBacked,
     ComponentsRight, CyclesReported, ReplaysAreHandled, DecisionsAreFinal, PTL
==============================================================================
