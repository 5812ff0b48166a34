------------------------------- MODULE Schedule -------------------------------
(***************************************************************************)
(* One cron schedule (internal/store/schedule.go, controller/cron.go) and  *)
(* the serve processes that fire it.  A process has one ticker; two can be *)
(* inside FireDueSchedules at once, when a process that paused after its   *)
(* heartbeat goes on after another took over its lease.  The row is listed *)
(* outside the transaction that fires it or skips it, and an operator      *)
(* pauses, resumes and removes it meanwhile.                               *)
(*                                                                         *)
(* Time is in minutes; the expression is the set of minutes it matches.    *)
(***************************************************************************)
EXTENDS Integers, FiniteSets

CONSTANTS
  Servers,      \* processes that fire schedules
  CronMinutes,  \* minutes the expression matches
  Horizon       \* last minute of the model (named bound)

ASSUME ScheduleAssumption ==
  /\ Horizon \in Nat /\ CronMinutes \subseteq Nat
  /\ \E m \in CronMinutes : m > Horizon
  /\ \A m \in CronMinutes : m >= 1

VARIABLES
  clock,      \* the minute it is
  row,        \* the schedule row: does it exist, enabled, next_fire_at
  firing,     \* per server: the copy it listed and the now it was given
  runsOf,     \* runs started per tick
  skipsOf     \* how often skipped_count counted a tick

schedVars == <<clock, row, firing, runsOf, skipsOf>>

Minutes == 0 .. CHOOSE m \in CronMinutes : m > Horizon /\ \A k \in CronMinutes : k > Horizon => m <= k
NotFiring == [tick |-> 0, now |-> 0]

\* CronSchedule.Next: the first match after a minute.
CronNext(after) == CHOOSE m \in CronMinutes : m > after /\ \A k \in CronMinutes : k > after => m <= k

ScheduleTypeOK ==
  /\ clock \in 0 .. Horizon
  /\ row \in [exists : BOOLEAN, enabled : BOOLEAN, next : Minutes]
  /\ firing \in [Servers -> [tick : Minutes, now : 0 .. Horizon]]
  /\ runsOf \in [Minutes -> Nat] /\ skipsOf \in [Minutes -> Nat]

\* What `schedule add` stores: enabled, due at the first match after now.
AddedRow(now) == [exists |-> TRUE, enabled |-> TRUE, next |-> CronNext(now)]

\* AddSchedule.
ScheduleInit ==
  /\ clock = 0
  /\ row = AddedRow(0)
  /\ firing = [p \in Servers |-> NotFiring]
  /\ runsOf = [m \in Minutes |-> 0] /\ skipsOf = [m \in Minutes |-> 0]

MinutePasses ==
  /\ clock < Horizon
  /\ clock' = clock + 1
  /\ UNCHANGED <<row, firing, runsOf, skipsOf>>

\* SetScheduleEnabled and RemoveSchedule.
PauseOrResume ==
  /\ row.exists
  /\ row' = [row EXCEPT !.enabled = ~@]
  /\ UNCHANGED <<clock, firing, runsOf, skipsOf>>

RemoveSchedule ==
  /\ row.exists
  /\ row' = [row EXCEPT !.exists = FALSE]
  /\ UNCHANGED <<clock, firing, runsOf, skipsOf>>

\* FireDueSchedules lists the enabled rows that are due.
ListDue(p) ==
  /\ firing[p] = NotFiring
  /\ row.exists /\ row.enabled /\ row.next <= clock
  /\ firing' = [firing EXCEPT ![p] = [tick |-> row.next, now |-> clock]]
  /\ UNCHANGED <<clock, row, runsOf, skipsOf>>

\* Mutant of Untouched: the update goes by the id alone.
SameRow(tick) == row.exists

\* WHERE id = ? AND next_fire_at = ?
Untouched(tick) == row.exists /\ row.next = tick

Advance(tick, to) == row' = IF Untouched(tick) THEN [row EXCEPT !.next = to] ELSE row

\* The run's idempotency key is the schedule and the tick; a second run with
\* the same key fails its transaction.
FireTick(p) ==
  LET tick == firing[p].tick
  IN  /\ firing[p] # NotFiring /\ CronNext(tick) > firing[p].now
      /\ IF runsOf[tick] = 0
         THEN runsOf' = [runsOf EXCEPT ![tick] = 1] /\ Advance(tick, CronNext(tick))
         ELSE UNCHANGED <<runsOf, row>>
      /\ firing' = [firing EXCEPT ![p] = NotFiring]
      /\ UNCHANGED <<clock, skipsOf>>

\* skipScheduleTicks counts the tick and every match up to now in the update
\* that moves next_fire_at past them: a process that was down creates no runs.
SkipTicks(p) ==
  LET tick == firing[p].tick
      now == firing[p].now
      missed == {m \in CronMinutes : tick <= m /\ m <= now}
  IN  /\ firing[p] # NotFiring /\ CronNext(tick) <= now
      /\ Advance(tick, CronNext(now))
      /\ skipsOf' = IF Untouched(tick)
                    THEN [m \in Minutes |-> skipsOf[m] + (IF m \in missed THEN 1 ELSE 0)]
                    ELSE skipsOf
      /\ firing' = [firing EXCEPT ![p] = NotFiring]
      /\ UNCHANGED <<clock, runsOf>>

\* The process dies, or the transaction fails; the next tick lists again.
StopFiring(p) ==
  /\ firing[p] # NotFiring
  /\ firing' = [firing EXCEPT ![p] = NotFiring]
  /\ UNCHANGED <<clock, row, runsOf, skipsOf>>

ScheduleNext ==
  \/ MinutePasses \/ PauseOrResume \/ RemoveSchedule
  \/ \E p \in Servers : ListDue(p) \/ FireTick(p) \/ SkipTicks(p) \/ StopFiring(p)

ScheduleSpec == ScheduleInit /\ [][ScheduleNext]_schedVars

\* Every tick the schedule has moved past started its run or was counted as
\* skipped, neither of them twice, and no later tick was touched.  (A tick
\* can be both: FireTick starts the run before its update finds that the
\* tick was skipped meanwhile.)
TicksAccounted ==
  /\ \A m \in CronMinutes \cap Minutes :
       /\ runsOf[m] <= 1 /\ skipsOf[m] <= 1
       /\ m < row.next => runsOf[m] + skipsOf[m] >= 1
       /\ m >= row.next => skipsOf[m] = 0 /\ (row.exists => runsOf[m] = 0)
=============================================================================
