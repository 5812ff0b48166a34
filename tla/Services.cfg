CONSTANTS
  Parts = {"http", "datadir", "schedule", "proposals", "cycles", "delivery"}
  HttpContracts = {"pure", "idempotent", "reconcilable", "non_replayable"}
  MaxAttempts = 2
  MaxEffects = 3
  MaxHttpCrashes = 1
  Hashes = {h1, h2}
  MaxDirFaults = 1
  Servers = {s1, s2}
  CronMinutes = {1, 2, 4, 5, 7}
  Horizon = 5
  run1 = run1
  run2 = run2
  draft1 = draft1
  draft2 = draft2
  Proposals = {draft1, draft2}
  PastRuns = {run1, run2}
  Version <- TwoVersions
  Granted = {run1}
  NodeCount = 3
  EdgeKinds = {"none", "bounded", "unbounded"}
  delivery1 = delivery1
  delivery2 = delivery2
  delivery3 = delivery3
  Deliveries = {delivery1, delivery2, delivery3}
  EventOf <- CheckRuns
  Matching = {delivery1, delivery2}
  Handlers = {w1, w2}
  MaxRetries = 2
  MaxRestarts = 1
SYMMETRY HashSymmetry
SPECIFICATION ServicesSpec
INVARIANTS ServicesTypeOK PerformedOnce ReceiptIsTrue SettledBeforeResend ImportIsAtomic ArchiveComplete
  TicksAccounted ProposalIsBacked ComponentsAreRight UnboundedCyclesReported ReplayWasHandled
PROPERTIES DecisionIsFinal
CHECK_DEADLOCK FALSE
