CONSTANTS
  na = na
  nb = nb
  nc = nc
  nr = nr
  tick = tick
  req = req
  always = always
  left = left
  right = right
  AttemptBound = 4
  Nodes = {na, nb, nr}
  Contract <- ChainContract
  Routers = {nr}
  Release <- LinearRelease
  RouteEdges <- RoutedChain
  Routes = {}
  Always = always
  MaxAttempts <- TwoAttempts
  Loops = {tick}
  Ticker = tick
  MaxConcurrent = 2
  Rejectable = {nb}
  LongExecutions = FALSE
  Ops = {"cancel", "abandon"}
  MaxFaults = 2
SPECIFICATION Spec
INVARIANTS TypeOK CancelledIsQuiet StartedAfterDependencies RetryBudget FreshKeyAfterFailure
PROPERTIES NoBlindRedispatch TerminalHistory ImplementsRun
CHECK_DEADLOCK FALSE
