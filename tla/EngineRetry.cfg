CONSTANTS
  na = na
  nb = nb
  nc = nc
  nr = nr
  tick = tick
  req = req
  always = always
  left = left
  right = right
  AttemptBound = 4
  Nodes = {na}
  Contract <- PureContract
  Routers = {}
  Release = {}
  RouteEdges = {}
  Routes = {}
  Always = always
  MaxAttempts <- TwoAttempts
  Loops = {tick, req}
  Ticker = tick
  MaxConcurrent = 2
  Rejectable = {}
  LongExecutions = FALSE
  Ops = {}
  MaxFaults = 0
SPECIFICATION Spec
INVARIANTS RetryBudget
CHECK_DEADLOCK FALSE
