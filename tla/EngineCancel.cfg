CONSTANTS
  na = na
  nb = nb
  nc = nc
  nr = nr
  tick = tick
  req = req
  always = always
  left = left
  right = right
  AttemptBound = 4
  Nodes = {na}
  Contract <- IdempotentContract
  Routers = {}
  Release = {}
  RouteEdges = {}
  Routes = {}
  Always = always
  MaxAttempts <- OneAttempt
  Loops = {tick}
  Ticker = tick
  MaxConcurrent = 2
  Rejectable = {}
  LongExecutions = FALSE
  Ops = {"cancel"}
  MaxFaults = 1
SPECIFICATION FairSpec
PROPERTIES CancelEnds
CHECK_DEADLOCK FALSE
