CONSTANTS
  na = na
  nb = nb
  nc = nc
  nr = nr
  tick = tick
  req = req
  always = always
  left = left
  right = right
  AttemptBound = 4
  Nodes = {na, nb}
  Contract <- GuardedContract
  Routers = {}
  Release <- LinearRelease
  RouteEdges <- NoRouteEdges
  Routes = {}
  Always = always
  MaxAttempts <- OneAttempt
  Loops = {tick, req}
  Ticker = tick
  MaxConcurrent = 2
  Rejectable = {}
  LongExecutions = TRUE
  Ops = {"cancel"}
  MaxFaults = 2
SPECIFICATION Spec
INVARIANTS InflightExact
PROPERTIES CancelIsFinal NonReplayableOnce
CHECK_DEADLOCK FALSE
