CONSTANTS
  na = na
  nb = nb
  nc = nc
  nr = nr
  tick = tick
  req = req
  always = always
  left = left
  right = right
  AttemptBound = 4
  Nodes = {na, nb, nc}
  Contract <- PureContract
  Routers = {}
  Release = {}
  RouteEdges <- Branch
  Routes = {left, right}
  Always = always
  MaxAttempts <- OneAttempt
  Loops = {tick, req}
  Ticker = tick
  MaxConcurrent = 2
  Rejectable = {}
  LongExecutions = FALSE
  Ops = {"cancel"}
  MaxFaults = 1
SPECIFICATION FairSpec
INVARIANTS UnselectedIsSkipped
PROPERTIES RunEnds CancelEnds
CHECK_DEADLOCK FALSE
