CONSTANTS
  na = na
  nb = nb
  nc = nc
  nr = nr
  tick = tick
  req = req
  always = always
  left = left
  right = right
  AttemptBound = 4
  Nodes = {na, nb, nc}
  Contract <- PureContract
  Routers = {}
  Release <- MixedRelease
  RouteEdges <- Mixed
  Routes = {left, right}
  Always = always
  MaxAttempts <- OneAttempt
  Loops = {tick}
  Ticker = tick
  MaxConcurrent = 2
  Rejectable = {}
  LongExecutions = FALSE
  Ops = {}
  MaxFaults = 0
SPECIFICATION Spec
INVARIANTS UnselectedIsSkipped
CHECK_DEADLOCK FALSE
