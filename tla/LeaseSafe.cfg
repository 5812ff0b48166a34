CONSTANTS
  p1 = p1
  p2 = p2
  s = s
  req1 = req1
  req2 = req2
  Cli = {p1, p2}
  Serving = {s}
  Requests = {req1}
  Host <- HostOne
  Nobody = nobody
  TTL = 2
  MaxStalls = 1
  MaxCrashes = 1
SPECIFICATION Spec
INVARIANTS TypeOK CliExclusive NoDroppedResult ReleasedAtEnd
CHECK_DEADLOCK FALSE
