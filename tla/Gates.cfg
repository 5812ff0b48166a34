CONSTANTS
  review = review
  checks = checks
  deploy = deploy
  first = first
  second = second
  key1 = key1
  key2 = key2
  AttemptBound = 1
  Humans = {review}
  Externals = {checks, deploy}
  Runs = {first, second}
  RunOf <- TwoRuns
  Corr <- OneCorrelation
  Outgoing <- Edges
  Conditioned = {checks}
  Timed = {deploy}
  Contract <- Idempotent
  Keys = {key1, key2}
  MaxFaults = 1
SPECIFICATION MCSpec
INVARIANTS TypeOK OneWaitPerCorrelation AnswersAreLogged WaitIsAnswerable
PROPERTIES DueIsResolved FinalStays ImplementsPromise
CHECK_DEADLOCK FALSE
