SPECIFICATION FairSpec
CONSTANTS
  a = a
  b = b
  moves = moves
  breaks = breaks
  begins = begins
  Hooks = {h1, h2}
  Docs <- Operations
  Channels <- TwoChannels
  Meant <- MeantChannels
  Broken <- BrokenOperations
  Runners = {r1, r2}
  NONE = NONE
  MaxChanges = 3
  MaxFailures = 1
INVARIANT ObservedExist
INVARIANT StaleAreReevaluated
INVARIANT InvalidIsBroken
INVARIANT OwnersAreTold
PROPERTY LastObserverCleansUp
PROPERTY MigrationCompletes
