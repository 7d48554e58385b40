SPECIFICATION FairSpec
CONSTANTS
  h1 = h1
  h2 = h2
  b1 = b1
  b2 = b2
  w1 = w1
  w2 = w2
  Idle = Idle
  Hooks <- OneHook
  Broadcasts <- TwoBroadcasts
  Workers <- TwoWorkers
  Observers <- AllObserve
  Attempts = 2
  DeliveryAttempts = 2
  MaxVersions = 2
  MaxCrashes = 0
  MaxObliterations = 0
  MaxBroken = 1
INVARIANT RequestIdNamesPayload
INVARIANT NothingOutdatedIsSent
PROPERTY BroadcastsSettle
