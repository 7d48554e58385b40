SPECIFICATION Spec
CONSTANTS
  h1 = h1
  h2 = h2
  b1 = b1
  b2 = b2
  w1 = w1
  w2 = w2
  Idle = Idle
  Hooks <- TwoHooks
  Broadcasts <- OneBroadcast
  Workers <- OneWorker
  Observers <- AllObserve
  Attempts = 1
  DeliveryAttempts = 1
  MaxVersions = 2
  MaxCrashes = 1
  MaxObliterations = 1
  MaxBroken = 1
SYMMETRY HooksAlike
INVARIANT DoneMeansAdded
INVARIANT RepeatsNeedRestarts
