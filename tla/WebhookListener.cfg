SPECIFICATION FairSpec
CONSTANTS
  p1 = p1
  p2 = p2
  c1 = c1
  c2 = c2
  internal = internal
  NoBatch = NoBatch
  Payloads <- TwoPayloads
  Channels <- ThreeChannels
  Internal <- OneInternal
INVARIANT QueuedOnce
INVARIANT JobsInOrder
INVARIANT ShutdownFlushes
PROPERTY EventsQueued
