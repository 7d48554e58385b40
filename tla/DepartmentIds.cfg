SPECIFICATION FairSpec
CONSTANTS
  p1 = p1
  p2 = p2
  a1 = a1
  i1 = i1
  i2 = i2
  i3 = i3
  Projects <- TwoProjects
  Accounts <- OneAccount
  AccountOf <- ItsAccount
  Ids <- ThreeIds
  Blocks <- TwoBlocks
  FirstBlock <- Whole
  External <- OneExternal
  Savers = {s1, s2}
  NONE = NONE
  KEEP = KEEP
  MaxRuns = 2
  MaxSaves = 3
  MaxMoves = 1
INVARIANT NoTwoShare
INVARIANT DueHasId
PROPERTY IdIsKept
PROPERTY SavesEnd
