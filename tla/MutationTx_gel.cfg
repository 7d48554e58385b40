SPECIFICATION Spec
CONSTANTS
  i1 = i1
  i2 = i2
  u1 = u1
  u2 = u2
  NumFields = 2
  MaxRuns = 3
  MaxEvents = 2
  Inner = "gel"
  Ids <- OneId
  Uploads <- NoUploads
INVARIANT TypeOK
INVARIANT ToldOkMeansCommitted
PROPERTY ImplementsOutbox
