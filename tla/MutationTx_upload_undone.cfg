SPECIFICATION Spec
CONSTANTS
  i1 = i1
  i2 = i2
  u1 = u1
  u2 = u2
  NumFields = 2
  MaxRuns = 1
  MaxEvents = 0
  Inner = "none"
  Ids <- OneId
  Uploads <- OneUpload
INVARIANT CommittedFileInPlace
