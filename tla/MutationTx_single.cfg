SPECIFICATION FairSpec
CONSTANTS
  i1 = i1
  i2 = i2
  u1 = u1
  u2 = u2
  NumFields = 1
  MaxRuns = 3
  MaxEvents = 2
  Inner = "none"
  Ids <- TwoIds
  Uploads <- TwoUploads
INVARIANT CommittedFileInPlace
INVARIANT LiveQueriesFresh
INVARIANT PublishedOnlyAfterCommit
PROPERTY CommittedEventsPublished
