SPECIFICATION Spec
CONSTANTS
  Partners = {p1, p2}
  Spans <- SomeSpans
  Overrides <- SomeOverrides
  NULL = NULL
  PageSize = 1
  MaxSaves = 4
  MaxProposals = 2
  MaxAmounts = 1
SYMMETRY Symmetry
INVARIANT OnePrimary
INVARIANT RecordsFollowDates
INVARIANT RequestsCoverDates
PROPERTY AmountsAreKept
