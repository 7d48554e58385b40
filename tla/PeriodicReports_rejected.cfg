SPECIFICATION Spec
CONSTANTS
  Month = 2
  Quarter = 4
  Dates <- SomeDates
  FirstDates <- SomeFirstDates
  NULL = NULL
  MaxMarks = 1
  MaxProposals = 2
PROPERTY RejectedIsNotApplied
CHECK_DEADLOCK FALSE
