SPECIFICATION Spec
CONSTANTS
  Month = 2
  Quarter = 4
  Dates <- SomeDates
  FirstDates <- SomeFirstDates
  NULL = NULL
  MaxMarks = 1
  MaxProposals = 2
INVARIANT TypeOK
INVARIANT EveryPeriodHasReport
INVARIANT EmptyReportsWithinDates
INVARIANT FinalReportAtEnd
INVARIANT DueIsLastCompleted
PROPERTY FilledReportsAreKept
\* Once an approved request has put the dates out of order nobody can save
\* the project any more.
CHECK_DEADLOCK FALSE
