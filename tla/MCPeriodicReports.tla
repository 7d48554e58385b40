------------------------- MODULE MCPeriodicReports -------------------------
EXTENDS PeriodicReports
\* A quarter is two months of two days.  The days are the second of the first
\* quarter and the third of the second.
SomeDates == {1, 6}
SomeFirstDates == {1}
===========================================================================
