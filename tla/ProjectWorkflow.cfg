\* Two users, two engagements.  What follows an override, or waits for an
\* overtaken run, is not explored (CONSTRAINT).  A closed project may stop for
\* good.
SPECIFICATION Spec
CONSTANTS
  Users = {u1, u2}
  Engagements = {e1, e2}
  NoRun = NoRun
  MaxOverrides = 1
SYMMETRY Symmetry
CONSTRAINT Explored
CHECK_DEADLOCK FALSE
INVARIANT ClosedIsResolved
INVARIANT DevelopmentHasNotStarted
PROPERTY ChangedPlanIsKept
PROPERTY ResumedByReactivation
