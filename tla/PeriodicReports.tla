-------------------------- MODULE PeriodicReports --------------------------
(* The narrative and financial reports of a project and the progress reports *)
(* of its language engagement, kept in step with their dates: every save of  *)
(* the project or the engagement creates, deletes and moves reports          *)
(* (components/periodic-report/handlers), also a save made within a change   *)
(* request, whose dates apply only when it is approved.                      *)
(* The types of reports do not influence each other: a behaviour follows one *)
(* of them.  A day is a number; months and quarters are spans of Month and   *)
(* Quarter days.  A save and its hooks are one transaction (MutationTx), and *)
(* so one step here; saves of one project do not overlap.                    *)
EXTENDS Integers, FiniteSets

CONSTANTS
  Month, Quarter,   \* their lengths in days
  Dates,            \* the days a user may pick
  FirstDates,       \* bound: those of them a project may be created with
  NULL,             \* no date, no period
  MaxMarks,         \* bound: reports a user fills in, or skips
  MaxProposals      \* bound: saves made within a change request

ASSUME CalendarAssumption ==
  /\ Month \in Nat \ {0, 1}
  /\ Quarter \in Nat /\ Quarter > 0 /\ Quarter % Month = 0
  /\ Dates \subseteq Nat /\ FirstDates \subseteq Dates
  /\ NULL \notin Nat \cup {"Monthly", "Quarterly"}
ASSUME BoundsAssumption == MaxMarks \in Nat /\ MaxProposals \in Nat

VARIABLES
  project,     \* its dates and the period of its financial reports
  engagement,  \* absent, proposed in the change request, or live; its overrides
  request,     \* the change request: the dates it would set, and, once
               \* finalized, whether they were applied
  type,        \* the type of the reports followed
  reports,     \* those that exist
  born,        \* the dates the project was created with
  marks, proposals

vars == <<project, engagement, request, type, reports, born, marks, proposals>>
counters == <<marks, proposals>>
fixed == <<type, born>>

Types == {"Narrative", "Financial", "Progress"}
Periods == {"Monthly", "Quarterly", NULL}
MaybeDates == Dates \cup {NULL}
Fields == {"mouStart", "mouEnd", "overrideStart", "overrideEnd"}

---------------------------------------------------------------------------
(* Dates and ranges.                                                         *)

NoRange == [start |-> NULL, end |-> NULL]
DateInterval(s, e) == IF NULL \in {s, e} THEN NoRange ELSE [start |-> s, end |-> e]
Ordered(s, e) == NULL \notin {s, e} => s <= e
StartOf(d, unit) == d - (d % unit)
EndOf(d, unit) == StartOf(d, unit) + unit - 1

Full(range, unit) ==
  IF range = NoRange THEN NoRange
  ELSE [start |-> StartOf(range.start, unit), end |-> EndOf(range.end, unit)]

(* The units a range touches: expandToFull, then splitBy.                    *)
Units(range, unit) ==
  IF range = NoRange THEN {}
  ELSE {[start |-> d, end |-> d + unit - 1] :
          d \in {StartOf(x, unit) : x \in range.start .. range.end}}

UnitOf(period) == IF period = "Monthly" THEN Month ELSE Quarter
OtherUnit(unit) == IF unit = Month THEN Quarter ELSE Month

Or(override, date) == IF override = NULL THEN date ELSE override
EngagementRange(eng, mou) == DateInterval(Or(eng.start, mou.start), Or(eng.end, mou.end))

(* Luxon makes an invalid interval of dates out of order; syncing throws.    *)
IsValid(range) == range # NoRange => range.start <= range.end

---------------------------------------------------------------------------
(* Reports: an interval and what a user did with it.  The final report of a  *)
(* type is the one of a single day.                                          *)

Report(interval, mark) ==
  [start |-> interval.start, end |-> interval.end, mark |-> mark]
IsAt(r, interval) == r.start = interval.start /\ r.end = interval.end
IsFinal(r) == r.start = r.end

(* A bug that would break a property: everything may go.                     *)
BugAllDeletable(r) == TRUE
(* With a file, or started, a report is never deleted.                       *)
Deletable(r) == r.mark # "filled"

(* A bug that would break a property: nothing is looked for around the range. *)
BugNoInversion(r, range) == FALSE
(* What the two half-open deletions around the range match.                  *)
Outside(r, range) ==
  range # NoRange /\ (r.end <= range.start \/ r.start >= range.end)

Deleted(rs, removals, range) ==
  {r \in rs : /\ Deletable(r)
              /\ Outside(r, range) \/ \E i \in removals : IsAt(r, i)}

(* A bug that would break a property: the existing ones are not looked for.  *)
BugMergeBlindly(rs, additions) == rs \cup {Report(i, "none") : i \in additions}
(* Existing reports of the same interval are left alone.                     *)
Merged(rs, additions) ==
  rs \cup {Report(i, "none") :
             i \in {x \in additions : \A r \in rs : ~IsAt(r, x)}}

(* A bug that would break a property: a moved end gets another final report. *)
BugAlwaysNewFinal(rs, at) ==
  Merged(rs, IF at = NULL THEN {} ELSE {[start |-> at, end |-> at]})
(* The final report is moved, with what it holds, or created.                *)
WithFinal(rs, at) ==
  IF at = NULL THEN rs
  ELSE LET day == [start |-> at, end |-> at]
           finals == {r \in rs : IsFinal(r)}
           final == CHOOSE r \in finals : TRUE
       IN  IF finals = {} THEN Merged(rs, {day})
           ELSE (rs \ {final}) \cup {Report(day, final.mark)}

Synced(rs, diff, at) ==
  WithFinal(Merged(rs \ Deleted(rs, diff.removals, diff.range),
                   diff.additions),
            at)

DiffBy(new, old, unit) ==
  [range     |-> Full(new, unit),
   additions |-> Units(new, unit) \ Units(old, unit),
   removals  |-> Units(old, unit) \ Units(new, unit)]

(* A bug that would break a property: the change of period is overlooked.    *)
BugSamePeriod(new, old) ==
  DiffBy(DateInterval(new.start, new.end), DateInterval(old.start, old.end),
         UnitOf(new.period))
(* A change of period replaces the reports of the other unit.                *)
DiffFinancial(new, old) ==
  LET unit == UnitOf(new.period)
      now  == DateInterval(new.start, new.end)
      prev == DateInterval(old.start, old.end)
  IN  IF new.period = old.period THEN DiffBy(now, prev, unit)
      ELSE [range     |-> Full(now, unit),
            additions |-> Units(now, unit),
            removals  |-> Units(prev, OtherUnit(unit))]

EndAt(date, unit) == IF date = NULL THEN NULL ELSE EndOf(date, unit)

(* The handlers that keep the reports in step; each leaves the other types   *)
(* alone.                                                                    *)
SyncedToProject(new, old) ==
  CASE type = "Narrative" ->
         Synced(reports,
                DiffBy(DateInterval(new.start, new.end), DateInterval(old.start, old.end),
                       Quarter),
                EndAt(new.end, Quarter))
    [] type = "Financial" /\ new.period # NULL ->
         Synced(reports, DiffFinancial(new, old),
                EndAt(new.end, UnitOf(new.period)))
    [] OTHER -> reports

(* From the engagement's range under old dates to that under new ones.       *)
SyncedToEngagement(new, old, end) ==
  IF type = "Progress"
  THEN Synced(reports, DiffBy(new, old, Quarter), EndAt(end, Quarter))
  ELSE reports

---------------------------------------------------------------------------
IsLive == engagement.state = "live"
Mou == DateInterval(project.start, project.end)

(* No override may lie outside of the project's dates.                       *)
OverridesConflict(mou) ==
  /\ IsLive
  /\ \/ NULL \notin {mou.start, engagement.start} /\ mou.start > engagement.start
     \/ NULL \notin {mou.end, engagement.end} /\ mou.end < engagement.end

(* The dates as the change request has them.                                 *)
Proposed(field, live) ==
  IF field \in DOMAIN request.changes THEN request.changes[field] ELSE live
ProposedProject ==
  [project EXCEPT !.start = Proposed("mouStart", @),
                  !.end   = Proposed("mouEnd", @)]
ProposedEngagement ==
  [engagement EXCEPT !.start = Proposed("overrideStart", @),
                     !.end   = Proposed("overrideEnd", @)]

NoChanges == [f \in {} |-> NULL]
Request(open, applied) == [open |-> open, applied |-> applied, changes |-> NoChanges]
Override(changes, new) ==
  [f \in DOMAIN changes \cup DOMAIN new |->
     IF f \in DOMAIN new THEN new[f] ELSE changes[f]]
Changed(new, old) ==
  [f \in {x \in DOMAIN new : new[x] # old[x]} |-> new[f]]

(* Bound on the inputs: the period changes, and an engagement exists, only   *)
(* where the reports followed depend on it.                                  *)
PeriodsOf(t) == IF t = "Financial" THEN Periods ELSE {NULL}

Init ==
  /\ type \in Types
  /\ \E s, e \in FirstDates \cup {NULL}, p \in PeriodsOf(type) :
       /\ Ordered(s, e)
       /\ project = [start |-> s, end |-> e, period |-> p]
       /\ born = IF type = "Progress" THEN NoRange ELSE DateInterval(s, e)
  /\ engagement = [state |-> "absent", start |-> NULL, end |-> NULL]
  /\ request = Request(FALSE, FALSE)
  /\ reports = {}
  /\ marks = 0
  /\ proposals = 0

(* updateProject, outside of a change request.                               *)
UpdateProject(s, e, p) ==
  LET new == [start |-> s, end |-> e, period |-> p]
      moved == s # project.start \/ e # project.end
      range == EngagementRange(engagement, new)
      prev == EngagementRange(engagement, project)
  IN  /\ new # project
      /\ Ordered(s, e) /\ IsValid(Mou)
      /\ moved => ~OverridesConflict(new)
      /\ moved /\ IsLive => IsValid(range) /\ IsValid(prev)
      /\ project' = new
      /\ reports' =
           IF moved /\ IsLive /\ type = "Progress"
           THEN SyncedToEngagement(range, prev, Or(engagement.end, e))
           ELSE SyncedToProject(new, project)
      /\ UNCHANGED <<engagement, request, fixed, counters>>

(* updateProject within the change request: the hook hands the proposed      *)
(* project to the same handlers; engagements are read as they are.           *)
ProposeProject(s, e) ==
  LET old == ProposedProject
      new == [old EXCEPT !.start = s, !.end = e]
      range == EngagementRange(engagement, project)
      prev == EngagementRange(engagement, old)
  IN  /\ request.open /\ proposals < MaxProposals
      /\ new # old
      /\ Ordered(s, e) /\ IsValid(DateInterval(old.start, old.end))
      /\ ~OverridesConflict(new)
      /\ IsLive => IsValid(range) /\ IsValid(prev)
      /\ request' = [request EXCEPT !.changes = Override(@,
           Changed([mouStart |-> s, mouEnd |-> e],
                   [mouStart |-> old.start, mouEnd |-> old.end]))]
      /\ reports' =
           IF IsLive /\ type = "Progress"
           THEN SyncedToEngagement(range, prev, Or(engagement.end, project.end))
           ELSE SyncedToProject(new, old)
      /\ proposals' = proposals + 1
      /\ UNCHANGED <<project, engagement, fixed, marks>>

CreateEngagement(s, e) ==
  LET eng == [state |-> "live", start |-> s, end |-> e]
      range == EngagementRange(eng, project)
  IN  /\ engagement.state = "absent"
      /\ Ordered(s, e)
      /\ IsValid(range)
      /\ engagement' = eng
      /\ reports' = SyncedToEngagement(range, NoRange, Or(e, project.end))
      /\ UNCHANGED <<project, request, fixed, counters>>

(* Within the change request no progress report is touched.                  *)
ProposeNewEngagement(s, e) ==
  /\ request.open /\ proposals < MaxProposals
  /\ engagement.state = "absent"
  /\ Ordered(s, e)
  /\ engagement' = [state |-> "proposed", start |-> s, end |-> e]
  /\ proposals' = proposals + 1
  /\ UNCHANGED <<project, request, reports, fixed, marks>>

(* An engagement that the request itself creates is updated in place, which  *)
(* takes an open request.                                                    *)
UpdateEngagement(s, e) ==
  LET new == [engagement EXCEPT !.start = s, !.end = e]
      range == EngagementRange(new, project)
      prev == EngagementRange(engagement, project)
  IN  /\ \/ IsLive /\ UNCHANGED proposals
         \/ /\ engagement.state = "proposed"
            /\ proposals < MaxProposals
            /\ proposals' = proposals + 1
      /\ new # engagement
      /\ Ordered(s, e)
      /\ IsValid(range) /\ IsValid(prev)
      /\ engagement' = new
      /\ reports' = SyncedToEngagement(range, prev, Or(e, project.end))
      /\ UNCHANGED <<project, request, fixed, marks>>

(* Live: the values join the request.  The hook compares the engagement as    *)
(* it is with what the request made of it before.                            *)
ProposeEngagement(s, e) ==
  LET old == ProposedEngagement
      range == EngagementRange(engagement, project)
      prev == DateInterval(Or(Or(old.start, engagement.start), project.start),
                    Or(Or(old.end, engagement.end), project.end))
  IN  /\ request.open /\ proposals < MaxProposals
      /\ IsLive
      /\ <<s, e>> # <<old.start, old.end>>
      /\ Ordered(s, e)
      /\ IsValid(range) /\ IsValid(prev)
      /\ request' = [request EXCEPT !.changes = Override(@,
           Changed([overrideStart |-> s, overrideEnd |-> e],
                   [overrideStart |-> old.start, overrideEnd |-> old.end]))]
      /\ reports' =
           SyncedToEngagement(range, prev, Or(engagement.end, project.end))
      /\ proposals' = proposals + 1
      /\ UNCHANGED <<project, engagement, fixed, marks>>

(* Bound: the financial reports, synced by the handler of the narrative ones, *)
(* are followed without change requests.                                     *)
OpenRequest ==
  /\ ~request.open /\ proposals < MaxProposals
  /\ type # "Financial"
  /\ request' = Request(TRUE, FALSE)
  /\ UNCHANGED <<project, engagement, reports, fixed, counters>>

(* The engagement the request created becomes one of the project.            *)
Finalized(eng) ==
  IF eng.state = "absent" THEN eng ELSE [eng EXCEPT !.state = "live"]

(* The proposed values become the values.  The update hook that is run for   *)
(* each engagement afterwards names no changed date, so that the progress    *)
(* reports stay as they are.                                                 *)
Approve ==
  /\ request.open
  /\ project' = ProposedProject
  /\ engagement' = Finalized(ProposedEngagement)
  /\ request' = Request(FALSE, TRUE)
  /\ UNCHANGED <<reports, fixed, counters>>

(* The proposed values are dropped; the engagement that was created is not.  *)
Reject ==
  /\ request.open
  /\ engagement' = Finalized(engagement)
  /\ request' = Request(FALSE, FALSE)
  /\ UNCHANGED <<project, reports, fixed, counters>>

(* A file is uploaded, or the progress report is started; or it is skipped,  *)
(* for a reason given.                                                       *)
Mark(r, mark) ==
  /\ marks < MaxMarks
  /\ r.mark = "none"
  /\ reports' = (reports \ {r}) \cup {[r EXCEPT !.mark = mark]}
  /\ marks' = marks + 1
  /\ UNCHANGED <<project, engagement, request, fixed, proposals>>

Next ==
  \/ \E s, e \in MaybeDates :
       \/ \E p \in PeriodsOf(type) : UpdateProject(s, e, p)
       \/ ProposeProject(s, e)
       \/ /\ type = "Progress"
          /\ \/ CreateEngagement(s, e)
             \/ ProposeNewEngagement(s, e)
             \/ UpdateEngagement(s, e)
             \/ ProposeEngagement(s, e)
  \/ OpenRequest \/ Approve \/ Reject
  \/ \E r \in reports, mark \in {"filled", "skipped"} : Mark(r, mark)

Spec == Init /\ [][Next]_vars

---------------------------------------------------------------------------
(* Properties.  Direct: no save was made within a change request.            *)

Direct == proposals = 0

(* The dates the reports are for, and the unit they are due in.              *)
Due == IF type = "Progress"
       THEN IF IsLive THEN EngagementRange(engagement, project) ELSE NoRange
       ELSE IF type = "Financial" /\ project.period = NULL THEN NoRange
       ELSE Mou
Unit == IF type = "Financial" THEN UnitOf(project.period) ELSE Quarter
Finals == {r \in reports : IsFinal(r)}

(* Every variable has its type, and no two reports of a type share an        *)
(* interval, which the deterministic ids of the repository rely on.          *)
TypeOK ==
  /\ project \in [start : MaybeDates, end : MaybeDates, period : Periods]
  /\ engagement \in [state : {"absent", "proposed", "live"},
                     start : MaybeDates, end : MaybeDates]
  /\ request.open \in BOOLEAN /\ request.applied \in BOOLEAN
  /\ DOMAIN request.changes \in SUBSET Fields
  /\ \A f \in DOMAIN request.changes : request.changes[f] \in MaybeDates
  /\ type \in Types
  /\ \A r \in reports :
       /\ r.start \in Nat /\ r.end \in Nat /\ r.start <= r.end
       /\ r.mark \in {"none", "filled", "skipped"}
       /\ \A q \in reports : IsAt(q, r) => q = r
  /\ marks \in 0 .. MaxMarks
  /\ proposals \in 0 .. MaxProposals

(* Every quarter, or month, of the dates has its report, whatever sequence   *)
(* of saves led to them; except, maybe, in the range the project was created *)
(* with, which nothing syncs (diffBy, diffFinancial).                        *)
Covered(units) == \A i \in units : \E r \in reports : IsAt(r, i)
EveryPeriodHasReport ==
  Direct => Covered(Units(Due, Unit) \ Units(born, Unit))

(* A report that nobody has filled in is not outside of the dates: "there    *)
(* shouldn't be reports outside it" (abstract-periodic-report-sync.ts).  It  *)
(* is of their unit, too, unless it is the final one, or a financial one     *)
(* that outlived its period being cleared.                                   *)
EmptyReportsWithinDates ==
  Direct /\ Due # NoRange =>
    LET full == Full(Due, Unit) IN
    \A r \in reports : Deletable(r) =>
      /\ r.start <= full.end /\ full.start <= r.end
      /\ type = "Financial" \/ IsFinal(r)
           \/ \E i \in Units(Due, Unit) : IsAt(r, i)

(* One final report at most, however often the end was moved, and once the   *)
(* dates are known and synced it is that of the end (mergeFinalReport).      *)
FinalReportAtEnd ==
  /\ Cardinality(Finals) <= 1
  /\ Direct /\ Due \notin {NoRange, born} =>
       \E r \in Finals : r.end = EndOf(Due.end, Unit)

(* A report that was filled in is never lost, also by saves within a change  *)
(* request that is rejected: it keeps its interval, or, as the final one,    *)
(* moves with the end (periodic-report.repository.ts, delete).               *)
FilledReportsAreKept ==
  [][\A r \in reports : r.mark = "filled" =>
       \E q \in reports' :
         /\ q.mark = "filled"
         /\ IsAt(q, r) \/ (IsFinal(q) /\ IsFinal(r))]_vars

(* What is due today is the period that most recently completed (the         *)
(* description of currentNarrativeReportDue): the final report, which ends   *)
(* on the same day, never stands in for it.                                  *)
(* A bug that would break a property: of two that end then, the later start.  *)
BugShortestFirst(today) ==
  {r \in reports : /\ r.end < today
                   /\ \A q \in reports : q.end < today =>
                        \/ q.end < r.end
                        \/ q.end = r.end /\ q.start <= r.start}
CurrentDue(today) ==
  {r \in reports : /\ r.end < today
                   /\ \A q \in reports : q.end < today =>
                        \/ q.end < r.end
                        \/ q.end = r.end /\ q.start >= r.start}
DueIsLastCompleted ==
  (Direct /\ type = "Narrative" /\ born = NoRange) =>
    \A i \in Units(Mou, Quarter) :
      \E r \in CurrentDue(i.end + 1) : IsAt(r, i)

(* A change request that is rejected changes nothing: its "applied" says      *)
(* "Whether the changes have been applied to live data" (changeset.dto.ts).  *)
RejectedIsNotApplied ==
  [][request.open /\ ~request'.open /\ ~request'.applied =>
       /\ project' = project
       /\ (engagement'.state = "live") = IsLive]_vars
===========================================================================
