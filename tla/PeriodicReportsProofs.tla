----------------------- MODULE PeriodicReportsProofs -----------------------
(* That no report a user filled in is lost, and that the reports match the   *)
(* dates, for every calendar and every number of saves.                      *)
EXTENDS PeriodicReports, FiniteSetTheorems, TLAPS

(* A report keeps its interval, or, as the final one, moves to the end.      *)
Kept(r, rs) ==
  \E q \in rs : /\ q.mark = "filled"
                /\ IsAt(q, r) \/ (IsFinal(q) /\ IsFinal(r))

LEMMA WithFinalKeeps ==
  ASSUME NEW rs, NEW at, NEW r \in rs, r.mark = "filled"
  PROVE  Kept(r, WithFinal(rs, at))
<1> DEFINE day == [start |-> at, end |-> at]
           finals == {x \in rs : IsFinal(x)}
           final == CHOOSE x \in finals : TRUE
<1>1. CASE at = NULL
  BY <1>1 DEF WithFinal, Kept, IsAt
<1>2. CASE at # NULL /\ finals = {}
  <2>1. r \in WithFinal(rs, at)
    BY <1>2 DEF WithFinal, Merged
  <2> QED BY <2>1 DEF Kept, IsAt
<1>3. CASE at # NULL /\ finals # {}
  <2>1. final \in finals
    BY <1>3
  <2>2. WithFinal(rs, at) = (rs \ {final}) \cup {Report(day, final.mark)}
    BY <1>3 DEF WithFinal
  <2>3. CASE r # final
    <3>1. r \in WithFinal(rs, at)
      BY <2>2, <2>3
    <3> QED BY <3>1 DEF Kept, IsAt
  <2>4. CASE r = final
    <3>1. /\ Report(day, final.mark) \in WithFinal(rs, at)
          /\ Report(day, final.mark).mark = "filled"
          /\ IsFinal(Report(day, final.mark))
      BY <2>2, <2>4 DEF Report, IsFinal
    <3>2. IsFinal(r)
      BY <2>1, <2>4
    <3> QED BY <3>1, <3>2 DEF Kept
  <2> QED BY <2>3, <2>4
<1> QED BY <1>1, <1>2, <1>3

LEMMA SyncedKeeps ==
  ASSUME NEW diff, NEW at, NEW r \in reports, r.mark = "filled"
  PROVE  Kept(r, Synced(reports, diff, at))
<1> DEFINE rest == Merged(reports \ Deleted(reports, diff.removals, diff.range),
                          diff.additions)
<1>1. r \in rest
  BY DEF Merged, Deleted, Deletable
<1>2. Kept(r, WithFinal(rest, at))
  <2> HIDE DEF rest
  <2> QED BY <1>1, WithFinalKeeps
<1> QED BY <1>2 DEF Synced

LEMMA SyncsKeep ==
  ASSUME NEW r \in reports, r.mark = "filled"
  PROVE  /\ Kept(r, reports)
         /\ \A new, old : Kept(r, SyncedToProject(new, old))
         /\ \A new, old, end : Kept(r, SyncedToEngagement(new, old, end))
<1>1. Kept(r, reports)
  BY DEF Kept, IsAt
<1>2. ASSUME NEW new, NEW old
      PROVE  Kept(r, SyncedToProject(new, old))
  <2>1. CASE type = "Narrative"
    BY <2>1, SyncedKeeps DEF SyncedToProject
  <2>2. CASE type = "Financial" /\ new.period # NULL
    BY <2>2, SyncedKeeps DEF SyncedToProject
  <2>3. CASE type # "Narrative" /\ ~(type = "Financial" /\ new.period # NULL)
    BY <2>3, <1>1 DEF SyncedToProject
  <2> QED BY <2>1, <2>2, <2>3
<1>3. ASSUME NEW new, NEW old, NEW end
      PROVE  Kept(r, SyncedToEngagement(new, old, end))
  BY <1>1, SyncedKeeps DEF SyncedToEngagement
<1> QED BY <1>1, <1>2, <1>3

(* A report that was filled in is never lost (periodic-report.repository.ts, *)
(* delete), whatever is saved, proposed, approved or rejected.               *)
THEOREM FilledKept == Spec => FilledReportsAreKept
<1>1. ASSUME [Next]_vars
      PROVE  \A r \in reports : r.mark = "filled" => Kept(r, reports')
  <2> SUFFICES ASSUME NEW r \in reports, r.mark = "filled"
               PROVE  Kept(r, reports')
    OBVIOUS
  <2>1. CASE UNCHANGED reports
    BY <2>1, SyncsKeep
  <2>2. ASSUME NEW s, NEW e, NEW p, UpdateProject(s, e, p)
        PROVE  Kept(r, reports')
    BY <2>2, SyncsKeep DEF UpdateProject
  <2>3. ASSUME NEW s, NEW e, ProposeProject(s, e)
        PROVE  Kept(r, reports')
    BY <2>3, SyncsKeep DEF ProposeProject
  <2>4. ASSUME NEW s, NEW e, \/ CreateEngagement(s, e)
                             \/ UpdateEngagement(s, e)
                             \/ ProposeEngagement(s, e)
        PROVE  Kept(r, reports')
    BY <2>4, SyncsKeep
    DEF CreateEngagement, UpdateEngagement, ProposeEngagement
  <2>5. ASSUME NEW x \in reports, NEW mark, Mark(x, mark)
        PROVE  Kept(r, reports')
    <3>1. r # x /\ r \in reports'
      BY <2>5 DEF Mark
    <3> QED BY <3>1 DEF Kept, IsAt
  <2> QED
    BY <1>1, <2>1, <2>2, <2>3, <2>4, <2>5
    DEF Next, vars, ProposeNewEngagement, OpenRequest, Approve, Reject
<1>2. [Next]_vars => \A r \in reports : r.mark = "filled" =>
        \E q \in reports' :
          /\ q.mark = "filled"
          /\ IsAt(q, r) \/ (IsFinal(q) /\ IsFinal(r))
  BY <1>1 DEF Kept
<1> QED BY <1>2, PTL DEF Spec, FilledReportsAreKept
---------------------------------------------------------------------------
(* The calendar.                                                             *)

LEMMA UnitsAreLong == \A period : UnitOf(period) \in Nat /\ UnitOf(period) > 1
<1>1. Quarter \in Nat /\ Month \in Nat /\ Month > 1 /\ Quarter > 0 /\ Quarter % Month = 0
  BY CalendarAssumption
<1>2. Quarter > 1
  <2>1. SUFFICES ASSUME Quarter = 1 PROVE FALSE
    BY <1>1
  <2> QED BY <1>1, <2>1
<1> QED BY <1>1, <1>2 DEF UnitOf

LEMMA StartOfMeans ==
  ASSUME NEW u \in Nat, u > 1, NEW d \in Nat
  PROVE  /\ StartOf(d, u) \in Nat /\ StartOf(d, u) <= d /\ d < StartOf(d, u) + u
         /\ EndOf(d, u) = StartOf(d, u) + u - 1
         /\ EndOf(d, u) \in Nat /\ StartOf(d, u) < EndOf(d, u)
<1>1. d % u \in Nat /\ d % u < u /\ d % u <= d
  OBVIOUS
<1> QED BY <1>1 DEF StartOf, EndOf

LEMMA Division ==
  ASSUME NEW u \in Nat, u > 1, NEW d \in Nat
  PROVE  /\ d = (u * (d \div u)) + (d % u) /\ d \div u \in Nat
         /\ d % u \in Nat /\ d % u < u
OBVIOUS

LEMMA Multiples ==
  ASSUME NEW u \in Nat, u > 1, NEW k \in Nat, NEW l \in Nat, k < l
  PROVE  (u * k) + u <= u * l /\ u * k \in Nat /\ u * l \in Nat
OBVIOUS

LEMMA StartOfOrdered ==
  ASSUME NEW u \in Nat, u > 1, NEW d \in Nat, NEW e \in Nat, d <= e
  PROVE  StartOf(d, u) <= StartOf(e, u) /\ EndOf(d, u) <= EndOf(e, u)
<1>1. d - (d % u) <= e - (e % u)
  <2> DEFINE k == d \div u
             l == e \div u
  <2>1. /\ d = (u * k) + (d % u) /\ k \in Nat /\ d % u \in Nat /\ d % u < u
        /\ e = (u * l) + (e % u) /\ l \in Nat /\ e % u \in Nat /\ e % u < u
    BY Division
  <2>2. u * k \in Nat /\ u * l \in Nat
    BY <2>1
  <2> HIDE DEF k, l
  <2>3. CASE l < k
    <3>1. (u * l) + u <= u * k
      BY <2>1, <2>3, Multiples
    <3> QED BY <2>1, <2>2, <3>1
  <2>4. CASE k = l
    BY <2>1, <2>2, <2>4
  <2>5. CASE k < l
    <3>1. (u * k) + u <= u * l
      BY <2>1, <2>5, Multiples
    <3> QED BY <2>1, <2>2, <3>1
  <2> QED BY <2>1, <2>3, <2>4, <2>5
<1>2. StartOf(d, u) <= StartOf(e, u)
  BY <1>1 DEF StartOf
<1>3. StartOf(d, u) \in Nat /\ StartOf(e, u) \in Nat
  BY StartOfMeans
<1> QED BY <1>2, <1>3 DEF EndOf

(* The dates something is for: known, and in order, or none.                  *)
Days == [start : Nat, end : Nat]
IsRange(range) == range = NoRange \/ (range \in Days /\ range.start <= range.end)

LEMMA NoRangeIsNone == NoRange \notin Days
BY CalendarAssumption DEF NoRange, Days

(* The units of a range are intervals within it, expanded to full units.      *)
LEMMA UnitsMean ==
  ASSUME NEW u \in Nat, u > 1, NEW range, IsRange(range), NEW i \in Units(range, u)
  PROVE  /\ range \in Days /\ range # NoRange /\ i \in Days /\ i.end = i.start + u - 1
         /\ i.start < i.end
         /\ Full(range, u) \in Days
         /\ Full(range, u).start <= i.start /\ i.end <= Full(range, u).end
<1>1. range # NoRange /\ range \in Days /\ range.start \in Nat /\ range.end \in Nat
  BY DEF Units, IsRange, Days
<1>2. PICK x \in range.start .. range.end :
        i = [start |-> StartOf(x, u), end |-> StartOf(x, u) + u - 1]
  BY <1>1 DEF Units
<1>3. x \in Nat /\ range.start <= x /\ x <= range.end
  BY <1>1
<1>4. Full(range, u) = [start |-> StartOf(range.start, u), end |-> EndOf(range.end, u)]
  BY <1>1 DEF Full
<1>5. /\ StartOf(x, u) \in Nat /\ EndOf(x, u) \in Nat /\ StartOf(x, u) < EndOf(x, u)
      /\ EndOf(x, u) = StartOf(x, u) + u - 1
      /\ StartOf(range.start, u) \in Nat /\ EndOf(range.end, u) \in Nat
  BY <1>1, <1>3, StartOfMeans
<1>6. StartOf(range.start, u) <= StartOf(x, u) /\ EndOf(x, u) <= EndOf(range.end, u)
  BY <1>1, <1>3, StartOfOrdered
<1> QED BY <1>1, <1>2, <1>4, <1>5, <1>6 DEF Days

LEMMA NoUnits == \A u : Units(NoRange, u) = {}
BY DEF Units

LEMMA FullMeans ==
  ASSUME NEW u \in Nat, u > 1, NEW range, IsRange(range), range # NoRange
  PROVE  /\ Full(range, u) \in Days /\ Full(range, u) # NoRange
         /\ Full(range, u).start < Full(range, u).end
         /\ Full(range, u).end = EndOf(range.end, u)
<1>1. range \in Days /\ range.start \in Nat /\ range.end \in Nat /\ range.start <= range.end
  BY DEF IsRange, Days
<1>2. Full(range, u) = [start |-> StartOf(range.start, u), end |-> EndOf(range.end, u)]
  BY DEF Full
<1>3. /\ StartOf(range.start, u) \in Nat /\ EndOf(range.end, u) \in Nat
      /\ StartOf(range.end, u) \in Nat /\ StartOf(range.end, u) < EndOf(range.end, u)
  BY <1>1, StartOfMeans
<1>4. StartOf(range.start, u) <= StartOf(range.end, u)
  BY <1>1, StartOfOrdered
<1>5. Full(range, u) \in Days
  BY <1>2, <1>3 DEF Days
<1> QED BY <1>2, <1>3, <1>4, <1>5, NoRangeIsNone
---------------------------------------------------------------------------
(* Syncing: reports are well formed, of one interval each and one at most    *)
(* final, and the diff decides which there are.                              *)

AReport == [start : Nat, end : Nat, mark : {"none", "filled", "skipped"}]
WellFormed(rs) ==
  /\ \A r \in rs : r \in AReport /\ r.start <= r.end
  /\ \A q, r \in rs : IsAt(q, r) => q = r
  /\ \A q, r \in rs : IsFinal(q) /\ IsFinal(r) => q = r

Stays(r, diff) == ~(/\ Deletable(r)
                    /\ Outside(r, diff.range) \/ \E i \in diff.removals : IsAt(r, i))
HasAt(rs, i) == \E r \in rs : IsAt(r, i)

LEMMA MergedMeans ==
  ASSUME NEW rs, WellFormed(rs), NEW additions,
         \A i \in additions : i \in Days /\ i.start <= i.end,
         \A i, j \in additions : i.start = i.end /\ j.start = j.end => i = j,
         (\E i \in additions : i.start = i.end) => ~\E r \in rs : IsFinal(r)
  PROVE  /\ WellFormed(Merged(rs, additions))
         /\ rs \subseteq Merged(rs, additions)
         /\ \A i \in additions : HasAt(Merged(rs, additions), i)
         /\ \A r \in Merged(rs, additions) : r \in rs \/ \E i \in additions : IsAt(r, i)
<1> DEFINE fresh == {x \in additions : \A r \in rs : ~IsAt(r, x)}
           made == {Report(i, "none") : i \in fresh}
           all == Merged(rs, additions)
<1>1. all = rs \cup made
  BY DEF Merged
<1>2. ASSUME NEW r \in made
      PROVE  /\ r \in AReport /\ r.start <= r.end
             /\ \E i \in fresh : r = Report(i, "none") /\ IsAt(r, i)
             /\ \A q \in rs : ~IsAt(q, r)
  <2>1. PICK i \in fresh : r = Report(i, "none")
    OBVIOUS
  <2>2. i \in Days /\ i.start <= i.end /\ r.start = i.start /\ r.end = i.end
    BY <2>1 DEF Report
  <2>3. IsAt(r, i) /\ r \in AReport
    BY <2>1, <2>2 DEF IsAt, Report, AReport, Days
  <2>4. \A q \in rs : ~IsAt(q, r)
    BY <2>2 DEF IsAt
  <2> QED BY <2>1, <2>2, <2>3, <2>4
<1>3. ASSUME NEW q \in made, NEW r \in made, IsAt(q, r) \/ (IsFinal(q) /\ IsFinal(r))
      PROVE  q = r
  <2>1. PICK i \in fresh : q = Report(i, "none") /\ IsAt(q, i)
    BY <1>2
  <2>2. PICK j \in fresh : r = Report(j, "none") /\ IsAt(r, j)
    BY <1>2
  <2>3. i \in Days /\ j \in Days
    OBVIOUS
  <2>4. CASE IsAt(q, r)
    <3>1. i.start = j.start /\ i.end = j.end
      BY <2>1, <2>2, <2>4 DEF IsAt
    <3> QED BY <2>1, <2>2, <2>3, <3>1 DEF Days
  <2>5. CASE IsFinal(q) /\ IsFinal(r)
    <3>1. i.start = i.end /\ j.start = j.end
      BY <2>1, <2>2, <2>5 DEF IsAt, IsFinal
    <3> QED BY <2>1, <2>2, <3>1
  <2> QED BY <1>3, <2>4, <2>5
<1>4. ASSUME NEW q \in rs, NEW r \in made
      PROVE  ~IsAt(q, r) /\ ~IsAt(r, q) /\ ~(IsFinal(q) /\ IsFinal(r))
  <2>1. ~IsAt(q, r)
    BY <1>2
  <2>2. PICK i \in fresh : IsAt(r, i)
    BY <1>2
  <2> QED BY <2>1, <2>2 DEF IsAt, IsFinal
<1>5. WellFormed(all)
  <2> HIDE DEF made, all
  <2>1. \A r \in all : r \in AReport /\ r.start <= r.end
    BY <1>1, <1>2 DEF WellFormed
  <2>2. \A q, r \in all : IsAt(q, r) => q = r
    BY <1>1, <1>3, <1>4 DEF WellFormed
  <2>3. \A q, r \in all : IsFinal(q) /\ IsFinal(r) => q = r
    BY <1>1, <1>3, <1>4 DEF WellFormed
  <2> QED BY <2>1, <2>2, <2>3 DEF WellFormed
<1>6. ASSUME NEW i \in additions PROVE HasAt(all, i)
  <2>1. CASE i \in fresh
    <3>1. Report(i, "none") \in all /\ IsAt(Report(i, "none"), i)
      BY <1>1, <2>1 DEF Report, IsAt
    <3> QED BY <3>1 DEF HasAt
  <2>2. CASE i \notin fresh
    BY <1>1, <2>2 DEF HasAt
  <2> QED BY <2>1, <2>2
<1> QED BY <1>1, <1>2, <1>5, <1>6

LEMMA WithFinalMeans ==
  ASSUME NEW rs, WellFormed(rs), NEW at \in Nat \cup {NULL}
  PROVE  /\ WellFormed(WithFinal(rs, at))
         /\ \A r \in rs : ~IsFinal(r) => r \in WithFinal(rs, at)
         /\ at # NULL => \E r \in WithFinal(rs, at) : IsFinal(r) /\ r.end = at
         /\ \A r \in WithFinal(rs, at) :
              r \in rs \/ (at # NULL /\ r.start = at /\ r.end = at)
<1> DEFINE day == [start |-> at, end |-> at]
           finals == {x \in rs : IsFinal(x)}
           final == CHOOSE x \in finals : TRUE
<1>1. CASE at = NULL
  BY <1>1 DEF WithFinal
<1>2. CASE at # NULL /\ finals = {}
  <2>1. WithFinal(rs, at) = Merged(rs, {day}) /\ day \in Days /\ at \in Nat
    BY <1>2 DEF WithFinal, Days
  <2>2. /\ WellFormed(Merged(rs, {day})) /\ rs \subseteq Merged(rs, {day})
        /\ HasAt(Merged(rs, {day}), day)
        /\ \A r \in Merged(rs, {day}) : r \in rs \/ IsAt(r, day)
    BY <1>2, <2>1, MergedMeans
  <2> QED BY <1>2, <2>1, <2>2 DEF HasAt, IsAt, IsFinal
<1>3. CASE at # NULL /\ finals # {}
  <2> DEFINE moved == Report(day, final.mark)
  <2>1. final \in rs /\ IsFinal(final) /\ at \in Nat
    BY <1>3
  <2>2. WithFinal(rs, at) = (rs \ {final}) \cup {moved}
    BY <1>3 DEF WithFinal
  <2>3. \A r \in rs : IsFinal(r) => r = final
    BY <2>1 DEF WellFormed
  <2>4. /\ moved \in AReport /\ moved.start = at /\ moved.end = at /\ IsFinal(moved)
    BY <2>1 DEF WellFormed, AReport, Report, IsFinal
  <2> HIDE DEF moved, final
  <2>5. \A r \in rs \ {final} : ~IsAt(r, moved) /\ ~IsAt(moved, r)
    BY <2>3, <2>4 DEF IsAt, IsFinal
  <2>6. WellFormed((rs \ {final}) \cup {moved})
    BY <2>1, <2>3, <2>4, <2>5 DEF WellFormed
  <2>7. \E r \in (rs \ {final}) \cup {moved} : IsFinal(r) /\ r.end = at
    BY <2>4
  <2> QED BY <1>3, <2>1, <2>2, <2>4, <2>6, <2>7
<1> QED BY <1>1, <1>2, <1>3

LEMMA SyncedMeans ==
  ASSUME NEW rs, WellFormed(rs), NEW diff, NEW at \in Nat \cup {NULL},
         \A i \in diff.additions : i \in Days /\ i.start < i.end
  PROVE  /\ WellFormed(Synced(rs, diff, at))
         /\ \A i \in diff.additions : HasAt(Synced(rs, diff, at), i)
         /\ \A r \in rs : Stays(r, diff) /\ ~IsFinal(r) => r \in Synced(rs, diff, at)
         /\ at # NULL => \E r \in Synced(rs, diff, at) : IsFinal(r) /\ r.end = at
         /\ \A r \in Synced(rs, diff, at) :
              \/ r \in rs /\ Stays(r, diff)
              \/ \E i \in diff.additions : IsAt(r, i)
              \/ at # NULL /\ r.start = at /\ r.end = at
<1> DEFINE left == rs \ Deleted(rs, diff.removals, diff.range)
           merged == Merged(left, diff.additions)
           all == WithFinal(merged, at)
<1>0. Synced(rs, diff, at) = all
  BY DEF Synced
<1>1. \A r : r \in left <=> r \in rs /\ Stays(r, diff)
  BY DEF Deleted, Stays
<1>2. WellFormed(left)
  BY DEF WellFormed
<1> HIDE DEF left
<1>3. \A i \in diff.additions : i.start <= i.end /\ i.start # i.end
  BY DEF Days
<1>4. /\ WellFormed(merged) /\ left \subseteq merged
      /\ \A i \in diff.additions : HasAt(merged, i)
      /\ \A r \in merged : r \in left \/ \E i \in diff.additions : IsAt(r, i)
  BY <1>2, <1>3, MergedMeans
<1> HIDE DEF merged
<1>5. /\ WellFormed(all)
      /\ \A r \in merged : ~IsFinal(r) => r \in all
      /\ at # NULL => \E r \in all : IsFinal(r) /\ r.end = at
      /\ \A r \in all : r \in merged \/ (at # NULL /\ r.start = at /\ r.end = at)
  BY <1>4, WithFinalMeans
<1> HIDE DEF all
<1>6. ASSUME NEW i \in diff.additions PROVE HasAt(all, i)
  <2>1. PICK r \in merged : IsAt(r, i)
    BY <1>4 DEF HasAt
  <2>2. ~IsFinal(r)
    BY <1>3, <2>1 DEF IsAt, IsFinal
  <2> QED BY <1>5, <2>1, <2>2 DEF HasAt
<1> QED BY <1>0, <1>1, <1>4, <1>5, <1>6
---------------------------------------------------------------------------
(* How reports match the dates they are due for.                             *)

Covers(rs, due, u, b) == \A i \in Units(due, u) \ Units(b, u) : HasAt(rs, i)
Within(rs, due, u) ==
  due # NoRange => \A r \in rs : Deletable(r) =>
    r.start <= Full(due, u).end /\ Full(due, u).start <= r.end
OfUnits(rs, due, u) ==
  \A r \in rs : Deletable(r) => IsFinal(r) \/ \E i \in Units(due, u) : IsAt(r, i)
EndsAt(rs, due, u) == \E r \in rs : IsFinal(r) /\ r.end = EndOf(due.end, u)
Whole(rs, u) == \A r \in rs : IsFinal(r) \/ r.end = r.start + u - 1

LEMMA DiffMeans ==
  ASSUME NEW u \in Nat, u > 1, NEW rs, WellFormed(rs), NEW new, IsRange(new),
         NEW diff, diff.range = Full(new, u), diff.additions \subseteq Units(new, u),
         NEW at \in Nat \cup {NULL}, new # NoRange => at = EndOf(new.end, u)
  PROVE  /\ WellFormed(Synced(rs, diff, at))
         /\ Within(Synced(rs, diff, at), new, u)
         /\ new # NoRange => EndsAt(Synced(rs, diff, at), new, u)
         /\ Whole(rs, u) => Whole(Synced(rs, diff, at), u)
         /\ \A i \in diff.additions : HasAt(Synced(rs, diff, at), i)
         /\ \A r \in rs : Stays(r, diff) /\ ~IsFinal(r) => r \in Synced(rs, diff, at)
         /\ \A r \in Synced(rs, diff, at) :
              \/ r \in rs /\ Stays(r, diff)
              \/ \E i \in diff.additions : IsAt(r, i)
              \/ IsFinal(r)
<1> DEFINE S == Synced(rs, diff, at)
           full == Full(new, u)
<1>1. \A i \in diff.additions :
         /\ new # NoRange /\ i \in Days /\ i.end = i.start + u - 1 /\ i.start < i.end
         /\ full \in Days /\ full.start <= i.start /\ i.end <= full.end
  BY UnitsMean
<1>2. /\ WellFormed(S)
      /\ \A i \in diff.additions : HasAt(S, i)
      /\ \A r \in rs : Stays(r, diff) /\ ~IsFinal(r) => r \in S
      /\ at # NULL => \E r \in S : IsFinal(r) /\ r.end = at
      /\ \A r \in S :
              \/ r \in rs /\ Stays(r, diff)
              \/ \E i \in diff.additions : IsAt(r, i)
              \/ at # NULL /\ r.start = at /\ r.end = at
  BY <1>1, SyncedMeans
<1> HIDE DEF S
<1>3. ASSUME new # NoRange
      PROVE  /\ full \in Days /\ full # NoRange /\ full.start < full.end
             /\ full.end = at /\ at # NULL
  <2>1. full \in Days /\ full # NoRange /\ full.start < full.end /\ full.end = EndOf(new.end, u)
    BY <1>3, FullMeans
  <2>2. at \in Nat
    BY <1>3, <2>1 DEF Days
  <2> QED BY <1>3, <2>1, <2>2, CalendarAssumption
<1>4. Within(S, new, u)
  <2> SUFFICES ASSUME new # NoRange, NEW r \in S, Deletable(r)
               PROVE  r.start <= full.end /\ full.start <= r.end
    BY DEF Within
  <2>0. /\ full.start \in Nat /\ full.end \in Nat
        /\ r.start \in Nat /\ r.end \in Nat /\ r.start <= r.end
    BY <1>2, <1>3 DEF Days, WellFormed, AReport
  <2>1. CASE r \in rs /\ Stays(r, diff)
    <3>1. ~(r.end <= full.start) /\ ~(r.start >= full.end)
      BY <1>3, <2>1 DEF Stays, Outside
    <3> QED BY <2>0, <3>1
  <2>2. CASE \E i \in diff.additions : IsAt(r, i)
    <3>1. PICK i \in diff.additions : r.start = i.start /\ r.end = i.end
      BY <2>2 DEF IsAt
    <3> QED BY <1>1, <2>0, <3>1
  <2>3. CASE r.start = at /\ r.end = at
    BY <1>3, <2>0, <2>3
  <2> QED BY <1>2, <2>1, <2>2, <2>3
<1>5. new # NoRange => EndsAt(S, new, u)
  BY <1>2, <1>3 DEF EndsAt
<1>6. Whole(rs, u) => Whole(S, u)
  BY <1>1, <1>2 DEF Whole, IsFinal, IsAt
<1> QED BY <1>2, <1>4, <1>5, <1>6 DEF S, IsFinal

LEMMA DiffByMeans ==
  ASSUME NEW u \in Nat, u > 1, NEW rs, WellFormed(rs), NEW new, IsRange(new),
         NEW old, IsRange(old), NEW at \in Nat \cup {NULL},
         new # NoRange => at = EndOf(new.end, u)
  PROVE  /\ WellFormed(Synced(rs, DiffBy(new, old, u), at))
         /\ Within(Synced(rs, DiffBy(new, old, u), at), new, u)
         /\ new # NoRange => EndsAt(Synced(rs, DiffBy(new, old, u), at), new, u)
         /\ Whole(rs, u) => Whole(Synced(rs, DiffBy(new, old, u), at), u)
         /\ \A b : Covers(rs, old, u, b) =>
              Covers(Synced(rs, DiffBy(new, old, u), at), new, u, b)
         /\ OfUnits(rs, old, u) => OfUnits(Synced(rs, DiffBy(new, old, u), at), new, u)
<1> DEFINE diff == DiffBy(new, old, u)
           S == Synced(rs, diff, at)
<1>1. /\ diff.range = Full(new, u)
      /\ diff.additions = Units(new, u) \ Units(old, u)
      /\ diff.removals = Units(old, u) \ Units(new, u)
  BY DEF DiffBy
<1> HIDE DEF diff
<1>2. /\ WellFormed(S) /\ Within(S, new, u)
      /\ new # NoRange => EndsAt(S, new, u)
      /\ Whole(rs, u) => Whole(S, u)
      /\ \A i \in diff.additions : HasAt(S, i)
      /\ \A r \in rs : Stays(r, diff) /\ ~IsFinal(r) => r \in S
      /\ \A r \in S : \/ r \in rs /\ Stays(r, diff)
                      \/ \E i \in diff.additions : IsAt(r, i)
                      \/ IsFinal(r)
  BY <1>1, DiffMeans
<1> HIDE DEF S
<1>3. ASSUME NEW b, Covers(rs, old, u, b), NEW i \in Units(new, u) \ Units(b, u)
      PROVE  HasAt(S, i)
  <2>1. CASE i \notin Units(old, u)
    BY <1>1, <1>2, <2>1
  <2>2. CASE i \in Units(old, u)
    <3>1. PICK r \in rs : IsAt(r, i)
      BY <1>3, <2>2 DEF Covers, HasAt
    <3>2. /\ i \in Days /\ i.start < i.end /\ Full(new, u) \in Days
          /\ Full(new, u).start <= i.start /\ i.end <= Full(new, u).end
      BY <1>3, UnitsMean
    <3>3. ~Outside(r, diff.range)
      BY <1>1, <3>1, <3>2 DEF Outside, IsAt, Days
    <3>4. ASSUME NEW j \in diff.removals, IsAt(r, j) PROVE FALSE
      <4>1. j \in Days
        BY <1>1, UnitsMean
      <4>2. j.start = i.start /\ j.end = i.end
        BY <3>1, <3>4 DEF IsAt
      <4>3. j = i
        BY <3>2, <4>1, <4>2 DEF Days
      <4> QED BY <1>1, <1>3, <4>3
    <3>5. Stays(r, diff) /\ ~IsFinal(r)
      BY <3>1, <3>2, <3>3, <3>4 DEF Stays, IsFinal, IsAt, Days
    <3> QED BY <1>2, <3>1, <3>5 DEF HasAt
  <2> QED BY <2>1, <2>2
<1>4. ASSUME OfUnits(rs, old, u), NEW r \in S, Deletable(r), ~IsFinal(r)
      PROVE  \E i \in Units(new, u) : IsAt(r, i)
  <2>1. CASE r \in rs /\ Stays(r, diff)
    <3>1. PICK i \in Units(old, u) : IsAt(r, i)
      BY <1>4, <2>1 DEF OfUnits
    <3>2. i \notin diff.removals
      BY <1>4, <2>1, <3>1 DEF Stays
    <3> QED BY <1>1, <3>1, <3>2
  <2>2. CASE \E i \in diff.additions : IsAt(r, i)
    BY <1>1, <2>2
  <2> QED BY <1>2, <1>4, <2>1, <2>2
<1> QED BY <1>2, <1>3, <1>4 DEF S, diff, Covers, OfUnits
Matches(rs, due, u, b, kind) ==
  /\ Covers(rs, due, u, b)
  /\ Within(rs, due, u)
  /\ kind # "Financial" => OfUnits(rs, due, u) /\ Whole(rs, Quarter)
  /\ due \notin {NoRange, b} => EndsAt(rs, due, u)

---------------------------------------------------------------------------
(* The invariant.                                                            *)

Projects    == [start : MaybeDates, end : MaybeDates, period : Periods]
Engagements == [state : {"absent", "proposed", "live"},
                start : MaybeDates, end : MaybeDates]
Changes     == UNION {[F -> MaybeDates] : F \in SUBSET Fields}
Requests    == [open : BOOLEAN, applied : BOOLEAN, changes : Changes]

Typed ==
  /\ project \in Projects /\ engagement \in Engagements /\ request \in Requests
  /\ type \in Types
  /\ WellFormed(reports)
  /\ marks \in 0 .. MaxMarks /\ proposals \in 0 .. MaxProposals

(* Until something is saved within a change request, a request that is open   *)
(* changes nothing, and the reports match the dates.                          *)
InStep ==
  Direct => /\ DOMAIN request.changes = {}
            /\ engagement.state # "proposed"
            /\ Matches(reports, Due, Unit, born, type)

LEMMA RangeMeans ==
  ASSUME NEW s \in MaybeDates, NEW e \in MaybeDates
  PROVE  /\ DateInterval(s, e) \in Days \cup {NoRange}
         /\ Ordered(s, e) => IsRange(DateInterval(s, e))
         /\ IsValid(DateInterval(s, e)) => IsRange(DateInterval(s, e))
         /\ DateInterval(s, e) # NoRange => e # NULL /\ DateInterval(s, e).end = e
<1>1. CASE NULL \in {s, e}
  BY <1>1 DEF DateInterval, IsRange
<1>2. CASE NULL \notin {s, e}
  <2>1. s \in Nat /\ e \in Nat /\ DateInterval(s, e) = [start |-> s, end |-> e]
    BY <1>2, CalendarAssumption DEF DateInterval, MaybeDates
  <2> QED BY <1>2, <2>1, NoRangeIsNone DEF IsRange, IsValid, Ordered, Days
<1> QED BY <1>1, <1>2

LEMMA EndAtMeans ==
  ASSUME NEW e \in MaybeDates, NEW u \in Nat, u > 1
  PROVE  /\ EndAt(e, u) \in Nat \cup {NULL}
         /\ e # NULL => EndAt(e, u) = EndOf(e, u)
<1>1. CASE e = NULL
  BY <1>1 DEF EndAt
<1>2. CASE e # NULL
  <2>1. e \in Nat
    BY <1>2, CalendarAssumption DEF MaybeDates
  <2> QED BY <1>2, <2>1, StartOfMeans DEF EndAt
<1> QED BY <1>1, <1>2

LEMMA UnitsAreIntervals ==
  ASSUME NEW u \in Nat, u > 1, NEW range \in Days \cup {NoRange},
         NEW i \in Units(range, u)
  PROVE  i \in Days /\ i.start < i.end /\ i.end = i.start + u - 1
<1>1. IsRange(range)
  <2>1. range \in Days /\ range # NoRange
    BY DEF Units
  <2>2. PICK x \in range.start .. range.end : TRUE
    BY <2>1 DEF Units
  <2>3. range.start <= range.end
    BY <2>1, <2>2 DEF Days
  <2> QED BY <2>1, <2>3 DEF IsRange
<1> QED BY <1>1, UnitsMean

(* However the dates changed, no interval is there twice, nor a final report. *)
LEMMA DiffWellFormed ==
  ASSUME WellFormed(reports), NEW u \in Nat, u > 1, NEW new \in Days \cup {NoRange},
         NEW diff, diff.additions \subseteq Units(new, u), NEW end \in MaybeDates
  PROVE  WellFormed(Synced(reports, diff, EndAt(end, u)))
<1>1. \A i \in diff.additions : i \in Days /\ i.start < i.end
  BY UnitsAreIntervals
<1> QED BY <1>1, EndAtMeans, SyncedMeans

LEMMA SyncsAreWellFormed ==
  ASSUME WellFormed(reports)
  PROVE  /\ \A new, old : new.start \in MaybeDates /\ new.end \in MaybeDates =>
              WellFormed(SyncedToProject(new, old))
         /\ \A old : \A new \in Days \cup {NoRange}, end \in MaybeDates :
              WellFormed(SyncedToEngagement(new, old, end))
<1>1. ASSUME NEW u \in Nat, u > 1, NEW new \in Days \cup {NoRange}, NEW old,
             NEW end \in MaybeDates
      PROVE  WellFormed(Synced(reports, DiffBy(new, old, u), EndAt(end, u)))
  <2>1. DiffBy(new, old, u).additions \subseteq Units(new, u)
    BY DEF DiffBy
  <2> QED BY <1>1, <2>1, DiffWellFormed
<1>2. Quarter \in Nat /\ Quarter > 1
  BY UnitsAreLong DEF UnitOf
<1>3. ASSUME NEW new, NEW old, new.start \in MaybeDates, new.end \in MaybeDates
      PROVE  WellFormed(SyncedToProject(new, old))
  <2> DEFINE now == DateInterval(new.start, new.end)
             u == UnitOf(new.period)
  <2>1. now \in Days \cup {NoRange}
    BY <1>3, RangeMeans
  <2>2. CASE type = "Narrative"
    BY <1>1, <1>2, <1>3, <2>1, <2>2 DEF SyncedToProject
  <2>3. CASE type = "Financial" /\ new.period # NULL
    <3>1. DiffFinancial(new, old).additions \subseteq Units(now, u)
      BY DEF DiffFinancial, DiffBy
    <3>2. u \in Nat /\ u > 1
      BY UnitsAreLong
    <3>3. SyncedToProject(new, old) =
            Synced(reports, DiffFinancial(new, old), EndAt(new.end, u))
      BY <2>3 DEF SyncedToProject
    <3> HIDE DEF now, u
    <3> QED BY <1>3, <2>1, <3>1, <3>2, <3>3, DiffWellFormed
  <2>4. CASE type # "Narrative" /\ ~(type = "Financial" /\ new.period # NULL)
    BY <2>4 DEF SyncedToProject
  <2> QED BY <2>2, <2>3, <2>4
<1>4. ASSUME NEW new \in Days \cup {NoRange}, NEW old, NEW end \in MaybeDates
      PROVE  WellFormed(SyncedToEngagement(new, old, end))
  BY <1>1, <1>2 DEF SyncedToEngagement
<1> QED BY <1>3, <1>4

LEMMA EngagementRangeMeans ==
  ASSUME NEW eng, eng.start \in MaybeDates, eng.end \in MaybeDates,
         NEW mou, mou.start \in MaybeDates, mou.end \in MaybeDates
  PROVE  /\ EngagementRange(eng, mou) \in Days \cup {NoRange}
         /\ IsValid(EngagementRange(eng, mou)) => IsRange(EngagementRange(eng, mou))
         /\ Or(eng.end, mou.end) \in MaybeDates
         /\ EngagementRange(eng, mou) # NoRange =>
              /\ Or(eng.end, mou.end) # NULL
              /\ EngagementRange(eng, mou).end = Or(eng.end, mou.end)
<1>1. Or(eng.start, mou.start) \in MaybeDates /\ Or(eng.end, mou.end) \in MaybeDates
  BY DEF Or
<1> QED BY <1>1, RangeMeans DEF EngagementRange
---------------------------------------------------------------------------
(* Types.                                                                    *)

LEMMA ChangesMean ==
  ASSUME NEW c \in Changes
  PROVE  DOMAIN c \in SUBSET Fields /\ \A f \in DOMAIN c : c[f] \in MaybeDates
BY DEF Changes

LEMMA OverrideTyped ==
  ASSUME NEW c \in Changes, NEW new, DOMAIN new \subseteq Fields,
         \A f \in DOMAIN new : new[f] \in MaybeDates
  PROVE  Override(c, new) \in Changes
<1> DEFINE F == DOMAIN c \cup DOMAIN new
<1>1. F \in SUBSET Fields
  BY ChangesMean
<1>2. Override(c, new) \in [F -> MaybeDates]
  BY ChangesMean DEF Override
<1> QED BY <1>1, <1>2 DEF Changes

LEMMA RequestTyped ==
  /\ \A open, applied \in BOOLEAN : Request(open, applied) \in Requests
  /\ DOMAIN NoChanges = {}
<1>1. NoChanges \in [{} -> MaybeDates] /\ {} \in SUBSET Fields
  BY DEF NoChanges
<1>2. NoChanges \in Changes
  BY <1>1 DEF Changes
<1> QED BY <1>2 DEF Request, Requests, NoChanges

LEMMA ProposedTyped ==
  ASSUME Typed
  PROVE  /\ ProposedProject \in Projects /\ ProposedEngagement \in Engagements
         /\ \A new, old : DOMAIN Changed(new, old) \subseteq DOMAIN new
                       /\ \A f \in DOMAIN Changed(new, old) : Changed(new, old)[f] = new[f]
         /\ DOMAIN request.changes = {} =>
              ProposedProject = project /\ ProposedEngagement = engagement
<1>1. request.changes \in Changes
  BY DEF Typed, Requests
<1>2. \A f, live : live \in MaybeDates => Proposed(f, live) \in MaybeDates
  BY <1>1, ChangesMean DEF Proposed
<1>3. ASSUME DOMAIN request.changes = {}
      PROVE  \A f, live : Proposed(f, live) = live
  BY <1>3 DEF Proposed
<1>4. project \in Projects /\ engagement \in Engagements
  BY DEF Typed
<1>5. ProposedProject \in Projects /\ ProposedEngagement \in Engagements
  BY <1>2, <1>4 DEF Projects, Engagements, ProposedProject, ProposedEngagement
<1>6. DOMAIN request.changes = {} =>
        ProposedProject = project /\ ProposedEngagement = engagement
  BY <1>3, <1>4, ZenonT(40) DEF Projects, Engagements, ProposedProject, ProposedEngagement
<1>7. \A new, old : DOMAIN Changed(new, old) \subseteq DOMAIN new
        /\ \A f \in DOMAIN Changed(new, old) : Changed(new, old)[f] = new[f]
  BY DEF Changed
<1> QED BY <1>5, <1>6, <1>7

LEMMA TypedStep ==
  ASSUME Typed, [Next]_vars
  PROVE  Typed'
<1> USE BoundsAssumption
<1>0. /\ project \in Projects /\ engagement \in Engagements /\ request \in Requests
      /\ type \in Types /\ WellFormed(reports) /\ PeriodsOf(type) \subseteq Periods
      /\ marks \in 0 .. MaxMarks /\ proposals \in 0 .. MaxProposals
      /\ project.start \in MaybeDates /\ project.end \in MaybeDates
      /\ engagement.start \in MaybeDates /\ engagement.end \in MaybeDates
      /\ NULL \in MaybeDates
  BY DEF Typed, PeriodsOf, Periods, Projects, Engagements, MaybeDates
<1>p. /\ ProposedProject \in Projects /\ ProposedEngagement \in Engagements
      /\ ProposedProject.start \in MaybeDates /\ ProposedProject.end \in MaybeDates
      /\ ProposedEngagement.start \in MaybeDates /\ ProposedEngagement.end \in MaybeDates
  BY ProposedTyped DEF Projects, Engagements
<1>w. ASSUME WellFormed(reports') PROVE WellFormed(reports)'
  BY <1>w DEF WellFormed, IsAt, IsFinal
<1>1. ASSUME NEW s \in MaybeDates, NEW e \in MaybeDates, NEW p \in PeriodsOf(type),
             UpdateProject(s, e, p)
      PROVE  Typed'
  <2> DEFINE new == [start |-> s, end |-> e, period |-> p]
             range == EngagementRange(engagement, new)
  <2>1. new \in Projects /\ new.start = s /\ new.end = e
    BY <1>0 DEF Projects
  <2>2. range \in Days \cup {NoRange} /\ Or(engagement.end, e) \in MaybeDates
    BY <1>0, <2>1, EngagementRangeMeans
  <2>3. WellFormed(reports')
    BY <1>0, <1>1, <2>1, <2>2, SyncsAreWellFormed DEF UpdateProject
  <2>4. /\ project' = new /\ UNCHANGED <<engagement, request, type, marks, proposals>>
    BY <1>1 DEF UpdateProject, fixed, counters
  <2> QED BY <1>0, <1>w, <2>1, <2>3, <2>4 DEF Typed
<1>2. ASSUME NEW s \in MaybeDates, NEW e \in MaybeDates, ProposeProject(s, e)
      PROVE  Typed'
  <2> DEFINE old == ProposedProject
             new == [old EXCEPT !.start = s, !.end = e]
             range == EngagementRange(engagement, project)
             given == Changed([mouStart |-> s, mouEnd |-> e],
                              [mouStart |-> old.start, mouEnd |-> old.end])
  <2>1. new \in Projects /\ new.start = s /\ new.end = e
    BY <1>p DEF Projects
  <2>2. range \in Days \cup {NoRange} /\ Or(engagement.end, project.end) \in MaybeDates
    BY <1>0, EngagementRangeMeans
  <2>3. /\ request' = [request EXCEPT !.changes = Override(@, given)]
        /\ reports' \in {SyncedToProject(new, old),
             SyncedToEngagement(range, EngagementRange(engagement, old),
                                Or(engagement.end, project.end))}
        /\ proposals' \in 0 .. MaxProposals
        /\ UNCHANGED <<project, engagement, type, marks>>
    BY <1>0, <1>2 DEF ProposeProject, fixed
  <2>4. WellFormed(reports')
    BY <1>0, <2>1, <2>2, <2>3, SyncsAreWellFormed
  <2>5. DOMAIN given \subseteq Fields /\ \A f \in DOMAIN given : given[f] \in MaybeDates
    <3> DEFINE n == [mouStart |-> s, mouEnd |-> e]
    <3>1. /\ DOMAIN n = {"mouStart", "mouEnd"}
          /\ \A f \in DOMAIN n : n[f] \in MaybeDates
      OBVIOUS
    <3>2. DOMAIN given \subseteq DOMAIN n /\ \A f \in DOMAIN given : given[f] = n[f]
      BY ProposedTyped
    <3> QED BY <3>1, <3>2 DEF Fields
  <2> HIDE DEF given
  <2>6. request' \in Requests
    BY <1>0, <2>3, <2>5, OverrideTyped DEF Requests
  <2> QED BY <1>0, <1>w, <2>3, <2>4, <2>6 DEF Typed
<1>3. ASSUME NEW s \in MaybeDates, NEW e \in MaybeDates, CreateEngagement(s, e)
      PROVE  Typed'
  <2> DEFINE eng == [state |-> "live", start |-> s, end |-> e]
             range == EngagementRange(eng, project)
  <2>1. eng \in Engagements /\ eng.start = s /\ eng.end = e
    BY DEF Engagements
  <2>2. range \in Days \cup {NoRange} /\ Or(e, project.end) \in MaybeDates
    BY <1>0, <2>1, EngagementRangeMeans
  <2>3. WellFormed(reports') /\ engagement' = eng
    BY <1>0, <1>3, <2>2, SyncsAreWellFormed DEF CreateEngagement
  <2> QED BY <1>0, <1>3, <1>w, <2>1, <2>3 DEF CreateEngagement, fixed, counters, Typed
<1>4. ASSUME NEW s \in MaybeDates, NEW e \in MaybeDates, ProposeNewEngagement(s, e)
      PROVE  Typed'
  <2>1. /\ engagement' \in Engagements /\ proposals' \in 0 .. MaxProposals
        /\ reports' = reports /\ UNCHANGED <<project, request, type, marks>>
    BY <1>0, <1>4 DEF ProposeNewEngagement, Engagements, fixed
  <2> QED BY <1>0, <1>w, <2>1 DEF Typed
<1>5. ASSUME NEW s \in MaybeDates, NEW e \in MaybeDates, UpdateEngagement(s, e)
      PROVE  Typed'
  <2> DEFINE new == [engagement EXCEPT !.start = s, !.end = e]
             range == EngagementRange(new, project)
  <2>1. new \in Engagements /\ new.start = s /\ new.end = e
    BY <1>0 DEF Engagements
  <2>2. range \in Days \cup {NoRange} /\ Or(e, project.end) \in MaybeDates
    BY <1>0, <2>1, EngagementRangeMeans
  <2>3. /\ reports' = SyncedToEngagement(range, EngagementRange(engagement, project),
                                        Or(e, project.end))
        /\ engagement' = new /\ UNCHANGED <<project, request, type, marks>>
        /\ proposals' \in 0 .. MaxProposals
    BY <1>0, <1>5 DEF UpdateEngagement, fixed
  <2>4. WellFormed(reports')
    BY <1>0, <2>2, <2>3, SyncsAreWellFormed
  <2> QED BY <1>0, <1>w, <2>1, <2>3, <2>4 DEF Typed
<1>6. ASSUME NEW s \in MaybeDates, NEW e \in MaybeDates, ProposeEngagement(s, e)
      PROVE  Typed'
  <2> DEFINE old == ProposedEngagement
             range == EngagementRange(engagement, project)
             given == Changed([overrideStart |-> s, overrideEnd |-> e],
                              [overrideStart |-> old.start, overrideEnd |-> old.end])
  <2>2. range \in Days \cup {NoRange} /\ Or(engagement.end, project.end) \in MaybeDates
    BY <1>0, EngagementRangeMeans
  <2>3. PICK prev :
        /\ request' = [request EXCEPT !.changes = Override(@, given)]
        /\ reports' = SyncedToEngagement(range, prev, Or(engagement.end, project.end))
        /\ proposals' \in 0 .. MaxProposals
        /\ UNCHANGED <<project, engagement, type, marks>>
    BY <1>0, <1>6 DEF ProposeEngagement, fixed
  <2>4. WellFormed(reports')
    BY <1>0, <2>2, <2>3, SyncsAreWellFormed
  <2>5. DOMAIN given \subseteq Fields /\ \A f \in DOMAIN given : given[f] \in MaybeDates
    <3> DEFINE n == [overrideStart |-> s, overrideEnd |-> e]
    <3>1. /\ DOMAIN n = {"overrideStart", "overrideEnd"}
          /\ \A f \in DOMAIN n : n[f] \in MaybeDates
      OBVIOUS
    <3>2. DOMAIN given \subseteq DOMAIN n /\ \A f \in DOMAIN given : given[f] = n[f]
      BY ProposedTyped
    <3> QED BY <3>1, <3>2 DEF Fields
  <2> HIDE DEF given
  <2>6. request' \in Requests
    BY <1>0, <2>3, <2>5, OverrideTyped DEF Requests
  <2> QED BY <1>0, <1>w, <2>3, <2>4, <2>6 DEF Typed
<1>7. CASE OpenRequest \/ Approve \/ Reject
  <2>1. request' \in Requests
    BY <1>7, RequestTyped DEF OpenRequest, Approve, Reject
  <2>2. \A eng \in Engagements : Finalized(eng) \in Engagements
    BY DEF Finalized, Engagements
  <2>3. /\ project' \in {project, ProposedProject}
        /\ engagement' \in {engagement, Finalized(engagement), Finalized(ProposedEngagement)}
        /\ UNCHANGED <<reports, type, marks, proposals>>
    BY <1>7 DEF OpenRequest, Approve, Reject, fixed, counters
  <2> QED BY <1>0, <1>p, <1>w, <2>1, <2>2, <2>3 DEF Typed
<1>8. ASSUME NEW r \in reports, NEW mark \in {"filled", "skipped"}, Mark(r, mark)
      PROVE  Typed'
  <2> DEFINE m == [r EXCEPT !.mark = mark]
  <2>1. /\ reports' = (reports \ {r}) \cup {m} /\ marks' \in 0 .. MaxMarks
        /\ UNCHANGED <<project, engagement, request, type, proposals>>
    BY <1>0, <1>8 DEF Mark, fixed
  <2>2. m \in AReport /\ m.start = r.start /\ m.end = r.end
    BY <1>0 DEF WellFormed, AReport
  <2> HIDE DEF m
  <2>3. WellFormed((reports \ {r}) \cup {m})
    BY <1>0, <2>2 DEF WellFormed, IsAt, IsFinal
  <2> QED BY <1>0, <1>w, <2>1, <2>3 DEF Typed
<1>9. CASE UNCHANGED vars
  BY <1>0, <1>9, <1>w DEF vars, fixed, counters, Typed
<1> QED BY <1>1, <1>2, <1>3, <1>4, <1>5, <1>6, <1>7, <1>8, <1>9 DEF Next
---------------------------------------------------------------------------
(* The reports stay in step.                                                 *)

LEMMA DiffByMatches ==
  ASSUME NEW u \in Nat, u > 1, NEW rs, WellFormed(rs), NEW new, IsRange(new),
         NEW old, IsRange(old), NEW at \in Nat \cup {NULL},
         new # NoRange => at = EndOf(new.end, u), NEW b, NEW kind,
         kind # "Financial" => u = Quarter, Matches(rs, old, u, b, kind)
  PROVE  Matches(Synced(rs, DiffBy(new, old, u), at), new, u, b, kind)
BY DiffByMeans DEF Matches

(* Nothing is looked for outside of no dates.                                 *)
LEMMA NothingDue ==
  ASSUME NEW rs, NEW u, NEW b
  PROVE  Matches(rs, NoRange, u, b, "Financial")
BY NoUnits DEF Matches, Covers, Within

LEMMA FinancialMatches ==
  ASSUME type = "Financial", WellFormed(reports),
         NEW new \in Projects, NEW old \in Projects, new.period # NULL,
         IsRange(DateInterval(new.start, new.end)),
         IsRange(DateInterval(old.start, old.end)), NEW b,
         new.period = old.period =>
           Matches(reports, DateInterval(old.start, old.end), UnitOf(old.period), b, type)
  PROVE  Matches(SyncedToProject(new, old), DateInterval(new.start, new.end),
                 UnitOf(new.period), b, type)
<1> DEFINE u == UnitOf(new.period)
           now == DateInterval(new.start, new.end)
           prev == DateInterval(old.start, old.end)
           at == EndAt(new.end, u)
           diff == DiffFinancial(new, old)
<1>1. u \in Nat /\ u > 1
  BY UnitsAreLong
<1>2. /\ new.start \in MaybeDates /\ new.end \in MaybeDates
      /\ now # NoRange => new.end # NULL /\ now.end = new.end
  BY RangeMeans DEF Projects
<1>3. at \in Nat \cup {NULL} /\ (now # NoRange => at = EndOf(now.end, u))
  <2> HIDE DEF u, now
  <2> QED BY <1>1, <1>2, EndAtMeans
<1>4. SyncedToProject(new, old) = Synced(reports, diff, at)
  BY DEF SyncedToProject
<1>5. CASE new.period = old.period
  <2>1. diff = DiffBy(now, prev, u)
    BY <1>5 DEF DiffFinancial
  <2> HIDE DEF u, now, prev, at, diff
  <2> QED BY <1>1, <1>3, <1>4, <1>5, <2>1, DiffByMatches DEF u, now, prev
<1>6. CASE new.period # old.period
  <2>1. diff.range = Full(now, u) /\ diff.additions = Units(now, u)
    BY <1>6 DEF DiffFinancial
  <2> HIDE DEF u, now, prev, at, diff
  <2>2. /\ Within(Synced(reports, diff, at), now, u)
        /\ now # NoRange => EndsAt(Synced(reports, diff, at), now, u)
        /\ \A i \in Units(now, u) : HasAt(Synced(reports, diff, at), i)
    BY <1>1, <1>3, <2>1, DiffMeans DEF now
  <2> QED BY <1>4, <2>2 DEF Matches, Covers, now, u
<1> QED BY <1>5, <1>6

LEMMA ToProjectMatches ==
  ASSUME Typed, NEW s \in MaybeDates, NEW e \in MaybeDates, NEW p \in PeriodsOf(type),
         Ordered(s, e), IsValid(Mou), type # "Progress",
         Matches(reports, Due, Unit, born, type)
  PROVE  LET new == [start |-> s, end |-> e, period |-> p] IN
         Matches(SyncedToProject(new, project),
                 IF type = "Financial" /\ p = NULL THEN NoRange ELSE DateInterval(s, e),
                 IF type = "Financial" THEN UnitOf(p) ELSE Quarter, born, type)
<1> DEFINE new == [start |-> s, end |-> e, period |-> p]
           now == DateInterval(s, e)
<1>1. /\ new \in Projects /\ new.start = s /\ new.end = e /\ new.period = p
      /\ project \in Projects /\ WellFormed(reports)
      /\ Mou = DateInterval(project.start, project.end)
  BY DEF Typed, Projects, PeriodsOf, Periods, Mou
<1>2. /\ IsRange(now) /\ IsRange(Mou)
      /\ now # NoRange => e # NULL /\ now.end = e
  BY <1>1, RangeMeans DEF Projects
<1>3. CASE type = "Narrative"
  <2>1. Quarter \in Nat /\ Quarter > 1
    BY UnitsAreLong DEF UnitOf
  <2>2. /\ EndAt(e, Quarter) \in Nat \cup {NULL}
        /\ now # NoRange => EndAt(e, Quarter) = EndOf(now.end, Quarter)
    BY <1>2, <2>1, EndAtMeans
  <2>3. SyncedToProject(new, project) =
          Synced(reports, DiffBy(now, Mou, Quarter), EndAt(e, Quarter))
    BY <1>1, <1>3 DEF SyncedToProject
  <2>4. Matches(reports, Mou, Quarter, born, "Narrative")
    BY <1>3 DEF Due, Unit
  <2> HIDE DEF now, new
  <2>5. Matches(Synced(reports, DiffBy(now, Mou, Quarter), EndAt(e, Quarter)),
                now, Quarter, born, "Narrative")
    BY <1>1, <1>2, <2>1, <2>2, <2>4, DiffByMatches
  <2> QED BY <1>3, <2>3, <2>5 DEF now, new
<1>4. CASE type = "Financial" /\ p # NULL
  <2>1. p = project.period => Matches(reports, Mou, UnitOf(project.period), born, type)
    BY <1>4 DEF Due, Unit
  <2> HIDE DEF new
  <2>2. Matches(SyncedToProject(new, project), DateInterval(new.start, new.end),
                UnitOf(new.period), born, type)
    BY <1>1, <1>2, <1>4, <2>1, FinancialMatches
  <2> QED BY <1>1, <1>4, <2>2 DEF new
<1>5. CASE type = "Financial" /\ p = NULL
  BY <1>5, NothingDue
<1> QED BY <1>3, <1>4, <1>5 DEF Typed, Types

LEMMA ToEngagementMatches ==
  ASSUME WellFormed(reports), type = "Progress", NEW new, IsRange(new), NEW old,
         IsRange(old), NEW end \in MaybeDates,
         new # NoRange => end # NULL /\ new.end = end, NEW b,
         Matches(reports, old, Quarter, b, type)
  PROVE  Matches(SyncedToEngagement(new, old, end), new, Quarter, b, type)
<1>1. Quarter \in Nat /\ Quarter > 1
  BY UnitsAreLong DEF UnitOf
<1>2. /\ EndAt(end, Quarter) \in Nat \cup {NULL}
      /\ new # NoRange => EndAt(end, Quarter) = EndOf(new.end, Quarter)
  BY <1>1, EndAtMeans
<1>3. SyncedToEngagement(new, old, end) =
        Synced(reports, DiffBy(new, old, Quarter), EndAt(end, Quarter))
  BY DEF SyncedToEngagement
<1> QED BY <1>1, <1>2, <1>3, DiffByMatches

(* What a user did with a report leaves it where it is.                       *)
LEMMA MarkMatches ==
  ASSUME WellFormed(reports), NEW r \in reports, NEW mark, r.mark = "none",
         NEW due, NEW u, NEW b, NEW kind, Matches(reports, due, u, b, kind)
  PROVE  Matches((reports \ {r}) \cup {[r EXCEPT !.mark = mark]}, due, u, b, kind)
<1> DEFINE m == [r EXCEPT !.mark = mark]
           rs == (reports \ {r}) \cup {m}
<1>1. m.start = r.start /\ m.end = r.end /\ Deletable(r)
  BY DEF WellFormed, AReport, Deletable
<1> HIDE DEF m
<1>2. \A q \in rs : \E x \in reports : /\ x.start = q.start /\ x.end = q.end
                                       /\ Deletable(q) => Deletable(x)
  BY <1>1
<1>3. \A x \in reports : \E q \in rs : x.start = q.start /\ x.end = q.end
  BY <1>1
<1> HIDE DEF rs
<1>4. Covers(rs, due, u, b)
  BY <1>3 DEF Matches, Covers, HasAt, IsAt
<1>5. Within(rs, due, u)
  BY <1>2 DEF Matches, Within
<1>6. kind # "Financial" => OfUnits(rs, due, u) /\ Whole(rs, Quarter)
  BY <1>2 DEF Matches, OfUnits, Whole, IsFinal, IsAt
<1>7. due \notin {NoRange, b} => EndsAt(rs, due, u)
  BY <1>3 DEF Matches, EndsAt, IsFinal
<1> QED BY <1>4, <1>5, <1>6, <1>7 DEF Matches, rs, m

LEMMA NoReportsMatch ==
  ASSUME NEW due, NEW u, NEW b, NEW kind, due \in {NoRange, b}
  PROVE  Matches({}, due, u, b, kind)
<1>1. Units(due, u) \ Units(b, u) = {}
  BY NoUnits
<1> QED BY <1>1 DEF Matches, Covers, Within, OfUnits, Whole

LEMMA InitInStep ==
  ASSUME Init
  PROVE  Typed /\ InStep
<1> USE BoundsAssumption
<1>1. PICK s \in FirstDates \cup {NULL}, e \in FirstDates \cup {NULL}, p \in PeriodsOf(type) :
        /\ project = [start |-> s, end |-> e, period |-> p]
        /\ born = IF type = "Progress" THEN NoRange ELSE DateInterval(s, e)
  BY DEF Init
<1>2. /\ type \in Types /\ reports = {} /\ marks = 0 /\ proposals = 0
      /\ engagement = [state |-> "absent", start |-> NULL, end |-> NULL]
      /\ request = Request(FALSE, FALSE)
  BY DEF Init
<1>3. Typed
  <2>1. project \in Projects
    BY <1>1, <1>2, CalendarAssumption DEF Projects, MaybeDates, PeriodsOf, Periods
  <2>2. engagement \in Engagements /\ request \in Requests
    BY <1>2, RequestTyped DEF Engagements, MaybeDates
  <2>3. WellFormed(reports)
    BY <1>2 DEF WellFormed
  <2>4. marks \in 0 .. MaxMarks /\ proposals \in 0 .. MaxProposals
    BY <1>2
  <2> QED BY <1>2, <2>1, <2>2, <2>3, <2>4 DEF Typed
<1>4. Due \in {NoRange, born}
  BY <1>1, <1>2 DEF Due, IsLive, Mou
<1>5. DOMAIN request.changes = {}
  BY <1>2, RequestTyped DEF Request
<1>6. Matches(reports, Due, Unit, born, type)
  BY <1>2, <1>4, NoReportsMatch
<1>7. engagement.state # "proposed"
  BY <1>2
<1> QED BY <1>3, <1>5, <1>6, <1>7 DEF InStep

LEMMA InStepStep ==
  ASSUME Typed, InStep, [Next]_vars
  PROVE  InStep'
<1> SUFFICES ASSUME Direct'
             PROVE  InStep'
  BY DEF InStep
<1> USE CalendarAssumption
<1>0. /\ project \in Projects /\ engagement \in Engagements /\ WellFormed(reports)
      /\ type \in Types /\ proposals \in Nat
      /\ project.start \in MaybeDates /\ project.end \in MaybeDates
      /\ engagement.start \in MaybeDates /\ engagement.end \in MaybeDates
      /\ engagement.state \in {"absent", "proposed", "live"}
  BY BoundsAssumption DEF Typed, Projects, Engagements
<1>n. proposals' = 0 /\ proposals' # proposals + 1
  BY <1>0 DEF Direct
<1>i. ASSUME Direct
      PROVE  /\ DOMAIN request.changes = {} /\ engagement.state # "proposed"
             /\ Matches(reports, Due, Unit, born, type)
             /\ ProposedProject = project /\ ProposedEngagement = engagement
  BY <1>i, ProposedTyped DEF InStep
<1>m. ASSUME Matches(reports', Due', Unit', born, type), DOMAIN request'.changes = {},
             engagement'.state # "proposed", type' = type, born' = born
      PROVE  InStep'
  BY <1>m DEF InStep, Matches, Covers, Within, OfUnits, EndsAt, Whole, HasAt, IsAt, IsFinal, Deletable
<1>s. ASSUME Direct, UNCHANGED <<project, engagement, type, born>>
      PROVE  Due' = Due /\ Unit' = Unit
  BY <1>s DEF Due, Unit, IsLive, Mou, EngagementRange
<1>e. ASSUME NEW eng \in Engagements
      PROVE  /\ EngagementRange(eng, project) \in Days \cup {NoRange}
             /\ IsValid(EngagementRange(eng, project)) =>
                  IsRange(EngagementRange(eng, project))
             /\ Or(eng.end, project.end) \in MaybeDates
             /\ EngagementRange(eng, project) # NoRange =>
                  /\ Or(eng.end, project.end) # NULL
                  /\ EngagementRange(eng, project).end = Or(eng.end, project.end)
  BY <1>0, EngagementRangeMeans DEF Engagements
<1>1. ASSUME NEW s \in MaybeDates, NEW e \in MaybeDates, NEW p \in PeriodsOf(type),
             UpdateProject(s, e, p)
      PROVE  InStep'
  <2> DEFINE new == [start |-> s, end |-> e, period |-> p]
             moved == s # project.start \/ e # project.end
             range == EngagementRange(engagement, new)
             prev == EngagementRange(engagement, project)
  <2>1. /\ Ordered(s, e) /\ IsValid(Mou)
        /\ moved /\ IsLive => IsValid(range) /\ IsValid(prev)
        /\ project' = new /\ UNCHANGED <<engagement, request, type, born, proposals>>
        /\ reports' = IF moved /\ IsLive /\ type = "Progress"
                      THEN SyncedToEngagement(range, prev, Or(engagement.end, e))
                      ELSE SyncedToProject(new, project)
    BY <1>1 DEF UpdateProject, fixed, counters
  <2>2. Direct
    BY <1>n, <2>1 DEF Direct
  <2>3. /\ Unit' = IF type = "Financial" THEN UnitOf(p) ELSE Quarter
        /\ Due' = IF type = "Progress" THEN IF IsLive THEN range ELSE NoRange
                  ELSE IF type = "Financial" /\ p = NULL THEN NoRange
                  ELSE DateInterval(s, e)
    BY <2>1 DEF Unit, Due, IsLive, Mou, EngagementRange
  <2>4. CASE type # "Progress"
    <3>1. reports' = SyncedToProject(new, project)
      BY <2>1, <2>4
    <3>2. Matches(reports', Due', Unit', born, type)
      BY <1>i, <2>1, <2>2, <2>3, <2>4, <3>1, ToProjectMatches
    <3> QED BY <1>i, <1>m, <2>1, <2>2, <3>2
  <2>5. CASE type = "Progress" /\ IsLive /\ moved
    <3>1. /\ IsRange(range) /\ IsRange(prev) /\ Or(engagement.end, e) \in MaybeDates
          /\ range # NoRange =>
               Or(engagement.end, e) # NULL /\ range.end = Or(engagement.end, e)
      <4>1. new.start = s /\ new.end = e
        OBVIOUS
      <4> HIDE DEF new
      <4> QED BY <1>0, <1>e, <2>1, <2>5, <4>1, EngagementRangeMeans
    <3>2. Due = prev /\ Unit = Quarter /\ Due' = range /\ Unit' = Quarter
      BY <2>3, <2>5 DEF Due, Unit
    <3>3. reports' = SyncedToEngagement(range, prev, Or(engagement.end, e))
      BY <2>1, <2>5
    <3>4. Matches(reports, prev, Quarter, born, type)
      BY <1>i, <2>2, <3>2
    <3> HIDE DEF range, prev
    <3>5. Matches(reports', Due', Unit', born, type)
      BY <1>0, <2>5, <3>1, <3>2, <3>3, <3>4, ToEngagementMatches
    <3> QED BY <1>i, <1>m, <2>1, <2>2, <3>5
  <2>6. CASE type = "Progress" /\ ~(IsLive /\ moved)
    <3>1. reports' = reports
      BY <2>1, <2>6 DEF SyncedToProject
    <3>2. Due' = Due /\ Unit' = Unit
      BY <2>3, <2>6 DEF Due, Unit, EngagementRange
    <3> QED BY <1>i, <1>m, <2>1, <2>2, <3>1, <3>2
  <2> QED BY <2>4, <2>5, <2>6
<1>2. ASSUME NEW s \in MaybeDates, NEW e \in MaybeDates,
             \/ ProposeProject(s, e)
             \/ ProposeNewEngagement(s, e)
             \/ ProposeEngagement(s, e)
      PROVE  FALSE
  BY <1>2, <1>n DEF ProposeProject, ProposeNewEngagement, ProposeEngagement
<1>3. ASSUME NEW s \in MaybeDates, NEW e \in MaybeDates, type = "Progress",
             CreateEngagement(s, e)
      PROVE  InStep'
  <2> DEFINE eng == [state |-> "live", start |-> s, end |-> e]
             range == EngagementRange(eng, project)
  <2>1. /\ engagement.state = "absent" /\ IsValid(range) /\ engagement' = eng
        /\ reports' = SyncedToEngagement(range, NoRange, Or(e, project.end))
        /\ UNCHANGED <<project, request, type, born, proposals>>
    BY <1>3 DEF CreateEngagement, fixed, counters
  <2>2. Direct
    BY <1>n, <2>1 DEF Direct
  <2>3. Due = NoRange /\ Unit = Quarter /\ Due' = range /\ Unit' = Quarter
    BY <1>3, <2>1 DEF Due, Unit, IsLive, EngagementRange
  <2>4. eng \in Engagements /\ eng.end = e
    BY DEF Engagements
  <2>5. Matches(reports', Due', Unit', born, type)
    <3> HIDE DEF eng
    <3>1. /\ IsRange(range) /\ IsRange(NoRange) /\ Or(e, project.end) \in MaybeDates
          /\ range # NoRange => Or(e, project.end) # NULL /\ range.end = Or(e, project.end)
      BY <1>e, <2>1, <2>4 DEF IsRange
    <3> HIDE DEF range
    <3> QED BY <1>0, <1>3, <1>i, <2>1, <2>2, <2>3, <3>1, ToEngagementMatches
  <2> QED BY <1>i, <1>m, <2>1, <2>2, <2>5
<1>4. ASSUME NEW s \in MaybeDates, NEW e \in MaybeDates, type = "Progress",
             UpdateEngagement(s, e)
      PROVE  InStep'
  <2> DEFINE new == [engagement EXCEPT !.start = s, !.end = e]
             range == EngagementRange(new, project)
             prev == EngagementRange(engagement, project)
  <2>1. /\ IsLive /\ UNCHANGED proposals
        /\ IsValid(range) /\ IsValid(prev) /\ engagement' = new
        /\ reports' = SyncedToEngagement(range, prev, Or(e, project.end))
        /\ UNCHANGED <<project, request, type, born>>
    BY <1>4, <1>n DEF UpdateEngagement, fixed
  <2>2. Direct
    BY <1>n, <2>1 DEF Direct
  <2>3. new \in Engagements /\ new.end = e /\ new.state = "live"
    BY <1>0, <2>1 DEF Engagements, IsLive
  <2>4. Due = prev /\ Unit = Quarter /\ Due' = range /\ Unit' = Quarter
    BY <1>4, <2>1, <2>3 DEF Due, Unit, IsLive, EngagementRange
  <2>5. Matches(reports', Due', Unit', born, type)
    <3> HIDE DEF new
    <3>1. /\ IsRange(range) /\ IsRange(prev) /\ Or(e, project.end) \in MaybeDates
          /\ range # NoRange => Or(e, project.end) # NULL /\ range.end = Or(e, project.end)
      BY <1>0, <1>e, <2>1, <2>3
    <3> HIDE DEF range, prev
    <3> QED BY <1>0, <1>4, <1>i, <2>1, <2>2, <2>4, <3>1, ToEngagementMatches
  <2> QED BY <1>i, <1>m, <2>1, <2>2, <2>3, <2>5
<1>5. CASE OpenRequest \/ Approve \/ Reject
  <2>1. /\ DOMAIN request'.changes = {} /\ reports' = reports
        /\ project' \in {project, ProposedProject}
        /\ engagement' \in {engagement, Finalized(engagement), Finalized(ProposedEngagement)}
        /\ UNCHANGED <<type, born, proposals>>
    BY <1>5, RequestTyped DEF OpenRequest, Approve, Reject, fixed, counters, Request
  <2>2. Direct
    BY <1>n, <2>1 DEF Direct
  <2>3. Finalized(engagement) = engagement
    BY <1>0, <1>i, <2>2 DEF Finalized, Engagements
  <2>4. UNCHANGED <<project, engagement>>
    BY <1>i, <2>1, <2>2, <2>3
  <2> QED BY <1>i, <1>m, <1>s, <2>1, <2>2, <2>4
<1>6. ASSUME NEW r \in reports, NEW mark, Mark(r, mark)
      PROVE  InStep'
  <2>1. /\ reports' = (reports \ {r}) \cup {[r EXCEPT !.mark = mark]} /\ r.mark = "none"
        /\ UNCHANGED <<project, engagement, request, type, born, proposals>>
    BY <1>6 DEF Mark, fixed
  <2>2. Direct
    BY <1>n, <2>1 DEF Direct
  <2>3. Matches(reports', Due, Unit, born, type)
    BY <1>0, <1>i, <2>1, <2>2, MarkMatches
  <2> QED BY <1>i, <1>m, <1>s, <2>1, <2>2, <2>3
<1>7. CASE UNCHANGED vars
  <2>1. UNCHANGED <<project, engagement, request, type, born, reports, proposals>>
    BY <1>7 DEF vars
  <2>2. Direct
    BY <1>n, <2>1 DEF Direct
  <2> QED BY <1>i, <1>m, <1>s, <2>1, <2>2
<1> QED BY <1>1, <1>2, <1>3, <1>4, <1>5, <1>6, <1>7 DEF Next
---------------------------------------------------------------------------
(* What follows.                                                             *)

ReportsInv == Typed /\ InStep

(* After any sequence of saves outside of change requests the reports match   *)
(* the dates, and after any at all they are well formed: the inductive        *)
(* invariant of sync (abstract-periodic-report-sync.ts).                      *)
THEOREM ReportsInvariant == Spec => []ReportsInv
<1>1. Init => ReportsInv
  BY InitInStep DEF ReportsInv
<1>2. ReportsInv /\ [Next]_vars => ReportsInv'
  BY TypedStep, InStepStep DEF ReportsInv
<1> QED BY <1>1, <1>2, PTL DEF Spec

LEMMA TypeFollows ==
  ASSUME Typed
  PROVE  TypeOK
<1>1. /\ request.open \in BOOLEAN /\ request.applied \in BOOLEAN
      /\ DOMAIN request.changes \in SUBSET Fields
      /\ \A f \in DOMAIN request.changes : request.changes[f] \in MaybeDates
  BY ChangesMean DEF Typed, Requests
<1>2. \A r \in reports :
        /\ r.start \in Nat /\ r.end \in Nat /\ r.start <= r.end
        /\ r.mark \in {"none", "filled", "skipped"}
        /\ \A q \in reports : IsAt(q, r) => q = r
  BY DEF Typed, WellFormed, AReport
<1> QED BY <1>1, <1>2 DEF Typed, TypeOK, Projects, Engagements

(* Every variable has its type, and no interval has two reports, as their     *)
(* deterministic ids take for granted.                                       *)
THEOREM TypeCorrect == Spec => []TypeOK
<1>1. ReportsInv => TypeOK
  BY TypeFollows DEF ReportsInv
<1> QED BY <1>1, ReportsInvariant, PTL

(* After every sequence of saves there is a report for every quarter, or     *)
(* month, of the dates that the project was not created with (diffBy,        *)
(* diffFinancial).                                                           *)
THEOREM PeriodsHaveReports == Spec => []EveryPeriodHasReport
<1>1. ReportsInv => EveryPeriodHasReport
  BY DEF ReportsInv, InStep, Matches, Covers, HasAt, EveryPeriodHasReport, Covered
<1> QED BY <1>1, ReportsInvariant, PTL

(* No report that nobody has filled in is outside of the dates: the two      *)
(* half-open deletions of abstract-periodic-report-sync.ts leave none.       *)
THEOREM EmptyReportsFit == Spec => []EmptyReportsWithinDates
<1>1. ReportsInv => EmptyReportsWithinDates
  <2> SUFFICES ASSUME ReportsInv, Direct, Due # NoRange,
                      NEW r \in reports, Deletable(r)
               PROVE  /\ r.start <= Full(Due, Unit).end /\ Full(Due, Unit).start <= r.end
                      /\ type = "Financial" \/ IsFinal(r)
                           \/ \E i \in Units(Due, Unit) : IsAt(r, i)
    BY DEF EmptyReportsWithinDates
  <2> QED BY DEF ReportsInv, InStep, Matches, Within, OfUnits
<1> QED BY <1>1, ReportsInvariant, PTL

(* However often the end moves there is one final report at most, and it is  *)
(* the one of the end (mergeFinalReport).                                    *)
THEOREM FinalAtEnd == Spec => []FinalReportAtEnd
<1>1. ReportsInv => FinalReportAtEnd
  <2> SUFFICES ASSUME ReportsInv
               PROVE  FinalReportAtEnd
    OBVIOUS
  <2>1. \A q, r \in Finals : q = r
    BY DEF ReportsInv, Typed, WellFormed, Finals
  <2>2. Cardinality(Finals) <= 1
    <3>1. CASE Finals = {}
      BY <3>1, FS_EmptySet
    <3>2. CASE Finals # {}
      <4>1. PICK r \in Finals : TRUE
        BY <3>2
      <4>2. Finals = {r}
        BY <2>1, <4>1
      <4> QED BY <4>2, FS_Singleton
    <3> QED BY <3>1, <3>2
  <2>3. Direct /\ Due \notin {NoRange, born} => \E r \in Finals : r.end = EndOf(Due.end, Unit)
    BY DEF ReportsInv, InStep, Matches, EndsAt, Finals
  <2> QED BY <2>2, <2>3 DEF FinalReportAtEnd
<1> QED BY <1>1, ReportsInvariant, PTL

(* On the day after a quarter its report is the one that is due, never the   *)
(* final report of the same day (periodic-report.repository.ts, getCurrentDue). *)
THEOREM LastCompletedIsDue == Spec => []DueIsLastCompleted
<1>1. ReportsInv => DueIsLastCompleted
  <2> SUFFICES ASSUME ReportsInv, Direct, type = "Narrative", born = NoRange,
                      NEW i \in Units(Mou, Quarter)
               PROVE  \E r \in CurrentDue(i.end + 1) : IsAt(r, i)
    BY DEF DueIsLastCompleted
  <2>1. Due = Mou /\ Unit = Quarter
    BY DEF Due, Unit
  <2>2. Mou \in Days \cup {NoRange}
    BY RangeMeans DEF ReportsInv, Typed, Projects, Mou
  <2>3. Quarter \in Nat /\ Quarter > 1
    BY UnitsAreLong DEF UnitOf
  <2>4. /\ i.start \in Nat /\ i.end \in Nat /\ i.start < i.end
        /\ i.end = i.start + Quarter - 1
    BY <2>2, <2>3, UnitsAreIntervals DEF Days
  <2>5. PICK r \in reports : IsAt(r, i)
    <3>1. Covers(reports, Mou, Quarter, NoRange)
      BY <2>1 DEF ReportsInv, InStep, Matches
    <3> QED BY <3>1, NoUnits DEF Covers, HasAt
  <2>6. ASSUME NEW q \in reports, q.end < i.end + 1
        PROVE  q.end < r.end \/ (q.end = r.end /\ q.start >= r.start)
    <3>1. q.start \in Nat /\ q.end \in Nat
      BY DEF ReportsInv, Typed, WellFormed, AReport
    <3>2. r.start = i.start /\ r.end = i.end
      BY <2>5 DEF IsAt
    <3>3. q.start = q.end \/ q.end = q.start + Quarter - 1
      BY DEF ReportsInv, InStep, Matches, Whole, IsFinal
    <3> QED BY <2>3, <2>4, <2>6, <3>1, <3>2, <3>3
  <2>7. r.end < i.end + 1
    BY <2>4, <2>5 DEF IsAt
  <2> QED BY <2>5, <2>6, <2>7 DEF CurrentDue
<1> QED BY <1>1, ReportsInvariant, PTL
=============================================================================
